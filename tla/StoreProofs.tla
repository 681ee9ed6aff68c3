------------------------------ MODULE StoreProofs ------------------------------
(***************************************************************************)
(* The inductive invariant of StoreInv is one, so the properties of Store  *)
(* it implies hold for any schema, any size of a row group, any CSV, and   *)
(* any number of rows and conversions: first the layout of the file, the   *)
(* statistics of a chunk and what decode_chunk makes of what encode_chunk  *)
(* wrote; then the steps of a conversion and those of a query; and the     *)
(* properties that follow.                                                 *)
(***************************************************************************)
EXTENDS StoreScan, StoreTable, SequenceTheorems, WellFoundedInduction, TLAPS

(* A bounded, non-empty set of integers has a least element. *)
LEMMA LeastElement ==
    ASSUME NEW S \in SUBSET Int, S # {}, NEW lo \in Int, \A v \in S : lo <= v
    PROVE  \E m \in S : \A v \in S : m <= v
<1> DEFINE T == {n \in Nat : n + lo \in S}
<1>0. \A v \in S : v \in Int /\ v - lo \in T
  OBVIOUS
<1>1. T \subseteq Nat /\ T # {}
  BY <1>0
<1>2. \E x \in T : \A y \in T : ~(<<y, x>> \in OpToRel(<, Nat))
  BY <1>1, NatLessThanWellFounded, WFMin
<1>3. PICK x \in T : \A y \in T : ~(y < x)
  BY <1>1, <1>2 DEF OpToRel
<1>4. \A v \in S : x + lo <= v
  BY <1>0, <1>3
<1> QED
  BY <1>3, <1>4

(* And a greatest one. *)
LEMMA GreatestElement ==
    ASSUME NEW S \in SUBSET Int, S # {}, NEW hi \in Int, \A v \in S : v <= hi
    PROVE  \E m \in S : \A v \in S : v <= m
<1> DEFINE T == {n \in Int : -n \in S}
<1>0. \A v \in S : v \in Int /\ -v \in Int /\ -(-v) = v /\ -v \in T
  OBVIOUS
<1>1. T \in SUBSET Int /\ T # {} /\ -hi \in Int /\ \A v \in T : -hi <= v
  <2>1. T # {}
    BY <1>0
  <2>2. ASSUME NEW v \in T PROVE -hi <= v
    <3>1. v \in Int /\ -v <= hi
      OBVIOUS
    <3> QED
      BY <3>1
  <2> QED
    BY <2>1, <2>2
<1>2. PICK n \in T : \A v \in T : n <= v
  <2> HIDE DEF T
  <2> QED
    BY <1>1, LeastElement
<1>3. \A v \in S : v <= -n
  BY <1>0, <1>2
<1> QED
  BY <1>2, <1>3

(* The statistics of a non-empty Int64 chunk are its least and greatest    *)
(* values.                                                                 *)
LEMMA StatsOfValues ==
    ASSUME NEW vals \in Seq(Int), vals # <<>>,
           \A i \in 1..Len(vals) : vals[i] \in Int64
    PROVE  /\ MinOf(vals) \in Int /\ MaxOf(vals) \in Int
           /\ \A i \in 1..Len(vals) : vals[i] \in MinOf(vals)..MaxOf(vals)
           /\ \E i \in 1..Len(vals) : vals[i] = MinOf(vals)
           /\ \E i \in 1..Len(vals) : vals[i] = MaxOf(vals)
<1> DEFINE S == ValuesOf(vals)
<1>1. /\ S \in SUBSET Int /\ S # {}
      /\ \A v \in S : IntMin <= v /\ v <= IntMax
  BY IntAssumption DEF ValuesOf, Int64
<1>2. \E m \in S : \A v \in S : m <= v
  BY <1>1, LeastElement, IntAssumption
<1>3. \E m \in S : \A v \in S : v <= m
  BY <1>1, GreatestElement, IntAssumption
<1>4. MinOf(vals) \in S /\ \A v \in S : MinOf(vals) <= v
  BY <1>2 DEF MinOf
<1>5. MaxOf(vals) \in S /\ \A v \in S : v <= MaxOf(vals)
  BY <1>3 DEF MaxOf
<1> QED
  BY <1>1, <1>4, <1>5 DEF ValuesOf

-----------------------------------------------------------------------------
Base(id, vals) == IF id = "BitPack" THEN MinOf(vals) ELSE 0

(* The length of a sequence is the size of its domain. *)
LEMMA LenFromDomain ==
    ASSUME NEW S, NEW s \in Seq(S), NEW n \in Nat, DOMAIN s = 1..n
    PROVE  Len(s) = n
<1>1. Len(s) \in Nat /\ 1..Len(s) = 1..n
  BY LenProperties
<1> QED
  BY <1>1

(* Appending cells to a file, in terms of positions. *)
LEMMA AppendedCells ==
    ASSUME NEW f \in Seq(Cell), NEW s \in Seq(Cell), NEW g, g = f \o s
    PROVE  /\ g \in Seq(Cell) /\ Len(g) = Len(f) + Len(s)
           /\ \A i \in 1..Len(f) : g[i] = f[i]
           /\ \A i \in 1..Len(s) : g[Len(f) + i] = s[i]
           /\ \A i \in Len(f)+1..Len(g) : i - Len(f) \in 1..Len(s) /\ g[i] = s[i - Len(f)]
<1>1. Len(f) \in Nat /\ Len(s) \in Nat
  OBVIOUS
<1>2. /\ g \in Seq(Cell) /\ Len(g) = Len(f) + Len(s)
      /\ \A i \in 1..Len(f) + Len(s) :
           g[i] = IF i <= Len(f) THEN f[i] ELSE s[i - Len(f)]
  BY ConcatProperties
<1>3. ASSUME NEW i \in 1..Len(s) PROVE g[Len(f) + i] = s[i]
  <2>1. /\ Len(f) + i \in 1..Len(f) + Len(s) /\ ~(Len(f) + i <= Len(f))
        /\ (Len(f) + i) - Len(f) = i
    BY <1>1
  <2> QED
    BY <1>2, <2>1
<1>4. \A i \in 1..Len(f) : g[i] = f[i]
  BY <1>1, <1>2
<1>5. \A i \in Len(f)+1..Len(g) : i - Len(f) \in 1..Len(s) /\ g[i] = s[i - Len(f)]
  BY <1>1, <1>2
<1> QED
  BY <1>2, <1>3, <1>4, <1>5

(* What encode_chunk writes, cell by cell. *)
LEMMA ChunkLayout ==
    ASSUME NEW vals \in Seq(Int), NEW id \in CodecId,
           id = "BitPack" => MinOf(vals) \in Int,
           NEW kept \in Seq(Int), Len(kept) = Len(vals),
           NEW ch, ch = EncodeChunk(id, vals, kept),
           NEW h, h = HeaderLen(id)
    PROVE  /\ ch \in Seq(Cell)
           /\ h \in 1..3 /\ Len(ch) = h + Len(vals)
           /\ ch[1] = CodecCell(id)
           /\ \A i \in 2..Len(ch) : ch[i].k = "num"
           /\ id = "BitPack" => ch[2] = NumCell(MinOf(vals))
           /\ id # "None" => ch[h] = NumCell(Len(vals))
           /\ \A i \in 1..Len(vals) : ch[h + i] = NumCell(kept[i] - Base(id, vals))
<1> DEFINE hd == Header(id, vals)
           pl == Payload(id, vals, kept)
<1>1. Len(vals) \in Nat /\ \A i \in 1..Len(vals) : kept[i] \in Int
  OBVIOUS
<1>2. Base(id, vals) \in Int
  BY DEF Base
<1>3. /\ pl = [i \in 1..Len(vals) |-> NumCell(kept[i] - Base(id, vals))]
      /\ \A i \in 1..Len(vals) : kept[i] - Base(id, vals) \in Int
  BY <1>1, <1>2 DEF Payload, Base
<1>4. \A n \in Int : NumCell(n) \in Cell /\ NumCell(n).k = "num"
  BY DEF NumCell, Cell
<1>5. CodecCell(id) \in Cell
  BY DEF CodecCell, Cell
<1>6. pl \in Seq(Cell) /\ Len(pl) = Len(vals)
  <2> HIDE DEF pl
  <2>1. \A i \in 1..Len(vals) : NumCell(kept[i] - Base(id, vals)) \in Cell
    BY <1>3, <1>4
  <2> QED
    BY <1>1, <1>3, <2>1
<1>7. /\ hd \in Seq(Cell) /\ Len(hd) = h /\ h \in 1..3
      /\ hd[1] = CodecCell(id)
      /\ \A i \in 2..h : hd[i].k = "num"
      /\ id = "BitPack" => hd[2] = NumCell(MinOf(vals))
      /\ id # "None" => hd[h] = NumCell(Len(vals))
  <2>1. CASE id = "None"
    BY <1>5, <2>1 DEF Header, HeaderLen
  <2>2. CASE id = "BitPack"
    BY <1>1, <1>4, <1>5, <2>2 DEF Header, HeaderLen
  <2>3. CASE id = "DLBA"
    BY <1>1, <1>4, <1>5, <2>3 DEF Header, HeaderLen
  <2> QED
    BY <2>1, <2>2, <2>3 DEF CodecId
<1>8. ch = hd \o pl
  BY DEF EncodeChunk
<1> HIDE DEF hd, pl
<1>9. /\ ch \in Seq(Cell)
      /\ Len(ch) = h + Len(vals)
      /\ \A i \in 1..h + Len(vals) : ch[i] = IF i <= h THEN hd[i] ELSE pl[i - h]
  BY <1>6, <1>7, <1>8, ConcatProperties
<1>10. ASSUME NEW i \in 1..Len(vals)
       PROVE  ch[h + i] = NumCell(kept[i] - Base(id, vals))
  <2>1. h + i \in 1..h + Len(vals) /\ ~(h + i <= h) /\ (h + i) - h = i
    BY <1>1, <1>7
  <2>2. ch[h + i] = pl[i]
    BY <1>9, <2>1
  <2> QED
    BY <1>3, <2>2
<1>11. ASSUME NEW i \in 2..Len(ch)
       PROVE  ch[i].k = "num"
  <2>1. CASE i <= h
    BY <1>1, <1>7, <1>9, <2>1
  <2>2. CASE ~(i <= h)
    <3>1. i - h \in 1..Len(vals) /\ i = h + (i - h)
      BY <1>1, <1>7, <1>9, <2>2
    <3> QED
      BY <1>3, <1>4, <1>10, <3>1
  <2> QED
    BY <2>1, <2>2
<1>12. ch[1] = hd[1] /\ (h >= 2 => ch[2] = hd[2]) /\ ch[h] = hd[h]
  BY <1>1, <1>7, <1>9
<1>13. id = "BitPack" => h >= 2
  BY DEF HeaderLen
<1> QED
  BY <1>7, <1>9, <1>10, <1>11, <1>12, <1>13

(* The same of the cells themselves. *)
LaidOut(ch, id, vals, kept) ==
    LET h == HeaderLen(id)
    IN  /\ ch \in Seq(Cell)
        /\ h \in 1..3 /\ Len(ch) = h + Len(vals)
        /\ ch[1] = CodecCell(id)
        /\ \A i \in 2..Len(ch) : ch[i].k = "num"
        /\ id = "BitPack" => ch[2] = NumCell(MinOf(vals))
        /\ id # "None" => ch[h] = NumCell(Len(vals))
        /\ \A i \in 1..Len(vals) : ch[h + i] = NumCell(kept[i] - Base(id, vals))

LEMMA ChunkLaidOut ==
    ASSUME NEW vals \in Seq(Int), NEW id \in CodecId,
           id = "BitPack" => MinOf(vals) \in Int,
           NEW kept \in Seq(Int), Len(kept) = Len(vals)
    PROVE  LaidOut(EncodeChunk(id, vals, kept), id, vals, kept)
BY ChunkLayout DEF LaidOut

(* What is left of a column in a chunk: as many integers as it had, and the *)
(* same ones if the codecs keep them.                                       *)
LEMMA KeptValues ==
    ASSUME NEW t \in DataType, NEW vals \in Seq(Int),
           NEW id \in Candidates(t, Len(vals)), NEW kept \in Kept(id, vals)
    PROVE  /\ kept \in Seq(Int) /\ Len(kept) = Len(vals)
           /\ Keeps(t, vals) => kept = vals
<1>1. id = "BitPack" => t = "Int64" /\ Compress
  BY DEF Candidates
<1>2. Len(vals) \in Nat /\ Int64 \subseteq Int
  BY DEF Int64
<1>3. CASE kept = vals
  BY <1>3
<1>4. CASE kept # vals
  <2>1. id = "BitPack" /\ ~Narrow(vals) /\ kept \in [1..Len(vals) -> Int64]
    BY <1>4 DEF Kept
  <2>2. kept \in [1..Len(vals) -> Int]
    BY <1>2, <2>1
  <2>3. kept \in Seq(Int) /\ Len(kept) = Len(vals)
    BY <1>2, <2>2
  <2> QED
    BY <1>1, <2>1, <2>3 DEF Keeps
<1> QED
  BY <1>3, <1>4

(* g is f with a chunk appended that decode_chunk accepts as kept. *)
ChunkAppended(f, g, t, kept, n) ==
    /\ g \in Seq(Cell) /\ Len(g) > Len(f)
    /\ \A i \in 1..Len(f) : g[i] = f[i]
    /\ \A i \in Len(f)+1..Len(g) : g[i].k \in {"codec", "num"}
    /\ Decodable(g, Len(g), Len(f), t, n)
    /\ DecodeChunk(g, Len(f), n) = kept

(* decode_chunk accepts a chunk that encode_chunk appended to a file, and   *)
(* returns what is left in it of the values it was made of.                 *)
LEMMA ChunkRoundTrip ==
    ASSUME NEW f \in Seq(Cell), NEW vals \in Seq(Int), NEW t \in DataType,
           t # "String" => \A i \in 1..Len(vals) : vals[i] \in Int64,
           NEW id \in Candidates(t, Len(vals)), NEW kept \in Kept(id, vals)
    PROVE  ChunkAppended(f, f \o EncodeChunk(id, vals, kept), t, kept, Len(vals))
<1>g. PICK g : g = f \o EncodeChunk(id, vals, kept)
  OBVIOUS
<1>0. kept \in Seq(Int) /\ Len(kept) = Len(vals)
  BY KeptValues
<1>1. id \in CodecId /\ (id = "BitPack" => t = "Int64" /\ Len(vals) > 0)
                    /\ (id = "DLBA" => t = "String")
  BY DEF Candidates, CodecId
<1>2. id = "BitPack" => MinOf(vals) \in Int
  BY <1>1, StatsOfValues
<1> DEFINE ch == EncodeChunk(id, vals, kept)
           h  == HeaderLen(id)
           b  == Base(id, vals)
<1>3. /\ ch \in Seq(Cell)
      /\ h \in 1..3 /\ Len(ch) = h + Len(vals)
      /\ ch[1] = CodecCell(id)
      /\ \A i \in 2..Len(ch) : ch[i].k = "num"
      /\ id = "BitPack" => ch[2] = NumCell(MinOf(vals))
      /\ id # "None" => ch[h] = NumCell(Len(vals))
      /\ \A i \in 1..Len(vals) : ch[h + i] = NumCell(kept[i] - b)
  <2>1. PICK w \in Seq(Int) : w = kept
    BY <1>0
  <2>2. id \in CodecId /\ Len(w) = Len(vals) /\ (id = "BitPack" => MinOf(vals) \in Int)
    BY <1>0, <1>1, <1>2, <2>1
  <2>3. LaidOut(EncodeChunk(id, vals, w), id, vals, w)
    BY <2>2, ChunkLaidOut
  <2> QED
    BY <2>1, <2>3 DEF LaidOut
<1>4. b \in Int
  BY <1>2 DEF Base
<1>5. g = f \o ch
  BY <1>g
<1> HIDE DEF ch, h, b
<1>6. /\ g \in Seq(Cell) /\ Len(g) = Len(f) + Len(ch)
      /\ \A i \in 1..Len(f) : g[i] = f[i]
      /\ \A i \in 1..Len(ch) : g[Len(f) + i] = ch[i]
      /\ \A i \in Len(f)+1..Len(g) : i - Len(f) \in 1..Len(ch) /\ g[i] = ch[i - Len(f)]
  <2>1. ch \in Seq(Cell)
    BY <1>3
  <2> QED
    BY <1>5, <2>1, AppendedCells
<1>7. Len(f) \in Nat /\ Len(vals) \in Nat /\ Len(ch) \in Nat
  BY <1>3
<1>8. ASSUME NEW i, i \in 1..Len(ch) PROVE g[Len(f) + i] = ch[i]
  BY <1>6, <1>8
<1>9. g[Len(f) + 1] = CodecCell(id)
  <2>1. 1 \in 1..Len(ch)
    BY <1>3, <1>7
  <2> QED
    BY <1>3, <1>8, <2>1
<1>10. ASSUME NEW i \in Len(f)+1..Len(g) PROVE g[i].k \in {"codec", "num"}
  <2>2. i - Len(f) \in 1..Len(ch) /\ g[i] = ch[i - Len(f)]
    BY <1>6, <1>7
  <2>3. CASE i - Len(f) = 1
    BY <1>3, <2>2, <2>3 DEF CodecCell
  <2>4. CASE i - Len(f) # 1
    <3>1. i - Len(f) \in 2..Len(ch)
      BY <1>7, <2>2, <2>4
    <3> QED
      BY <1>3, <2>2, <3>1
  <2> QED
    BY <2>3, <2>4
<1>11. Decodable(g, Len(g), Len(f), t, Len(vals))
  <2>1. g[Len(f) + 1].k = "codec" /\ g[Len(f) + 1].id = id
    BY <1>9 DEF CodecCell
  <2>2. Len(f) \in 0..Len(g)-1 /\ Len(f) + h + Len(vals) <= Len(g)
    BY <1>3, <1>6, <1>7
  <2>3. ASSUME NEW i \in 2..h+Len(vals) PROVE g[Len(f)+i].k = "num"
    <3>1. i \in 2..Len(ch) /\ i \in 1..Len(ch)
      BY <1>3, <1>7
    <3> QED
      BY <1>3, <1>8, <3>1
  <2>4. id # "None" => g[Len(f)+h].v = Len(vals)
    <3>1. h \in 1..Len(ch)
      BY <1>3, <1>7
    <3>2. id # "None" => g[Len(f)+h] = NumCell(Len(vals))
      BY <1>3, <1>8, <3>1
    <3>3. NumCell(Len(vals)).v = Len(vals)
      BY DEF NumCell
    <3> QED
      BY <3>2, <3>3
  <2> QED
    BY <1>1, <2>1, <2>2, <2>3, <2>4 DEF Decodable, h
<1>12. DecodeChunk(g, Len(f), Len(vals)) = kept
  <2>1. g[Len(f) + 1].id = id
    BY <1>9 DEF CodecCell
  <2>2. (IF id = "BitPack" THEN g[Len(f)+2].v ELSE 0) = b
    <3>1. CASE id = "BitPack"
      <4>1. h = 3
        BY <3>1 DEF h, HeaderLen
      <4>2. 2 \in 1..Len(ch)
        BY <1>3, <1>7, <4>1
      <4>3. g[Len(f) + 2] = NumCell(MinOf(vals))
        BY <1>3, <1>8, <3>1, <4>2
      <4>4. g[Len(f) + 2].v = MinOf(vals)
        BY <4>3 DEF NumCell
      <4> QED
        BY <3>1, <4>4 DEF Base, b
    <3>2. CASE id # "BitPack"
      BY <3>2 DEF Base, b
    <3> QED
      BY <3>1, <3>2
  <2>3. ASSUME NEW i \in 1..Len(vals) PROVE b + g[Len(f) + h + i].v = kept[i]
    <3>1. h + i \in 1..Len(ch) /\ Len(f) + (h + i) = Len(f) + h + i
      BY <1>3, <1>7
    <3>2. g[Len(f) + h + i] = NumCell(kept[i] - b)
      BY <1>3, <1>8, <3>1
    <3>3. kept[i] \in Int
      BY <1>0
    <3> QED
      BY <1>4, <3>2, <3>3 DEF NumCell
  <2>4. DecodeChunk(g, Len(f), Len(vals)) = [i \in 1..Len(kept) |-> kept[i]]
    BY <1>0, <2>1, <2>2, <2>3 DEF DecodeChunk, h
  <2> QED
    BY <1>0, <2>4
<1> QED
  <2>1. ChunkAppended(f, g, t, kept, Len(vals))
    BY <1>3, <1>6, <1>7, <1>10, <1>11, <1>12 DEF ChunkAppended
  <2> QED
    BY <1>g, <2>1

(* A chunk stays what it is in any file that has the same cells there. *)
LEMMA ChunkStable ==
    ASSUME NEW f, NEW g, NEW size \in Int, NEW size2 \in Int, size <= size2,
           NEW off, NEW t, NEW n \in Nat,
           \A i \in 1..size : g[i] = f[i],
           Decodable(f, size, off, t, n)
    PROVE  /\ Decodable(g, size2, off, t, n)
           /\ DecodeChunk(g, off, n) = DecodeChunk(f, off, n)
<1> DEFINE id == f[off+1].id
           h  == HeaderLen(id)
<1>1. off \in 0..size-1 /\ g[off+1] = f[off+1] /\ f[off+1].k = "codec"
  BY DEF Decodable
<1>2. /\ id \in CodecId
      /\ off + h + n <= size
      /\ \A i \in 2..h+n : f[off+i].k = "num"
      /\ id = "BitPack" => t = "Int64"
      /\ id = "DLBA" => t = "String"
      /\ id # "None" => f[off+h].v = n
  BY DEF Decodable
<1>3. h \in 1..3 /\ (id = "BitPack" => h = 3)
  BY <1>2 DEF CodecId, HeaderLen
<1> HIDE DEF h
<1>4. \A i \in 1..h+n : g[off+i] = f[off+i]
  BY <1>1, <1>2, <1>3
<1>5. Decodable(g, size2, off, t, n)
  BY <1>1, <1>2, <1>3, <1>4 DEF Decodable, h
<1>6. ASSUME NEW i \in 1..n PROVE g[off + h + i] = f[off + h + i]
  <2>1. h + i \in 1..h+n /\ off + (h + i) = off + h + i
    BY <1>1, <1>3
  <2> QED
    BY <1>4, <2>1
<1>7. id = "BitPack" => g[off + 2] = f[off + 2]
  BY <1>3, <1>4
<1>8. DecodeChunk(g, off, n) = DecodeChunk(f, off, n)
  BY <1>1, <1>6, <1>7 DEF DecodeChunk, h
<1> QED
  BY <1>5, <1>8

(* What the footer of gs is, cell by cell. *)
LEMMA FooterLayout ==
    ASSUME NEW gs \in Seq(RowGroupMeta), NEW ft, ft = Footer(gs)
    PROVE  /\ ft \in Seq(Cell) /\ Len(ft) = Len(gs) + 4
           /\ ft[1] = SchemaCell /\ ft[2] = NumCell(Len(gs))
           /\ \A g \in 1..Len(gs) : ft[2 + g] = GroupCell(gs[g])
           /\ ft[Len(gs) + 3] = LenCell(Len(gs) + 2)
           /\ ft[Len(gs) + 4] = MagicCell
<1>1. PICK hd, mid, tl :
        /\ hd = <<SchemaCell, NumCell(Len(gs))>>
        /\ mid = [i \in 1..Len(gs) |-> GroupCell(gs[i])]
        /\ tl = <<LenCell(Len(gs) + 2), MagicCell>>
  OBVIOUS
<1>2. Len(gs) \in Nat /\ \A i \in 1..Len(gs) : gs[i] \in RowGroupMeta
  OBVIOUS
<1>3. hd \in Seq(Cell) /\ Len(hd) = 2 /\ hd[1] = SchemaCell /\ hd[2] = NumCell(Len(gs))
  <2>1. SchemaCell \in Cell /\ NumCell(Len(gs)) \in Cell
    BY <1>2, TypesAssumption DEF SchemaCell, NumCell, Cell
  <2> QED
    BY <1>1, <2>1
<1>4. /\ mid \in Seq(Cell) /\ Len(mid) = Len(gs)
      /\ \A i \in 1..Len(gs) : mid[i] = GroupCell(gs[i])
  <2>1. \A i \in 1..Len(gs) : GroupCell(gs[i]) \in Cell
    BY <1>2 DEF GroupCell, Cell
  <2> QED
    BY <1>1, <1>2, <2>1
<1>5. tl \in Seq(Cell) /\ Len(tl) = 2 /\ tl[1] = LenCell(Len(gs) + 2) /\ tl[2] = MagicCell
  <2>1. LenCell(Len(gs) + 2) \in Cell /\ MagicCell \in Cell
    BY <1>2 DEF LenCell, MagicCell, Cell
  <2> QED
    BY <1>1, <2>1
<1>6. PICK fst : fst = hd \o mid
  OBVIOUS
<1>7. ft = fst \o tl
  BY <1>1, <1>6 DEF Footer
<1>8. /\ fst \in Seq(Cell) /\ Len(fst) = Len(gs) + 2
      /\ \A i \in 1..2 : fst[i] = hd[i]
      /\ \A i \in 1..Len(gs) : fst[2 + i] = mid[i]
  <2>1. /\ fst \in Seq(Cell) /\ Len(fst) = Len(hd) + Len(mid)
        /\ \A i \in 1..Len(hd) : fst[i] = hd[i]
        /\ \A i \in 1..Len(mid) : fst[Len(hd) + i] = mid[i]
    <3>1. hd \in Seq(Cell) /\ mid \in Seq(Cell)
      BY <1>3, <1>4
    <3> QED
      BY <1>6, <3>1, AppendedCells
  <2> QED
    BY <1>2, <1>3, <1>4, <2>1
<1>9. /\ ft \in Seq(Cell) /\ Len(ft) = Len(fst) + 2
      /\ \A i \in 1..Len(fst) : ft[i] = fst[i]
      /\ \A i \in 1..2 : ft[Len(fst) + i] = tl[i]
  <2>1. /\ ft \in Seq(Cell) /\ Len(ft) = Len(fst) + Len(tl)
        /\ \A i \in 1..Len(fst) : ft[i] = fst[i]
        /\ \A i \in 1..Len(tl) : ft[Len(fst) + i] = tl[i]
    <3>1. fst \in Seq(Cell) /\ tl \in Seq(Cell)
      BY <1>5, <1>8
    <3> QED
      BY <1>7, <3>1, AppendedCells
  <2> QED
    BY <1>5, <2>1
<1>10. ft[1] = SchemaCell /\ ft[2] = NumCell(Len(gs))
  BY <1>2, <1>3, <1>8, <1>9
<1>11. ASSUME NEW g \in 1..Len(gs) PROVE ft[2 + g] = GroupCell(gs[g])
  <2>1. 2 + g \in 1..Len(fst)
    BY <1>2, <1>8
  <2> QED
    BY <1>4, <1>8, <1>9, <2>1
<1>12. ft[Len(gs) + 3] = LenCell(Len(gs) + 2) /\ ft[Len(gs) + 4] = MagicCell
  <2>1. Len(gs) + 3 = Len(fst) + 1 /\ Len(gs) + 4 = Len(fst) + 2
    BY <1>2, <1>8
  <2> QED
    BY <1>5, <1>9, <2>1
<1>13. Len(ft) = Len(gs) + 4
  BY <1>2, <1>8, <1>9
<1> QED
  BY <1>9, <1>10, <1>11, <1>12, <1>13

-----------------------------------------------------------------------------
(* The parts of the invariant about the conversion and the file. *)
WriterInv == /\ WriterTypeOK /\ FileInv /\ PcInv /\ RowsInv /\ TilesInv
             /\ FullInv /\ ChunkInv

LEMMA InitInv == Init => IInv
<1> SUFFICES ASSUME Init PROVE IInv
  OBVIOUS
<1> USE DEF Init, WriterInit, ReaderInit
<1>1. NCols \in Nat
  BY TypesAssumption DEF NCols
<1>2. WriterTypeOK
  <2>1. /\ file \in Seq(Cell) /\ Len(file) = 0
        /\ groups \in Seq(RowGroupMeta) /\ cmetas \in Seq(ChunkMeta)
        /\ input \in Seq(Seq(Int)) /\ starts \in Seq(Nat)
    BY EmptySeq
  <2>2. columns \in [1..NCols -> Seq(Int)]
    BY EmptySeq DEF EmptyColumns
  <2>3. durable \in 0..Len(file)
    BY <2>1
  <2>4. wpc \in WriterPc
    BY DEF WriterPc
  <2> QED
    BY <2>1, <2>2, <2>3, <2>4 DEF WriterTypeOK
<1>3. ReaderTypeOK
  <2>1. rtypes \in Seq(DataType) /\ rgroups \in Seq(RowGroupMeta) /\ <<>> \in Seq(Int)
    BY EmptySeq
  <2> QED
    BY <2>1 DEF ReaderTypeOK, NothingRead
<1>4. FileInv
  BY DEF FileInv, FooterWritten, DataLen
<1>5. PcInv
  BY <1>1 DEF PcInv, FooterWritten
<1>6. RowsInv
  BY DEF RowsInv, EmptyColumns
<1>7. TilesInv
  BY DEF TilesInv
<1>8. FullInv
  BY DEF FullInv, GroupsAreFull
<1>9. ChunkInv
  BY DEF ChunkInv
<1>10. ReaderInv
  BY DEF ReaderInv, Current, ReadsReturnTheCsv, NothingRead
<1> QED
  BY <1>2, <1>3, <1>4, <1>5, <1>6, <1>7, <1>8, <1>9, <1>10 DEF IInv, TypeOK

-----------------------------------------------------------------------------
(* A step of the reader leaves the conversion and the file alone. *)
LEMMA WriterFrame ==
    ASSUME WriterInv, UNCHANGED <<diskVars, writerVars>>
    PROVE  WriterInv'
<1> USE DEF WriterInv, diskVars, writerVars
<1>1. WriterTypeOK'
  BY DEF WriterTypeOK
<1>2. FileInv'
  BY DEF FileInv, FooterWritten, DataLen
<1>3. PcInv'
  BY DEF PcInv, FooterWritten, Sealed
<1>4. RowsInv'
  BY DEF RowsInv
<1>5. TilesInv'
  BY DEF TilesInv
<1>6. FullInv'
  BY DEF FullInv, GroupsAreFull
<1>7. ChunkInv'
  BY DEF ChunkInv, FooterWritten, DataLen, ChunkHolds, StatsHold, Rows
<1> QED
  BY <1>1, <1>2, <1>3, <1>4, <1>5, <1>6, <1>7

(* A step of the conversion that is not a truncation leaves what a reader  *)
(* of the current file knows valid: nothing moves once the footer is       *)
(* written.                                                                *)
LEMMA ReaderFrame ==
    ASSUME TypeOK, ReaderInv, UNCHANGED readerVars,
           gen' = gen, durable' \in Nat, durable' >= durable,
           FooterWritten => UNCHANGED <<file, groups, starts, input>>
    PROVE  ReaderTypeOK' /\ ReaderInv'
<1> USE DEF readerVars
<1>1. ReaderTypeOK'
  BY DEF TypeOK, ReaderTypeOK
<1>2. CASE Current /\ (rtypes # <<>> \/ rgroups # <<>>)
  <2>1. FooterWritten /\ durable >= Len(file) - 1
    BY <1>2 DEF ReaderInv
  <2>2. UNCHANGED <<file, groups, starts, input>> /\ FooterWritten'
    BY <2>1 DEF FooterWritten
  <2>3. durable' >= Len(file') - 1
    BY <2>1, <2>2 DEF TypeOK, WriterTypeOK
  <2> QED
    BY <1>1, <1>2, <2>1, <2>2, <2>3 DEF ReaderInv, Current, ReadsReturnTheCsv, ReadBack, Slice
<1>3. CASE ~(Current /\ (rtypes # <<>> \/ rgroups # <<>>))
  BY <1>1, <1>3 DEF ReaderInv, Current, ReadsReturnTheCsv
<1> QED
  BY <1>2, <1>3

(* The types of a written group. *)
LEMMA GroupTypes ==
    ASSUME WriterTypeOK, TilesInv, NEW g \in 1..Len(groups)
    PROVE  /\ groups[g].num_rows \in Nat /\ starts[g] \in Nat
           /\ groups[g].columns \in Seq(ChunkMeta) /\ Len(groups[g].columns) = NCols
           /\ Len(groups) \in Nat /\ Len(starts) = Len(groups)
<1>1. groups[g] \in RowGroupMeta
  BY ElementOfSeq DEF WriterTypeOK
<1>2. Len(starts) = Len(groups) /\ Len(groups[g].columns) = NCols
  BY DEF TilesInv
<1>3. starts[g] \in Nat
  BY <1>2, ElementOfSeq DEF WriterTypeOK
<1> QED
  BY <1>1, <1>2, <1>3 DEF RowGroupMeta, WriterTypeOK

(* What a column buffer holds, and the type of its values. *)
LEMMA ColumnBuffer ==
    ASSUME WriterTypeOK, RowsInv, NEW c \in 1..NCols
    PROVE  /\ columns[c] \in Seq(Int) /\ Len(columns[c]) = buffered
           /\ \A i \in 1..buffered : columns[c][i] = input[Len(input) - buffered + i][c]
           /\ Types[c] \in DataType
           /\ Types[c] # "String" => \A i \in 1..Len(columns[c]) : columns[c][i] \in Int64
<1>1. columns[c] = [i \in 1..buffered |-> input[Len(input) - buffered + i][c]]
  BY DEF RowsInv
<1>2. columns[c] \in Seq(Int) /\ DOMAIN columns[c] = 1..buffered /\ buffered \in Nat
  BY <1>1 DEF WriterTypeOK
<1>3. Len(columns[c]) = buffered
  BY <1>2, LenFromDomain
<1>4. Types[c] \in DataType
  BY TypesAssumption DEF NCols
<1>5. ASSUME NEW i \in 1..buffered, Types[c] # "String"
      PROVE  columns[c][i] \in Int64
  <2>1. Len(input) - buffered + i \in 1..Len(input)
    BY <1>2 DEF WriterTypeOK, RowsInv
  <2>2. Accepted(input[Len(input) - buffered + i])
    BY <2>1 DEF RowsInv
  <2> QED
    BY <1>1, <1>5, <2>2 DEF Accepted
<1> QED
  BY <1>1, <1>2, <1>3, <1>4, <1>5

-----------------------------------------------------------------------------
(* The steps of the conversion. *)

LEMMA RejectSchemaInv == WriterInv /\ RejectSchema => WriterInv'
<1> SUFFICES ASSUME WriterInv, RejectSchema PROVE WriterInv'
  OBVIOUS
<1> USE DEF WriterInv, RejectSchema, diskVars
<1>1. WriterTypeOK'
  BY DEF WriterTypeOK
<1>2. FileInv'
  BY DEF FileInv, FooterWritten, DataLen
<1>3. PcInv'
  BY DEF PcInv, FooterWritten, Sealed
<1>4. RowsInv' /\ TilesInv'
  BY DEF RowsInv, TilesInv
<1>5. FullInv'
  BY DEF FullInv, GroupsAreFull
<1>6. ChunkInv'
  BY DEF ChunkInv, FooterWritten, DataLen, ChunkHolds, StatsHold, Rows
<1> QED
  BY <1>1, <1>2, <1>3, <1>4, <1>5, <1>6

LEMMA StartConvertInv == WriterInv /\ StartConvert => WriterInv'
<1> SUFFICES ASSUME WriterInv, StartConvert PROVE WriterInv'
  OBVIOUS
<1> USE DEF WriterInv, StartConvert
<1>0. NCols \in Nat /\ gen \in Nat
  BY TypesAssumption DEF NCols, WriterTypeOK
<1>1. WriterTypeOK'
  <2>1. /\ file' \in Seq(Cell) /\ Len(file') = 1
    BY DEF MagicCell, Cell
  <2>2. columns' \in [1..NCols -> Seq(Int)]
    BY EmptySeq DEF EmptyColumns
  <2>3. /\ groups' \in Seq(RowGroupMeta) /\ cmetas' \in Seq(ChunkMeta)
        /\ input' \in Seq(Seq(Int)) /\ starts' \in Seq(Nat)
    BY EmptySeq
  <2>4. durable' \in 0..Len(file') /\ gen' \in Nat /\ wpc' \in WriterPc
    BY <1>0, <2>1 DEF WriterPc
  <2> QED
    BY <2>1, <2>2, <2>3, <2>4 DEF WriterTypeOK
<1>2. Len(file') = 1 /\ file'[1].k = "magic" /\ file' # <<>> /\ ~FooterWritten'
  BY DEF MagicCell, FooterWritten
<1>3. FileInv'
  BY <1>0, <1>2 DEF FileInv, DataLen
<1>4. PcInv'
  BY <1>0, <1>2 DEF PcInv
<1>5. RowsInv' /\ TilesInv'
  BY DEF RowsInv, TilesInv, EmptyColumns
<1>6. FullInv' /\ ChunkInv'
  BY DEF FullInv, GroupsAreFull, ChunkInv
<1> QED
  BY <1>1, <1>3, <1>4, <1>5, <1>6

LEMMA OpenCsvInv == WriterInv /\ OpenCsv => WriterInv'
<1> SUFFICES ASSUME WriterInv, OpenCsv PROVE WriterInv'
  OBVIOUS
<1> USE DEF WriterInv, OpenCsv, diskVars
<1>1. WriterTypeOK'
  BY DEF WriterTypeOK, WriterPc
<1>2. FileInv'
  BY DEF FileInv, FooterWritten, DataLen
<1>3. PcInv'
  BY RowsPerGroupAssumption DEF PcInv, FooterWritten, Sealed, RowsInv, WriterTypeOK
<1>4. RowsInv' /\ TilesInv'
  BY DEF RowsInv, TilesInv
<1>5. FullInv'
  BY DEF FullInv, GroupsAreFull
<1>6. ChunkInv'
  BY DEF ChunkInv, FooterWritten, DataLen, ChunkHolds, StatsHold, Rows
<1> QED
  BY <1>1, <1>2, <1>3, <1>4, <1>5, <1>6

(* The two ways an exception ends a conversion. *)
LEMMA ThrowInv == WriterInv /\ wpc \in {"open", "rows"} /\ Throw => WriterInv'
<1> SUFFICES ASSUME WriterInv, wpc \in {"open", "rows"}, Throw PROVE WriterInv'
  OBVIOUS
<1> USE DEF WriterInv, Throw
<1>1. WriterTypeOK'
  <2>1. durable' \in 0..Len(file')
    BY DEF WriterTypeOK
  <2> QED
    BY <2>1 DEF WriterTypeOK, WriterPc
<1>2. FileInv'
  BY DEF FileInv, FooterWritten, DataLen
<1>3. PcInv'
  BY DEF PcInv, FooterWritten, Sealed
<1>4. RowsInv' /\ TilesInv'
  BY DEF RowsInv, TilesInv
<1>5. FullInv'
  BY DEF FullInv, GroupsAreFull
<1>6. ChunkInv'
  BY DEF ChunkInv, FooterWritten, DataLen, ChunkHolds, StatsHold, Rows
<1> QED
  BY <1>1, <1>2, <1>3, <1>4, <1>5, <1>6

LEMMA EndOfCsvInv == WriterInv /\ EndOfCsv => WriterInv'
<1> SUFFICES ASSUME WriterInv, EndOfCsv PROVE WriterInv'
  OBVIOUS
<1> USE DEF WriterInv, EndOfCsv, diskVars
<1>1. WriterTypeOK'
  BY DEF WriterTypeOK, WriterPc
<1>2. FileInv'
  BY DEF FileInv, FooterWritten, DataLen, WriterTypeOK
<1>3. PcInv'
  <2>1. ~FooterWritten /\ ~FooterWritten'
    BY DEF PcInv, FooterWritten
  <2>2. buffered = 0 /\ total_rows # 0 => groups # <<>>
    BY DEF RowsInv, TilesInv
  <2> QED
    BY <2>1, <2>2, RowsPerGroupAssumption DEF PcInv, Sealed, WriterTypeOK
<1>4. RowsInv' /\ TilesInv'
  BY DEF RowsInv, TilesInv
<1>5. FullInv'
  BY DEF FullInv, GroupsAreFull
<1>6. ChunkInv'
  BY DEF ChunkInv, FooterWritten, DataLen, ChunkHolds, StatsHold, Rows, PcInv
<1> QED
  BY <1>1, <1>2, <1>3, <1>4, <1>5, <1>6

LEMMA AppendRowInv ==
    ASSUME WriterInv, NEW row \in CsvRows, AppendRow(row)
    PROVE  WriterInv'
<1> USE DEF WriterInv, AppendRow, diskVars
<1>0. /\ row \in Seq(Int) /\ Accepted(row)
      /\ Len(input) \in Nat /\ buffered \in Nat /\ buffered <= Len(input)
      /\ NCols \in Nat
  BY CsvRowsAssumption, TypesAssumption DEF WriterTypeOK, RowsInv, NCols
<1>1. /\ input' \in Seq(Seq(Int)) /\ Len(input') = Len(input) + 1
      /\ input'[Len(input) + 1] = row
      /\ \A i \in 1..Len(input) : input'[i] = input[i]
  BY <1>0, AppendProperties DEF WriterTypeOK
<1>2. /\ columns' = [c \in 1..NCols |-> Append(columns[c], row[c])]
      /\ \A c \in 1..NCols : columns[c] \in Seq(Int) /\ row[c] \in Int
  BY <1>0 DEF WriterTypeOK, Accepted
<1>3. WriterTypeOK'
  <2>1. columns' \in [1..NCols -> Seq(Int)]
    BY <1>2, AppendProperties
  <2> QED
    BY <1>1, <2>1 DEF WriterTypeOK, WriterPc
<1>4. FileInv'
  BY DEF FileInv, FooterWritten, DataLen
<1>5. ~FooterWritten /\ ~FooterWritten'
  BY DEF PcInv, FooterWritten
<1>6. PcInv'
  BY <1>0, <1>5, RowsPerGroupAssumption DEF PcInv, Sealed
<1>7. RowsInv'
  <2>1. \A i \in 1..Len(input') : Accepted(input'[i])
    BY <1>0, <1>1 DEF RowsInv
  <2>2. ASSUME NEW c \in 1..NCols
        PROVE  columns'[c] = [i \in 1..buffered' |-> input'[Len(input') - buffered' + i][c]]
    <3>1. /\ columns[c] \in Seq(Int) /\ Len(columns[c]) = buffered
          /\ \A i \in 1..buffered : columns[c][i] = input[Len(input) - buffered + i][c]
      BY ColumnBuffer
    <3>2. /\ columns'[c] \in Seq(Int) /\ Len(columns'[c]) = buffered + 1
          /\ columns'[c][buffered + 1] = row[c]
          /\ \A i \in 1..buffered : columns'[c][i] = columns[c][i]
      BY <1>2, <3>1, AppendProperties
    <3>3. Len(input') - buffered' = Len(input) - buffered /\ buffered' = buffered + 1
      BY <1>0, <1>1
    <3>4. ASSUME NEW i \in 1..buffered + 1
          PROVE  columns'[c][i] = input'[Len(input) - buffered + i][c]
      <4>1. CASE i = buffered + 1
        BY <1>0, <1>1, <3>2, <4>1
      <4>2. CASE i # buffered + 1
        <5>1. i \in 1..buffered /\ Len(input) - buffered + i \in 1..Len(input)
          BY <1>0, <4>2
        <5> QED
          BY <1>1, <3>1, <3>2, <5>1
      <4> QED
        BY <4>1, <4>2
    <3>5. columns'[c] = [i \in 1..buffered + 1 |-> columns'[c][i]]
      BY <1>0, <3>2
    <3> QED
      BY <3>3, <3>4, <3>5
  <2>3. total_rows' = Len(input') /\ buffered' <= Len(input')
    BY <1>0, <1>1 DEF RowsInv
  <2> QED
    BY <2>1, <2>2, <2>3 DEF RowsInv
<1>8. TilesInv'
  <2>1. ASSUME NEW g \in 1..Len(groups)
        PROVE  /\ starts[g] + groups[g].num_rows <= Len(input')
               /\ starts[g] + groups[g].num_rows =
                    IF g = Len(groups) THEN Len(input') - buffered' ELSE starts[g + 1]
    <3>1. /\ starts[g] \in Nat /\ groups[g].num_rows \in Nat
          /\ starts[g] + groups[g].num_rows <= Len(input)
          /\ starts[g] + groups[g].num_rows =
               IF g = Len(groups) THEN Len(input) - buffered ELSE starts[g + 1]
      BY GroupTypes DEF TilesInv
    <3>2. Len(input') - buffered' = Len(input) - buffered /\ Len(input) <= Len(input')
      BY <1>0, <1>1
    <3>3. starts[g] + groups[g].num_rows <= Len(input')
      BY <1>0, <1>1, <3>1
    <3> QED
      BY <3>1, <3>2, <3>3
  <2>2. groups = <<>> => buffered' = Len(input')
    BY <1>0, <1>1 DEF TilesInv
  <2> QED
    BY <2>1, <2>2 DEF TilesInv
<1>9. FullInv'
  BY RowsPerGroupAssumption DEF FullInv, GroupsAreFull
<1>10. ChunkInv'
  <2>1. ASSUME NEW g \in 1..Len(groups), NEW i \in 1..groups[g].num_rows
        PROVE  input'[starts[g] + i] = input[starts[g] + i]
    <3>1. groups[g].num_rows \in Nat /\ starts[g] \in Nat
      BY GroupTypes
    <3>2. starts[g] + i \in 1..Len(input)
      BY <1>0, <3>1 DEF TilesInv
    <3> QED
      BY <1>1, <3>2
  <2>2. \A g \in 1..Len(groups) : \A c \in 1..NCols :
          Rows(c, starts[g], groups[g].num_rows)' = Rows(c, starts[g], groups[g].num_rows)
    BY <2>1 DEF Rows
  <2>3. ASSUME NEW g \in 1..Len(groups), NEW c \in 1..NCols
        PROVE  /\ StatsHold(groups[g].columns[c], c, starts[g], groups[g].num_rows)'
               /\ (~failed \/ FooterWritten)' =>
                   ChunkHolds(groups[g].columns[c], c, starts[g], groups[g].num_rows)'
    <3>1. StatsHold(groups[g].columns[c], c, starts[g], groups[g].num_rows)
      BY DEF ChunkInv
    <3>2. StatsHold(groups[g].columns[c], c, starts[g], groups[g].num_rows)'
      BY <2>1, <3>1 DEF StatsHold
    <3>3. DataLen' = DataLen
      BY <1>5 DEF DataLen
    <3>4. ~failed => ChunkHolds(groups[g].columns[c], c, starts[g], groups[g].num_rows)
      BY DEF ChunkInv
    <3>5. ~failed => ChunkHolds(groups[g].columns[c], c, starts[g], groups[g].num_rows)'
      BY <2>2, <3>3, <3>4 DEF ChunkHolds
    <3> QED
      BY <1>5, <3>2, <3>5
  <2>4. cmetas' = <<>>
    BY DEF PcInv
  <2> QED
    BY <2>3, <2>4 DEF ChunkInv
<1> QED
  BY <1>3, <1>4, <1>6, <1>7, <1>8, <1>9, <1>10

(* The metadata of a chunk: its type, and its statistics. *)
LEMMA MetaOfColumn ==
    ASSUME WriterTypeOK, RowsInv, NEW c \in 1..NCols,
           NEW offset \in Int, NEW length \in Int,
           NEW m, m = MetaOf(Types[c], columns[c], offset, length)
    PROVE  /\ m \in ChunkMeta /\ m.offset = offset
           /\ StatsHold(m, c, Len(input) - buffered, buffered)
<1> DEFINE vals == columns[c]
           int  == Types[c] = "Int64" /\ vals # <<>>
<1>1. /\ vals \in Seq(Int) /\ Len(vals) = buffered /\ Types[c] \in DataType
      /\ \A i \in 1..buffered : vals[i] = input[Len(input) - buffered + i][c]
      /\ Types[c] # "String" => \A i \in 1..Len(vals) : vals[i] \in Int64
  BY ColumnBuffer
<1>2. /\ m.offset = offset /\ m.length = length
      /\ m.has_stats = (Types[c] \in {"Int64", "Float64"} /\ vals # <<>>)
      /\ m.min_i = IF int THEN MinOf(vals) ELSE 0
      /\ m.max_i = IF int THEN MaxOf(vals) ELSE 0
      /\ m = [offset |-> m.offset, length |-> m.length, has_stats |-> m.has_stats,
              min_i |-> m.min_i, max_i |-> m.max_i]
  BY DEF MetaOf
<1> HIDE DEF vals
<1>3. CASE int
  <2>1. /\ MinOf(vals) \in Int /\ MaxOf(vals) \in Int
        /\ \A i \in 1..Len(vals) : vals[i] \in MinOf(vals)..MaxOf(vals)
        /\ \E i \in 1..Len(vals) : vals[i] = MinOf(vals)
        /\ \E i \in 1..Len(vals) : vals[i] = MaxOf(vals)
    <3>1. \A i \in 1..Len(vals) : vals[i] \in Int64
      BY <1>1, <1>3
    <3>2. vals \in Seq(Int) /\ vals # <<>>
      BY <1>1, <1>3
    <3> QED
      BY <3>1, <3>2, StatsOfValues
  <2>2. m \in ChunkMeta
    BY <1>2, <1>3, <2>1 DEF ChunkMeta
  <2>3. m.min_i = MinOf(vals) /\ m.max_i = MaxOf(vals)
    BY <1>2, <1>3
  <2>4. \A i \in 1..buffered :
          input[Len(input) - buffered + i][c] \in m.min_i..m.max_i
    BY <1>1, <2>1, <2>3
  <2>5. PICK i \in 1..buffered : vals[i] = m.min_i
    BY <1>1, <2>1, <2>3
  <2>6. PICK j \in 1..buffered : vals[j] = m.max_i
    BY <1>1, <2>1, <2>3
  <2>7. StatsHold(m, c, Len(input) - buffered, buffered)
    BY <1>1, <2>4, <2>5, <2>6 DEF StatsHold
  <2> QED
    BY <1>2, <2>2, <2>7
<1>4. CASE ~int
  <2>1. m \in ChunkMeta
    <3>1. PICK b \in BOOLEAN :
            m = [offset |-> offset, length |-> length, has_stats |-> b,
                 min_i |-> 0, max_i |-> 0]
      BY <1>4 DEF MetaOf, vals
    <3> QED
      BY <3>1 DEF ChunkMeta
  <2>2. StatsHold(m, c, Len(input) - buffered, buffered)
    BY <1>2, <1>4 DEF StatsHold
  <2> QED
    BY <1>2, <2>1, <2>2
<1> QED
  BY <1>3, <1>4

LEMMA FlushColumnInv == WriterInv /\ FlushColumn => WriterInv'
<1> SUFFICES ASSUME WriterInv, FlushColumn PROVE WriterInv'
  OBVIOUS
<1> USE DEF WriterInv
<1>0. PICK c : c = Len(cmetas) + 1
  OBVIOUS
<1>a. PICK id \in Candidates(Types[c], buffered) : \E kept \in Kept(id, columns[c]) :
        /\ file' = Written(EncodeChunk(id, columns[c], kept))
        /\ cmetas' = Append(cmetas, MetaOf(Types[c], columns[c], Tellp(file),
                                          Tellp(file') - Tellp(file)))
  BY <1>0 DEF FlushColumn
<1>b. PICK kept \in Kept(id, columns[c]) :
        /\ file' = Written(EncodeChunk(id, columns[c], kept))
        /\ cmetas' = Append(cmetas, MetaOf(Types[c], columns[c], Tellp(file),
                                          Tellp(file') - Tellp(file)))
  BY <1>a
<1>1. PICK m, vals :
        /\ vals = columns[c]
        /\ m = MetaOf(Types[c], vals, Tellp(file), Tellp(file') - Tellp(file))
        /\ file' = Written(EncodeChunk(id, vals, kept)) /\ kept \in Kept(id, vals)
        /\ cmetas' = Append(cmetas, m)
  BY <1>b
<1>2. /\ wpc = "flush" /\ c \in 1..NCols
      /\ UNCHANGED <<durable, gen, wpc, columns, buffered, total_rows, groups, eof,
                     failed, exit, input, starts>>
  BY <1>0, TypesAssumption DEF FlushColumn, WriterTypeOK, NCols
<1>3. /\ vals \in Seq(Int) /\ Len(vals) = buffered
      /\ \A i \in 1..buffered : vals[i] = input[Len(input) - buffered + i][c]
      /\ Types[c] \in DataType
      /\ Types[c] # "String" => \A i \in 1..Len(vals) : vals[i] \in Int64
  BY <1>1, <1>2, ColumnBuffer
<1>4. file \in Seq(Cell) /\ Len(file) \in Nat /\ gen > 0 /\ Len(file) >= 1 /\ ~FooterWritten
  <2>1. gen > 0 /\ file # <<>> /\ file \in Seq(Cell)
    BY <1>2 DEF FileInv, WriterTypeOK
  <2> QED
    BY <1>2, <2>1, EmptySeq DEF PcInv
<1>5. /\ file' \in Seq(Cell) /\ Len(file') >= Len(file)
      /\ \A i \in 1..Len(file) : file'[i] = file[i]
      /\ \A i \in Len(file)+1..Len(file') : file'[i].k \in {"codec", "num"}
      /\ ~failed => /\ Decodable(file', Len(file'), Len(file), Types[c], buffered)
                    /\ Keeps(Types[c], vals) => DecodeChunk(file', Len(file), buffered) = vals
  <2>1. CASE failed
    BY <1>1, <1>4, <2>1 DEF Written
  <2>2. CASE ~failed
    <3>1. file' = file \o EncodeChunk(id, vals, kept)
      BY <1>1, <2>2 DEF Written
    <3>2. /\ vals \in Seq(Int) /\ Types[c] \in DataType /\ file \in Seq(Cell)
          /\ Types[c] # "String" => \A i \in 1..Len(vals) : vals[i] \in Int64
          /\ id \in Candidates(Types[c], Len(vals))
      BY <1>3, <1>4
    <3>3. /\ file' \in Seq(Cell) /\ Len(file') > Len(file)
          /\ \A i \in 1..Len(file) : file'[i] = file[i]
          /\ \A i \in Len(file)+1..Len(file') : file'[i].k \in {"codec", "num"}
          /\ Decodable(file', Len(file'), Len(file), Types[c], Len(vals))
          /\ Keeps(Types[c], vals) => DecodeChunk(file', Len(file), Len(vals)) = vals
      <4>1. PICK g : g = file'
        OBVIOUS
      <4>2. PICK t \in DataType : t = Types[c]
        BY <3>2
      <4>3. PICK f \in Seq(Cell) : f = file
        BY <3>2
      <4>4. /\ vals \in Seq(Int) /\ id \in Candidates(t, Len(vals)) /\ kept \in Kept(id, vals)
            /\ t # "String" => \A i \in 1..Len(vals) : vals[i] \in Int64
            /\ g = f \o EncodeChunk(id, vals, kept)
        BY <1>1, <3>1, <3>2, <4>1, <4>2, <4>3
      <4>5. /\ g \in Seq(Cell) /\ Len(g) > Len(f)
            /\ \A i \in 1..Len(f) : g[i] = f[i]
            /\ \A i \in Len(f)+1..Len(g) : g[i].k \in {"codec", "num"}
            /\ Decodable(g, Len(g), Len(f), t, Len(vals))
            /\ DecodeChunk(g, Len(f), Len(vals)) = kept
        <5>1. PICK v \in Seq(Int) : v = vals
          BY <4>4
        <5>2. PICK i \in Candidates(t, Len(v)) : i = id
          BY <4>4, <5>1
        <5>3. PICK k \in Kept(i, v) : k = kept
          BY <4>4, <5>1, <5>2
        <5>4. t # "String" => \A j \in 1..Len(v) : v[j] \in Int64
          BY <4>4, <5>1
        <5>5. ChunkAppended(f, f \o EncodeChunk(i, v, k), t, k, Len(v))
          BY <5>4, ChunkRoundTrip
        <5> QED
          BY <4>4, <5>1, <5>2, <5>3, <5>5 DEF ChunkAppended
      <4>6. Keeps(t, vals) => kept = vals
        BY <4>4, KeptValues
      <4> QED
        BY <4>1, <4>2, <4>3, <4>5, <4>6
    <3>4. Len(file') \in Nat
      BY <3>3
    <3> QED
      BY <1>3, <1>4, <3>3, <3>4
  <2> QED
    BY <2>1, <2>2
<1>6. ~FooterWritten' /\ Len(file') \in Nat
  BY <1>4, <1>5 DEF FooterWritten
<1>7. /\ m \in ChunkMeta /\ (~failed => m.offset = Len(file))
      /\ StatsHold(m, c, Len(input) - buffered, buffered)
  <2>1. Tellp(file) \in Int /\ Tellp(file') - Tellp(file) \in Int
    BY <1>4, <1>6 DEF Tellp
  <2>2. m = MetaOf(Types[c], columns[c], Tellp(file), Tellp(file') - Tellp(file))
    BY <1>1
  <2>3. /\ m \in ChunkMeta /\ m.offset = Tellp(file)
        /\ StatsHold(m, c, Len(input) - buffered, buffered)
    BY <1>2, <2>1, <2>2, MetaOfColumn
  <2> QED
    BY <2>3 DEF Tellp
<1>8. /\ cmetas' \in Seq(ChunkMeta) /\ Len(cmetas') = c
      /\ cmetas'[c] = m /\ \A d \in 1..c-1 : cmetas'[d] = cmetas[d]
      /\ Len(cmetas) = c - 1 /\ c \in 1..NCols
  BY <1>0, <1>1, <1>2, <1>7, AppendProperties DEF WriterTypeOK
<1>9. WriterTypeOK'
  BY <1>2, <1>4, <1>5, <1>6, <1>8 DEF WriterTypeOK
<1>10. FileInv'
  BY <1>2, <1>4, <1>5, <1>6 DEF FileInv, DataLen
<1>11. PcInv'
  BY <1>2, <1>4, <1>6, <1>8, TypesAssumption DEF PcInv, NCols
<1>12. RowsInv' /\ TilesInv'
  BY <1>2 DEF RowsInv, TilesInv
<1>13. FullInv'
  BY <1>2 DEF FullInv, GroupsAreFull
<1>14. ASSUME NEW x, NEW d, NEW start, NEW n \in Nat, ~failed, ChunkHolds(x, d, start, n)
       PROVE  ChunkHolds(x, d, start, n)'
  <2>1. Decodable(file, Len(file), x.offset, Types[d], n)
    BY <1>4, <1>14 DEF ChunkHolds, DataLen
  <2>2. /\ Decodable(file', Len(file'), x.offset, Types[d], n)
        /\ DecodeChunk(file', x.offset, n) = DecodeChunk(file, x.offset, n)
    BY <1>4, <1>5, <1>6, <2>1, ChunkStable
  <2> QED
    BY <1>2, <1>6, <1>14, <2>2 DEF ChunkHolds, DataLen, Rows
<1>15. ChunkInv'
  <2>1. ASSUME NEW g \in 1..Len(groups), NEW d \in 1..NCols
        PROVE  /\ StatsHold(groups[g].columns[d], d, starts[g], groups[g].num_rows)'
               /\ ~failed' => ChunkHolds(groups[g].columns[d], d, starts[g], groups[g].num_rows)'
    <3>1. /\ StatsHold(groups[g].columns[d], d, starts[g], groups[g].num_rows)
          /\ ~failed => ChunkHolds(groups[g].columns[d], d, starts[g], groups[g].num_rows)
      BY DEF ChunkInv
    <3>2. StatsHold(groups[g].columns[d], d, starts[g], groups[g].num_rows)'
      BY <1>2, <3>1 DEF StatsHold
    <3> QED
      BY <1>2, <1>14, <3>1, <3>2, GroupTypes
  <2>2. ASSUME NEW d \in 1..c
        PROVE  /\ StatsHold(cmetas[d], d, Len(input) - buffered, buffered)'
               /\ ~failed' => ChunkHolds(cmetas[d], d, Len(input) - buffered, buffered)'
    <3>1. CASE d = c
      <4>1. ~failed => ChunkHolds(m, c, Len(input) - buffered, buffered)'
        <5>1. Rows(c, Len(input) - buffered, buffered)' = vals
          BY <1>2, <1>3 DEF Rows
        <5> QED
          BY <1>2, <1>5, <1>6, <1>7, <5>1 DEF ChunkHolds, DataLen
      <4>2. StatsHold(m, c, Len(input) - buffered, buffered)'
        BY <1>2, <1>7 DEF StatsHold
      <4> QED
        BY <1>2, <1>8, <3>1, <4>1, <4>2
    <3>2. CASE d # c
      <4>1. d \in 1..Len(cmetas) /\ cmetas'[d] = cmetas[d]
        BY <1>8, <3>2
      <4>2. /\ StatsHold(cmetas[d], d, Len(input) - buffered, buffered)
            /\ ~failed => ChunkHolds(cmetas[d], d, Len(input) - buffered, buffered)
        BY <1>2, <4>1 DEF ChunkInv
      <4>3. StatsHold(cmetas[d], d, Len(input) - buffered, buffered)'
        BY <1>2, <4>1, <4>2 DEF StatsHold
      <4>4. buffered \in Nat
        BY DEF WriterTypeOK
      <4> QED
        BY <1>2, <1>14, <4>1, <4>2, <4>3, <4>4
    <3> QED
      BY <3>1, <3>2
  <2> QED
    BY <1>2, <1>6, <1>8, <2>1, <2>2 DEF ChunkInv
<1> QED
  BY <1>9, <1>10, <1>11, <1>12, <1>13, <1>15

LEMMA FinishGroupInv == WriterInv /\ FinishGroup => WriterInv'
<1> SUFFICES ASSUME WriterInv, FinishGroup PROVE WriterInv'
  OBVIOUS
<1> USE DEF WriterInv
<1>1. /\ wpc = "flush" /\ Len(cmetas) = NCols
      /\ cmetas' = <<>> /\ columns' = EmptyColumns /\ buffered' = 0
      /\ wpc' = IF eof THEN "footer" ELSE "rows"
      /\ UNCHANGED <<file, durable, gen, total_rows, eof, failed, exit, input>>
  BY DEF FinishGroup, diskVars
<1>2. PICK grp, first : /\ grp = [num_rows |-> buffered, columns |-> cmetas]
                        /\ first = Len(input) - buffered
                        /\ groups' = Append(groups, grp)
                        /\ starts' = Append(starts, first)
  BY DEF FinishGroup
<1>3. /\ buffered \in Nat /\ Len(input) \in Nat /\ buffered <= Len(input)
      /\ buffered <= RowsPerGroup /\ RowsPerGroup \in Nat \ {0}
      /\ (IF eof THEN buffered > 0 \/ total_rows = 0 ELSE buffered = RowsPerGroup)
      /\ total_rows = Len(input) /\ Len(groups) \in Nat /\ Len(starts) = Len(groups)
      /\ NCols \in Nat
  BY <1>1, RowsPerGroupAssumption, TypesAssumption
  DEF WriterTypeOK, RowsInv, PcInv, TilesInv, NCols
<1>4. /\ grp \in RowGroupMeta /\ grp.num_rows = buffered /\ grp.columns = cmetas
      /\ first \in Nat
  BY <1>2, <1>3 DEF WriterTypeOK, RowGroupMeta
<1> DEFINE last == Len(groups) + 1
<1>5. /\ groups' \in Seq(RowGroupMeta) /\ Len(groups') = last /\ groups'[last] = grp
      /\ \A g \in 1..Len(groups) : groups'[g] = groups[g]
  BY <1>2, <1>4, AppendProperties DEF WriterTypeOK
<1>6. /\ starts' \in Seq(Nat) /\ Len(starts') = last /\ starts'[last] = first
      /\ \A g \in 1..Len(groups) : starts'[g] = starts[g]
  BY <1>2, <1>3, <1>4, AppendProperties DEF WriterTypeOK
<1>7. groups' # <<>> /\ \A g \in 1..last : g \in 1..Len(groups) \/ g = last
  BY <1>3, <1>5, EmptySeq
<1>8. WriterTypeOK'
  <2>1. columns' \in [1..NCols -> Seq(Int)] /\ cmetas' \in Seq(ChunkMeta)
    BY <1>1, EmptySeq DEF EmptyColumns
  <2> QED
    BY <1>1, <1>5, <1>6, <2>1 DEF WriterTypeOK, WriterPc
<1>9. ~FooterWritten /\ ~FooterWritten' /\ DataLen' = DataLen
  BY <1>1 DEF PcInv, FooterWritten, DataLen
<1>10. FileInv'
  BY <1>1, <1>9 DEF FileInv
<1>11. PcInv'
  BY <1>1, <1>3, <1>7, <1>9 DEF PcInv
<1>12. RowsInv'
  BY <1>1, <1>3 DEF RowsInv, EmptyColumns
<1>13. TilesInv'
  <2>1. ASSUME NEW g \in 1..Len(groups)
        PROVE  /\ Len(groups'[g].columns) = NCols
               /\ starts'[g] + groups'[g].num_rows <= Len(input)
               /\ starts'[g] + groups'[g].num_rows = starts'[g + 1]
    <3>1. /\ groups[g].num_rows \in Nat /\ starts[g] \in Nat
          /\ Len(groups[g].columns) = NCols
          /\ starts[g] + groups[g].num_rows <= Len(input)
          /\ starts[g] + groups[g].num_rows =
               IF g = Len(groups) THEN Len(input) - buffered ELSE starts[g + 1]
      BY GroupTypes DEF TilesInv
    <3>2. starts'[g + 1] = IF g = Len(groups) THEN Len(input) - buffered ELSE starts[g + 1]
      <4>1. CASE g = Len(groups)
        BY <1>2, <1>6, <4>1
      <4>2. CASE g # Len(groups)
        <5>1. g + 1 \in 1..Len(groups)
          BY <1>3, <4>2
        <5> QED
          BY <1>6, <4>2, <5>1
      <4> QED
        BY <4>1, <4>2
    <3> QED
      BY <1>5, <1>6, <3>1, <3>2
  <2>2. starts'[1] = 0
    <3>1. CASE groups = <<>>
      <4>1. last = 1 /\ first = 0
        BY <1>2, <1>3, <3>1 DEF TilesInv
      <4> QED
        BY <1>6, <4>1
    <3>2. CASE groups # <<>>
      <4>1. starts[1] = 0 /\ 1 \in 1..Len(groups)
        BY <1>3, <3>2, EmptySeq DEF TilesInv, WriterTypeOK
      <4> QED
        BY <1>6, <4>1
    <3> QED
      BY <3>1, <3>2
  <2>3. /\ Len(groups'[last].columns) = NCols
        /\ starts'[last] + groups'[last].num_rows = Len(input)
    BY <1>1, <1>2, <1>3, <1>4, <1>5, <1>6
  <2>4. \A g \in 1..last : g = last <=> g \notin 1..Len(groups)
    BY <1>3
  <2> QED
    BY <1>1, <1>3, <1>5, <1>6, <1>7, <2>1, <2>2, <2>3, <2>4 DEF TilesInv
<1>14. FullInv'
  <2>1. ASSUME NEW g \in 1..Len(groups) PROVE groups'[g].num_rows = RowsPerGroup
    BY <1>1, <1>5 DEF FullInv
  <2>2. groups'[last].num_rows = buffered
    BY <1>4, <1>5
  <2>3. GroupsAreFull'
    BY <1>1, <1>3, <1>5, <1>7, <2>1, <2>2 DEF GroupsAreFull
  <2>4. wpc' \in {"open", "rows", "flush"} => ~eof
    BY <1>1
  <2> QED
    BY <1>3, <1>5, <1>7, <2>1, <2>2, <2>3, <2>4 DEF FullInv
<1>15. ChunkInv'
  <2>1. ASSUME NEW g \in 1..last, NEW c \in 1..NCols
        PROVE  /\ StatsHold(groups[g].columns[c], c, starts[g], groups[g].num_rows)'
               /\ ~failed' =>
                   ChunkHolds(groups[g].columns[c], c, starts[g], groups[g].num_rows)'
    <3>1. CASE g \in 1..Len(groups)
      <4>1. /\ StatsHold(groups[g].columns[c], c, starts[g], groups[g].num_rows)
            /\ ~failed =>
                ChunkHolds(groups[g].columns[c], c, starts[g], groups[g].num_rows)
        BY <3>1 DEF ChunkInv
      <4>2. groups'[g] = groups[g] /\ starts'[g] = starts[g]
        BY <1>5, <1>6, <3>1
      <4>3. StatsHold(groups[g].columns[c], c, starts[g], groups[g].num_rows)'
        BY <1>1, <4>1, <4>2 DEF StatsHold
      <4> QED
        BY <1>1, <1>9, <4>1, <4>2, <4>3 DEF ChunkHolds, Rows
    <3>2. CASE g = last
      <4>1. /\ StatsHold(cmetas[c], c, first, buffered)
            /\ ~failed => ChunkHolds(cmetas[c], c, first, buffered)
        BY <1>1, <1>2 DEF ChunkInv
      <4>2. /\ groups'[g].columns = cmetas /\ groups'[g].num_rows = buffered
            /\ starts'[g] = first
        BY <1>4, <1>5, <1>6, <3>2
      <4>3. StatsHold(groups[g].columns[c], c, starts[g], groups[g].num_rows)'
        BY <1>1, <4>1, <4>2 DEF StatsHold
      <4> QED
        BY <1>1, <1>9, <4>1, <4>2, <4>3 DEF ChunkHolds, Rows
    <3> QED
      BY <1>7, <3>1, <3>2
  <2>2. wpc' # "flush"
    BY <1>1
  <2> QED
    BY <1>5, <1>9, <2>1, <2>2 DEF ChunkInv
<1> QED
  BY <1>8, <1>10, <1>11, <1>12, <1>13, <1>14, <1>15

LEMMA WriteFooterInv == WriterInv /\ WriteFooter => WriterInv'
<1> SUFFICES ASSUME WriterInv, WriteFooter PROVE WriterInv'
  OBVIOUS
<1> USE DEF WriterInv
<1>1. /\ wpc = "footer" /\ wpc' = "close" /\ file' = Written(Footer(groups))
      /\ UNCHANGED <<durable, gen, columns, buffered, total_rows, groups, cmetas,
                     eof, failed, exit, input, starts>>
  BY DEF WriteFooter
<1>2. /\ file \in Seq(Cell) /\ Len(file) \in Nat /\ Len(file) >= 1
      /\ gen > 0 /\ groups \in Seq(RowGroupMeta) /\ Len(groups) \in Nat
      /\ ~FooterWritten /\ DataLen = Len(file)
  <2>1. ~FooterWritten /\ gen > 0 /\ file # <<>> /\ file \in Seq(Cell)
    BY <1>1 DEF PcInv, FileInv, WriterTypeOK
  <2> QED
    BY <2>1, EmptySeq DEF WriterTypeOK, DataLen
<1>3. RowsInv' /\ TilesInv'
  BY <1>1 DEF RowsInv, TilesInv
<1>4. FullInv'
  BY <1>1 DEF FullInv, GroupsAreFull
<1>5. CASE failed
  <2>1. file' = file
    BY <1>1, <1>5 DEF Written
  <2>2. ~FooterWritten' /\ DataLen' = DataLen
    BY <1>1, <1>2, <2>1 DEF FooterWritten, DataLen
  <2>3. WriterTypeOK'
    BY <1>1, <2>1 DEF WriterTypeOK, WriterPc
  <2>4. FileInv' /\ PcInv'
    BY <1>1, <1>2, <1>5, <2>1, <2>2 DEF FileInv, PcInv
  <2>5. ChunkInv'
    BY <1>1, <1>5, <2>1, <2>2 DEF ChunkInv, StatsHold
  <2> QED
    BY <1>3, <1>4, <2>3, <2>4, <2>5
<1>6. CASE ~failed
  <2>1. PICK ft : ft = Footer(groups) /\ file' = file \o ft
    BY <1>1, <1>6 DEF Written
  <2>2. /\ ft \in Seq(Cell) /\ Len(ft) = Len(groups) + 4
        /\ ft[1] = SchemaCell /\ ft[2] = NumCell(Len(groups))
        /\ \A g \in 1..Len(groups) : ft[2 + g] = GroupCell(groups[g])
        /\ ft[Len(groups) + 3] = LenCell(Len(groups) + 2)
        /\ ft[Len(groups) + 4] = MagicCell
    BY <1>2, <2>1, FooterLayout
  <2>3. /\ file' \in Seq(Cell) /\ Len(file') = Len(file) + Len(groups) + 4
        /\ \A i \in 1..Len(file) : file'[i] = file[i]
        /\ \A i \in 1..Len(groups) + 4 : file'[Len(file) + i] = ft[i]
    <3>1. file \in Seq(Cell) /\ ft \in Seq(Cell) /\ file' = file \o ft
      BY <1>2, <2>1, <2>2
    <3>2. /\ file' \in Seq(Cell) /\ Len(file') = Len(file) + Len(ft)
          /\ \A i \in 1..Len(file) : file'[i] = file[i]
          /\ \A i \in 1..Len(ft) : file'[Len(file) + i] = ft[i]
      BY <3>1, AppendedCells
    <3> QED
      BY <1>2, <2>2, <3>2
  <2>4. FooterWritten'
    <3>1. file'[Len(file')] = MagicCell
      <4>1. Len(file') = Len(file) + (Len(groups) + 4)
        BY <1>2, <2>3
      <4> QED
        BY <1>2, <2>2, <2>3, <4>1
    <3> QED
      BY <1>2, <2>3, <3>1 DEF FooterWritten, MagicCell
  <2>5. DataLen' = Len(file)
    BY <1>1, <1>2, <2>3, <2>4 DEF DataLen
  <2>6. WriterTypeOK'
    BY <1>1, <1>2, <2>3 DEF WriterTypeOK, WriterPc
  <2>7. FileInv'
    <3>1. \A i \in 2..Len(file) : file'[i].k \in {"codec", "num"}
      <4>1. \A i \in 2..Len(file) : i \in 1..Len(file) /\ file'[i] = file[i]
        BY <1>2, <2>3
      <4> QED
        BY <1>2, <4>1 DEF FileInv
    <3>2. file'[1].k = "magic" /\ file' # <<>>
      BY <1>2, <2>3 DEF FileInv
    <3>3. file'[Len(file) + 1] = SchemaCell /\ file'[Len(file) + 2] = NumCell(Len(groups))
      BY <1>2, <2>2, <2>3
    <3>4. ASSUME NEW g \in 1..Len(groups)
          PROVE  file'[Len(file) + 2 + g] = GroupCell(groups[g])
      <4>1. 2 + g \in 1..Len(groups) + 4 /\ Len(file) + (2 + g) = Len(file) + 2 + g
        BY <1>2
      <4>2. file'[Len(file) + (2 + g)] = ft[2 + g]
        BY <2>3, <4>1
      <4> QED
        BY <2>2, <4>1, <4>2
    <3>5. file'[Len(file') - 1] = LenCell(Len(groups) + 2)
      <4>1. /\ Len(file') - 1 = Len(file) + (Len(groups) + 3)
            /\ Len(groups) + 3 \in 1..Len(groups) + 4
        BY <1>2, <2>3
      <4> QED
        BY <2>2, <2>3, <4>1
    <3> QED
      BY <1>1, <1>2, <2>4, <2>5, <3>1, <3>2, <3>3, <3>4, <3>5 DEF FileInv
  <2>8. PcInv'
    BY <1>1, <2>4 DEF PcInv
  <2>9. ChunkInv'
    <3>1. ASSUME NEW g \in 1..Len(groups), NEW c \in 1..NCols
          PROVE  /\ StatsHold(groups[g].columns[c], c, starts[g], groups[g].num_rows)'
                 /\ ChunkHolds(groups[g].columns[c], c, starts[g], groups[g].num_rows)'
      <4>1. PICK x, n : x = groups[g].columns[c] /\ n = groups[g].num_rows
        OBVIOUS
      <4>2. /\ StatsHold(x, c, starts[g], n)
            /\ Decodable(file, Len(file), x.offset, Types[c], n)
            /\ Keeps(Types[c], Rows(c, starts[g], n)) =>
                 DecodeChunk(file, x.offset, n) = Rows(c, starts[g], n)
            /\ n \in Nat
        BY <1>2, <1>6, <4>1, GroupTypes DEF ChunkInv, ChunkHolds
      <4>3. /\ Decodable(file', Len(file), x.offset, Types[c], n)
            /\ DecodeChunk(file', x.offset, n) = DecodeChunk(file, x.offset, n)
        <5>1. /\ Len(file) \in Int /\ Len(file) <= Len(file) /\ n \in Nat
              /\ \A i \in 1..Len(file) : file'[i] = file[i]
              /\ Decodable(file, Len(file), x.offset, Types[c], n)
          BY <1>2, <2>3, <4>2
        <5> QED
          BY <5>1, ChunkStable
      <4>4. Rows(c, starts[g], n)' = Rows(c, starts[g], n)
        BY <1>1 DEF Rows
      <4>5. StatsHold(x, c, starts[g], n)'
        BY <1>1, <4>2 DEF StatsHold
      <4> QED
        BY <1>1, <2>5, <4>1, <4>2, <4>3, <4>4, <4>5 DEF ChunkHolds
    <3> QED
      BY <1>1, <3>1 DEF ChunkInv
  <2> QED
    BY <1>3, <1>4, <2>6, <2>7, <2>8, <2>9
<1> QED
  BY <1>5, <1>6

LEMMA CloseInv == WriterInv /\ Close => WriterInv'
<1> SUFFICES ASSUME WriterInv, Close PROVE WriterInv'
  OBVIOUS
<1> USE DEF WriterInv, Close
<1>1. WriterTypeOK'
  <2>1. durable' \in 0..Len(file')
    BY DEF WriterTypeOK
  <2> QED
    BY <2>1 DEF WriterTypeOK, WriterPc
<1>2. FileInv'
  BY DEF FileInv, FooterWritten, DataLen
<1>3. PcInv'
  BY DEF PcInv, FooterWritten, Sealed
<1>4. RowsInv' /\ TilesInv'
  BY DEF RowsInv, TilesInv
<1>5. FullInv'
  BY DEF FullInv, GroupsAreFull
<1>6. ChunkInv'
  BY DEF ChunkInv, FooterWritten, DataLen, ChunkHolds, StatsHold, Rows
<1> QED
  BY <1>1, <1>2, <1>3, <1>4, <1>5, <1>6

(* What happens around the conversion: write-back, a full disk, a kill. *)
LEMMA EnvironmentInv == WriterInv /\ (WriteBack \/ DiskFull \/ Kill) => WriterInv'
<1> SUFFICES ASSUME WriterInv, WriteBack \/ DiskFull \/ Kill PROVE WriterInv'
  OBVIOUS
<1> USE DEF WriterInv, WriteBack, DiskFull, Kill, diskVars, writerVars
<1>1. WriterTypeOK'
  <2>1. durable' \in 0..Len(file')
    BY DEF WriterTypeOK
  <2> QED
    BY <2>1 DEF WriterTypeOK, WriterPc
<1>2. FileInv'
  BY DEF FileInv, FooterWritten, DataLen
<1>3. PcInv'
  BY DEF PcInv, FooterWritten
<1>4. RowsInv' /\ TilesInv'
  BY DEF RowsInv, TilesInv
<1>5. FullInv'
  BY DEF FullInv, GroupsAreFull
<1>6. ChunkInv'
  <2> USE DEF ChunkInv, FooterWritten, DataLen, ChunkHolds, StatsHold, Rows
  <2>1. CASE WriteBack
    BY <2>1
  <2>2. CASE DiskFull
    <3>1. /\ FooterWritten' = FooterWritten /\ DataLen' = DataLen /\ failed'
          /\ UNCHANGED <<file, wpc, groups, starts, input, cmetas, buffered>>
      BY <2>2
    <3>2. ASSUME NEW x, NEW c, NEW start, NEW n
          PROVE  /\ StatsHold(x, c, start, n)' = StatsHold(x, c, start, n)
                 /\ ChunkHolds(x, c, start, n)' = ChunkHolds(x, c, start, n)
      BY <3>1
    <3> USE DEF ChunkInv
    <3> HIDE DEF FooterWritten, DataLen, ChunkHolds, StatsHold, Rows, DiskFull, WriteBack, Kill
    <3> QED
      BY <3>1, <3>2
  <2>3. CASE Kill
    BY <2>3
  <2> QED
    BY <2>1, <2>2, <2>3
<1> QED
  BY <1>1, <1>2, <1>3, <1>4, <1>5, <1>6

-----------------------------------------------------------------------------
(* The steps of a query. *)

(* A reader that has not read the footer of the current file promises       *)
(* nothing.                                                                 *)
LEMMA NotCurrent ==
    ASSUME ReaderTypeOK', rgen' <= gen', ~Current',
           rpc' = "checked" => gen' > 0,
           rpc' \in {"closed", "checked"} =>
             rtypes' = <<>> /\ rgroups' = <<>> /\ ~rfail' /\ got' = NothingRead
    PROVE  ReaderInv'
BY DEF ReaderInv, ReadsReturnTheCsv

(* A truncation makes every open reader stale. *)
LEMMA TruncationInv ==
    ASSUME IInv, StartConvert, UNCHANGED readerVars
    PROVE  ReaderTypeOK' /\ ReaderInv'
<1> USE DEF readerVars
<1>1. ReaderTypeOK'
  BY DEF IInv, TypeOK, ReaderTypeOK
<1>2. gen \in Nat /\ gen' = gen + 1 /\ rgen \in Nat /\ rgen <= gen
  BY DEF IInv, TypeOK, WriterTypeOK, ReaderTypeOK, ReaderInv, StartConvert
<1>3. ~Current' /\ rgen' <= gen'
  BY <1>2 DEF Current
<1>4. ReaderInv'
  BY <1>1, <1>2, <1>3, NotCurrent DEF IInv, ReaderInv
<1> QED
  BY <1>1, <1>4

(* What the reader relies on, in each step of the conversion but the        *)
(* truncation: nothing that is written down changes any more once the       *)
(* footer is.                                                               *)
LEMMA WriterKeepsFooter ==
    ASSUME IInv, WriterNext, ~StartConvert
    PROVE  /\ gen' = gen /\ durable' \in Nat /\ durable' >= durable
           /\ FooterWritten => UNCHANGED <<file, groups, starts, input>>
<1>1. /\ durable \in Nat /\ Len(file) \in Nat /\ durable <= Len(file)
      /\ FooterWritten => wpc \in {"close", "idle"}
  BY DEF IInv, TypeOK, WriterTypeOK, PcInv
<1>2. CASE RejectSchema \/ OpenCsv \/ EndOfCsv \/ DiskFull \/ Kill
  BY <1>1, <1>2 DEF RejectSchema, OpenCsv, EndOfCsv, DiskFull, Kill, diskVars
<1>3. CASE MissingCsv \/ BadRow \/ Close
  BY <1>1, <1>3 DEF MissingCsv, BadRow, Throw, Close
<1>4. CASE \E row \in CsvRows : AppendRow(row)
  BY <1>1, <1>4 DEF AppendRow, diskVars
<1>5. CASE FlushColumn \/ FinishGroup \/ WriteFooter
  BY <1>1, <1>5 DEF FlushColumn, FinishGroup, WriteFooter, diskVars
<1>6. CASE WriteBack
  BY <1>1, <1>6 DEF WriteBack, writerVars
<1> QED
  BY <1>2, <1>3, <1>4, <1>5, <1>6 DEF WriterNext, ConvertStep

LEMMA WriterNextInv == IInv /\ WriterNext /\ UNCHANGED readerVars => IInv'
<1> SUFFICES ASSUME IInv, WriterNext, UNCHANGED readerVars PROVE IInv'
  OBVIOUS
<1>1. WriterInv /\ TypeOK /\ ReaderInv
  BY DEF IInv, TypeOK, WriterInv
<1>2. WriterInv'
  <2>1. CASE MissingCsv \/ BadRow
    BY <1>1, <2>1, ThrowInv DEF MissingCsv, BadRow
  <2>2. CASE \E row \in CsvRows : AppendRow(row)
    BY <1>1, <2>2, AppendRowInv
  <2>3. CASE RejectSchema \/ StartConvert
    BY <1>1, <2>3, RejectSchemaInv, StartConvertInv
  <2>4. CASE OpenCsv \/ EndOfCsv
    BY <1>1, <2>4, OpenCsvInv, EndOfCsvInv
  <2>5. CASE FlushColumn \/ FinishGroup
    BY <1>1, <2>5, FlushColumnInv, FinishGroupInv
  <2>6. CASE WriteFooter \/ Close
    BY <1>1, <2>6, WriteFooterInv, CloseInv
  <2>7. CASE WriteBack \/ DiskFull \/ Kill
    BY <1>1, <2>7, EnvironmentInv
  <2> QED
    BY <2>1, <2>2, <2>3, <2>4, <2>5, <2>6, <2>7 DEF WriterNext, ConvertStep
<1>3. ReaderTypeOK' /\ ReaderInv'
  <2>1. CASE StartConvert
    BY <2>1, TruncationInv
  <2>2. CASE ~StartConvert
    BY <1>1, <2>2, WriterKeepsFooter, ReaderFrame
  <2> QED
    BY <2>1, <2>2
<1> QED
  BY <1>2, <1>3 DEF IInv, TypeOK, WriterInv

-----------------------------------------------------------------------------
(* The steps of a query. *)

LEMMA OpenHeadInv ==
    ASSUME IInv, OpenHead \/ RejectHead, UNCHANGED diskVars
    PROVE  ReaderTypeOK' /\ ReaderInv'
<1> USE DEF OpenHead, RejectHead, diskVars
<1>1. rpc = "closed" /\ rpc' \in {"checked", "rejected"} /\ (rpc' = "checked" => gen > 0)
      /\ UNCHANGED <<rtypes, rgroups, rfail, rgen, got>>
  OBVIOUS
<1>2. rsize' \in Nat
  BY DEF IInv, TypeOK, WriterTypeOK, ReaderTypeOK
<1>3. ReaderTypeOK'
  BY <1>1, <1>2 DEF IInv, TypeOK, ReaderTypeOK
<1>4. ~Current'
  BY <1>1 DEF Current
<1>5. ReaderInv'
  BY <1>1, <1>3, <1>4, NotCurrent DEF IInv, ReaderInv
<1> QED
  BY <1>3, <1>5

LEMMA OpenWithoutFooterInv ==
    ASSUME IInv, OpenWithoutFooter, UNCHANGED diskVars
    PROVE  ReaderTypeOK' /\ ReaderInv'
<1> USE DEF OpenWithoutFooter, diskVars
<1>1. got = NothingRead /\ gen \in Nat
  BY DEF IInv, TypeOK, WriterTypeOK, ReaderInv
<1>2. ReaderTypeOK'
  <2>1. rtypes' \in Seq(DataType) /\ rgroups' \in Seq(RowGroupMeta)
    BY EmptySeq
  <2> QED
    BY <1>1, <2>1 DEF IInv, TypeOK, ReaderTypeOK
<1>3. ReaderInv'
  BY <1>1, <1>2 DEF ReaderInv, ReadsReturnTheCsv, NothingRead
<1> QED
  BY <1>2, <1>3

(* The footer length of a finished store is its last cell but one, and no   *)
(* other cell is one: the footer a reader finds is that of the file.        *)
LEMMA FooterFound ==
    ASSUME WriterInv, gen > 0, NEW i \in 1..Len(file), file[i].k = "len"
    PROVE  /\ FooterWritten /\ i = Len(file) - 1 /\ file[i].n = Len(groups) + 2
           /\ i - 1 - file[i].n = DataLen
           /\ Len(groups) \in Nat
<1>1. /\ file \in Seq(Cell) /\ Len(file) \in Nat /\ groups \in Seq(RowGroupMeta)
      /\ Len(groups) \in Nat
  BY DEF WriterInv, WriterTypeOK
<1>2. /\ file[1].k = "magic" /\ DataLen >= 1
      /\ \A j \in 2..DataLen : file[j].k \in {"codec", "num"}
  BY DEF WriterInv, FileInv
<1>3. i # 1 /\ i > DataLen
  <2>1. DataLen \in Int
    BY <1>1 DEF DataLen
  <2>2. i # 1
    BY <1>2
  <2>3. i \notin 2..DataLen
    BY <1>2
  <2> QED
    BY <1>1, <2>1, <2>2, <2>3
<1>4. FooterWritten
  BY <1>1, <1>3 DEF DataLen
<1>5. DataLen = Len(file) - Len(groups) - 4
  BY <1>4 DEF DataLen
<1>6. /\ file[DataLen + 1] = SchemaCell
      /\ file[DataLen + 2] = NumCell(Len(groups))
      /\ \A g \in 1..Len(groups) : file[DataLen + 2 + g] = GroupCell(groups[g])
      /\ file[Len(file) - 1] = LenCell(Len(groups) + 2)
      /\ file[Len(file)].k = "magic"
  BY <1>4 DEF WriterInv, FileInv, FooterWritten
<1>7. i = Len(file) - 1
  <2>1. i # DataLen + 1
    BY <1>6 DEF SchemaCell
  <2>2. i # DataLen + 2
    BY <1>6 DEF NumCell
  <2>3. i \notin DataLen + 3..DataLen + 2 + Len(groups)
    <3>1. SUFFICES ASSUME i \in DataLen + 3..DataLen + 2 + Len(groups) PROVE FALSE
      OBVIOUS
    <3>2. i - DataLen - 2 \in 1..Len(groups) /\ i = DataLen + 2 + (i - DataLen - 2)
      BY <1>1, <1>5, <3>1
    <3>3. PICK g \in 1..Len(groups) : i = DataLen + 2 + g
      BY <3>2
    <3>4. file[i] = GroupCell(groups[g])
      BY <1>6, <3>3
    <3> QED
      BY <3>4 DEF GroupCell
  <2>4. i # Len(file)
    BY <1>6
  <2> QED
    BY <1>1, <1>3, <1>5, <2>1, <2>2, <2>3, <2>4
<1>8. file[i].n = Len(groups) + 2
  BY <1>6, <1>7 DEF LenCell
<1> QED
  BY <1>1, <1>4, <1>5, <1>7, <1>8

LEMMA OpenFooterInv ==
    ASSUME IInv, OpenFooter, UNCHANGED diskVars, UNCHANGED writerVars
    PROVE  ReaderTypeOK' /\ ReaderInv'
<1>1. /\ rpc = "checked" /\ gen > 0 /\ gen \in Nat /\ got = NothingRead
      /\ ~rfail /\ rsize \in Nat /\ durable \in 0..Len(file) /\ Len(file) \in Nat
      /\ ~NoFooter /\ file[rsize - 1].k = "len"
      /\ WriterInv
  BY DEF IInv, TypeOK, WriterTypeOK, ReaderTypeOK, ReaderInv, OpenFooter, WriterInv
<1>2. rsize - 1 \in 1..Len(file) /\ rsize - 1 <= durable
  BY <1>1 DEF NoFooter
<1>3. PICK i \in 1..Len(file) : i = rsize - 1
  BY <1>2
<1>4. /\ FooterWritten /\ i = Len(file) - 1 /\ file[i].n = Len(groups) + 2
      /\ i - 1 - file[i].n = DataLen
      /\ Len(groups) \in Nat
  <2>1. file[i].k = "len"
    BY <1>1, <1>3
  <2> QED
    BY <1>1, <2>1, FooterFound
<1>5. rsize - 2 - file[rsize - 1].n = DataLen
  BY <1>1, <1>3, <1>4
<1>6. /\ rtypes' = file[DataLen + 1].types
      /\ rgroups' = [g \in 1..file[DataLen + 2].v |-> file[DataLen + 2 + g].meta]
      /\ rpc' = "open" /\ rgen' = gen
      /\ UNCHANGED <<rsize, rfail, got>>
  BY <1>5 DEF OpenFooter
<1>7. /\ file[DataLen + 1] = SchemaCell
      /\ file[DataLen + 2] = NumCell(Len(groups))
      /\ \A g \in 1..Len(groups) : file[DataLen + 2 + g] = GroupCell(groups[g])
  BY <1>1, <1>4 DEF WriterInv, FileInv
<1>8. rtypes' = Types
  BY <1>6, <1>7 DEF SchemaCell
<1>9. rgroups' = groups
  <2>1. file[DataLen + 2].v = Len(groups)
    BY <1>7 DEF NumCell
  <2>2. ASSUME NEW g \in 1..Len(groups) PROVE file[DataLen + 2 + g].meta = groups[g]
    <3>1. PICK cell : cell = file[DataLen + 2 + g]
      OBVIOUS
    <3>2. cell = GroupCell(groups[g])
      BY <1>7, <3>1
    <3>3. cell.meta = groups[g]
      BY <3>2 DEF GroupCell
    <3> QED
      BY <3>1, <3>3
  <2>3. rgroups' = [g \in 1..Len(groups) |-> groups[g]]
    BY <1>6, <2>1, <2>2
  <2>4. groups \in Seq(RowGroupMeta)
    BY <1>1 DEF WriterInv, WriterTypeOK
  <2> QED
    BY <2>3, <2>4
<1>10. ReaderTypeOK'
  BY <1>1, <1>6, <1>8, <1>9, TypesAssumption
  DEF IInv, TypeOK, WriterTypeOK, ReaderTypeOK
<1>11. UNCHANGED <<file, durable, gen, groups>> /\ FooterWritten'
  BY <1>4 DEF diskVars, writerVars, FooterWritten
<1>12. durable' >= Len(file') - 1
  BY <1>2, <1>3, <1>4, <1>11
<1>13. ReaderInv'
  BY <1>1, <1>6, <1>8, <1>9, <1>11, <1>12 DEF ReaderInv, ReadsReturnTheCsv, NothingRead
<1> QED
  BY <1>10, <1>13

LEMMA OpenGarbageInv ==
    ASSUME IInv, OpenGarbage, UNCHANGED diskVars
    PROVE  ReaderTypeOK' /\ ReaderInv'
<1> USE DEF OpenGarbage, diskVars
<1>1. ReaderTypeOK'
  BY DEF IInv, TypeOK, ReaderTypeOK
<1>2. ~Current' /\ rgen' <= gen'
  BY DEF Current, IInv, ReaderInv
<1>3. ReaderInv'
  BY <1>1, <1>2, NotCurrent
<1> QED
  BY <1>1, <1>3

LEMMA LeaveInv ==
    ASSUME IInv, Leave, UNCHANGED diskVars
    PROVE  ReaderTypeOK' /\ ReaderInv'
<1> USE DEF Leave, diskVars
<1>1. ReaderTypeOK'
  <2>1. rtypes' \in Seq(DataType) /\ rgroups' \in Seq(RowGroupMeta) /\ <<>> \in Seq(Int)
    BY EmptySeq
  <2> QED
    BY <2>1 DEF ReaderTypeOK, NothingRead
<1>2. ~Current' /\ rgen' <= gen'
  BY DEF Current, IInv, TypeOK, WriterTypeOK
<1>3. ReaderInv'
  BY <1>1, <1>2, NotCurrent
<1> QED
  BY <1>1, <1>3

-----------------------------------------------------------------------------
(* read_chunk returns a typed answer, whatever the file has become. *)
LEMMA ReadChunkType ==
    ASSUME IInv, NEW rg \in 1..Len(rgroups), NEW col \in 1..Len(rgroups[rg].columns),
           ReadChunk(rg, col)
    PROVE  ReaderTypeOK'
<1>1. /\ rgroups \in Seq(RowGroupMeta) /\ file \in Seq(Cell) /\ durable \in 0..Len(file)
      /\ ReaderTypeOK
  BY DEF IInv, TypeOK, WriterTypeOK, ReaderTypeOK
<1>2. PICK n, off, t : /\ n = rgroups[rg].num_rows
                       /\ off = rgroups[rg].columns[col].offset
                       /\ t = rtypes[col]
  OBVIOUS
<1>3. n \in Nat /\ Len(rgroups[rg].columns) \in Nat
  <2>1. rgroups[rg] \in RowGroupMeta
    BY <1>1, ElementOfSeq
  <2>2. rgroups[rg].columns \in Seq(ChunkMeta) /\ rgroups[rg].num_rows \in Nat
    BY <2>1 DEF RowGroupMeta
  <2>3. Len(rgroups[rg].columns) \in Nat
    BY <2>2
  <2> QED
    BY <1>2, <2>2, <2>3
<1>4. rg \in Nat /\ col \in Nat /\ ZeroColumn(n) \in Seq(Int)
  BY <1>1, <1>3 DEF ZeroColumn
<1>5. Decodable(file, durable, off, t, n) => DecodeChunk(file, off, n) \in Seq(Int)
  <2> SUFFICES ASSUME Decodable(file, durable, off, t, n)
               PROVE  DecodeChunk(file, off, n) \in Seq(Int)
    OBVIOUS
  <2>1. PICK id, h : id = file[off+1].id /\ h = HeaderLen(id)
    OBVIOUS
  <2>2. /\ off \in 0..durable-1 /\ id \in CodecId /\ off + h + n <= durable
        /\ \A i \in 2..h+n : file[off+i].k = "num"
    BY <2>1 DEF Decodable
  <2>3. h \in 1..3 /\ (id = "BitPack" => h = 3)
    BY <2>1, <2>2 DEF CodecId, HeaderLen
  <2>4. ASSUME NEW i \in 2..h+n PROVE file[off+i].v \in Int
    <3>1. off + i \in 1..Len(file)
      BY <1>1, <1>3, <2>2, <2>3
    <3>2. file[off+i] \in Cell /\ file[off+i].k = "num"
      BY <1>1, <2>2, <3>1, ElementOfSeq
    <3> QED
      BY <3>2 DEF Cell
  <2>5. PICK base : base = IF id = "BitPack" THEN file[off+2].v ELSE 0
    OBVIOUS
  <2>6. base \in Int
    <3>1. id = "BitPack" => 2 \in 2..h+n
      BY <1>3, <2>3
    <3> QED
      BY <2>4, <2>5, <3>1
  <2>7. ASSUME NEW i \in 1..n PROVE base + file[off + h + i].v \in Int
    <3>1. h + i \in 2..h+n /\ off + (h + i) = off + h + i
      BY <1>3, <2>2, <2>3
    <3>2. file[off + h + i].v \in Int
      BY <2>4, <3>1
    <3> QED
      BY <2>6, <3>2
  <2>8. DecodeChunk(file, off, n) = [i \in 1..n |-> base + file[off + h + i].v]
    BY <2>1, <2>5 DEF DecodeChunk
  <2> QED
    BY <1>3, <2>7, <2>8
<1>6. /\ rpc' \in {"open", "rejected"} /\ rfail' \in BOOLEAN
      /\ UNCHANGED <<rsize, rtypes, rgroups, rgen>>
      /\ \E how \in {"values", "throw", "garbage"} :
           \E vals \in {ZeroColumn(n), <<>>} \cup
                       (IF Decodable(file, durable, off, t, n)
                          THEN {DecodeChunk(file, off, n)} ELSE {}) :
             got' = [rg |-> rg, col |-> col, how |-> how, vals |-> vals]
  BY <1>1, <1>2 DEF ReadChunk, ReaderTypeOK
<1>7. <<>> \in Seq(Int)
  BY EmptySeq
<1>8. got' \in [rg : Nat, col : Nat, how : {"none", "values", "throw", "garbage"},
                vals : Seq(Int)]
  <2>1. PICK how \in {"values", "throw", "garbage"}, vals \in Seq(Int) :
          got' = [rg |-> rg, col |-> col, how |-> how, vals |-> vals]
    BY <1>4, <1>5, <1>6, <1>7
  <2> QED
    BY <1>4, <2>1
<1> QED
  BY <1>1, <1>6, <1>8 DEF ReaderTypeOK

(* From the file whose footer it read, read_chunk returns the rows.         *)
LEMMA ReadChunkWhenCurrent ==
    ASSUME IInv, Current, NEW rg \in 1..Len(rgroups),
           NEW col \in 1..Len(rgroups[rg].columns), ReadChunk(rg, col)
    PROVE  /\ rgroups = groups /\ rgroups # <<>> /\ rg \in 1..Len(groups)
           /\ FooterWritten /\ durable >= Len(file) - 1 /\ rtypes = Types /\ ~rfail
           /\ Len(groups[rg].columns) = NCols /\ col \in 1..NCols
           /\ got' = [rg |-> rg, col |-> col, how |-> "values", vals |-> got'.vals]
           /\ ReadBack(rg, col, got'.vals)
           /\ UNCHANGED <<rfail, rpc>>
<1>1. rgroups # <<>>
  BY EmptySeq
<1>2. /\ FooterWritten /\ durable >= Len(file) - 1 /\ rtypes = Types
      /\ rgroups = groups /\ ~rfail
  BY <1>1 DEF IInv, ReaderInv
<1>3. /\ WriterTypeOK /\ TilesInv /\ rg \in 1..Len(groups)
      /\ durable \in 0..Len(file) /\ Len(file) \in Nat
  BY <1>2 DEF IInv, TypeOK, WriterTypeOK
<1>4. Len(groups[rg].columns) = NCols /\ col \in 1..NCols
  BY <1>2, <1>3 DEF TilesInv
<1>5. PICK n, off, t : /\ n = groups[rg].num_rows
                       /\ off = groups[rg].columns[col].offset
                       /\ t = Types[col]
  OBVIOUS
<1>6. n \in Nat /\ Len(groups) \in Nat
  BY <1>3, <1>5, GroupTypes
<1>7. /\ Decodable(file, DataLen, off, t, n)
      /\ Keeps(t, Rows(col, starts[rg], n)) => DecodeChunk(file, off, n) = Rows(col, starts[rg], n)
  BY <1>2, <1>3, <1>4, <1>5 DEF IInv, ChunkInv, ChunkHolds
<1>8. DataLen \in Int /\ DataLen <= durable
  BY <1>2, <1>3, <1>6 DEF DataLen
<1>9. Decodable(file, durable, off, t, n)
  <2>1. durable \in Int /\ \A i \in 1..DataLen : file[i] = file[i]
    BY <1>3
  <2> QED
    BY <1>6, <1>7, <1>8, <2>1, ChunkStable
<1>10. off \in 0..durable-1
  BY <1>9 DEF Decodable
<1>11. /\ got' = [rg |-> rg, col |-> col, how |-> "values",
                  vals |-> DecodeChunk(file, off, n)]
       /\ UNCHANGED <<rfail, rpc>>
  BY <1>2, <1>5, <1>9, <1>10 DEF ReadChunk
<1>12. got'.vals = DecodeChunk(file, off, n)
  BY <1>11
<1>13. Slice(rg, col) = Rows(col, starts[rg], n)
  BY <1>5 DEF Rows, Slice
<1>14. Len(DecodeChunk(file, off, n)) = n
  <2>1. DOMAIN DecodeChunk(file, off, n) = 1..n
    BY DEF DecodeChunk
  <2>2. DecodeChunk(file, off, n) \in Seq(Int)
    BY <1>12, ReadChunkType DEF ReaderTypeOK
  <2> QED
    BY <1>6, <2>1, <2>2, LenFromDomain
<1>15. ReadBack(rg, col, got'.vals)
  BY <1>5, <1>7, <1>12, <1>13, <1>14 DEF ReadBack
<1> QED
  BY <1>1, <1>2, <1>3, <1>4, <1>11, <1>12, <1>15

(* A reader of the current file gets what the CSV held. *)
LEMMA ReadChunkInv ==
    ASSUME IInv, NEW rg \in 1..Len(rgroups), NEW col \in 1..Len(rgroups[rg].columns),
           ReadChunk(rg, col), UNCHANGED diskVars, UNCHANGED writerVars
    PROVE  ReaderTypeOK' /\ ReaderInv'
<1>1. ReaderTypeOK'
  BY ReadChunkType
<1>2. /\ rpc = "open" /\ rpc' \in {"open", "rejected"}
      /\ UNCHANGED <<rsize, rtypes, rgroups, rgen>>
  BY DEF ReadChunk
<1>3. UNCHANGED <<gen, file, durable, groups, starts, input>>
  BY DEF diskVars, writerVars
<1>4. CASE ~Current
  <2>1. ~Current' /\ rgen' <= gen'
    BY <1>2, <1>3, <1>4 DEF Current, IInv, ReaderInv
  <2> QED
    BY <1>1, <1>2, <2>1, NotCurrent
<1>5. CASE Current
  <2>1. /\ rgroups = groups /\ rgroups # <<>> /\ rg \in 1..Len(groups)
        /\ FooterWritten /\ durable >= Len(file) - 1 /\ rtypes = Types /\ ~rfail
        /\ Len(groups[rg].columns) = NCols /\ col \in 1..NCols
        /\ got' = [rg |-> rg, col |-> col, how |-> "values", vals |-> got'.vals]
        /\ ReadBack(rg, col, got'.vals)
        /\ UNCHANGED <<rfail, rpc>>
    BY <1>5, ReadChunkWhenCurrent
  <2>2. ReadsReturnTheCsv'
    <3>1. ReadBack(rg, col, got'.vals) => ReadBack(rg, col, got.vals)'
      BY <1>3 DEF ReadBack, Slice
    <3>2. got'.rg = rg /\ got'.col = col /\ got'.how = "values"
      BY <2>1
    <3> QED
      BY <2>1, <3>1, <3>2 DEF ReadsReturnTheCsv
  <2>3. FooterWritten'
    BY <1>3, <2>1 DEF FooterWritten
  <2>4. Current' /\ rgen' <= gen'
    BY <1>2, <1>3, <1>5, <2>1 DEF Current, IInv, ReaderInv
  <2>5. durable' >= Len(file') - 1 /\ rgroups' = groups' /\ rtypes' = Types /\ ~rfail'
    BY <1>2, <1>3, <2>1
  <2> QED
    BY <1>1, <1>2, <1>3, <2>1, <2>2, <2>3, <2>4, <2>5 DEF ReaderInv, Current
<1> QED
  BY <1>4, <1>5

LEMMA ReaderNextInv == IInv /\ ReaderNext /\ UNCHANGED writerVars => IInv'
<1> SUFFICES ASSUME IInv, ReaderNext, UNCHANGED writerVars PROVE IInv'
  OBVIOUS
<1>1. UNCHANGED diskVars
  BY DEF ReaderNext
<1>2. WriterInv'
  BY <1>1, WriterFrame DEF IInv, TypeOK, WriterInv
<1>3. ReaderTypeOK' /\ ReaderInv'
  <2>1. CASE OpenHead \/ RejectHead
    BY <1>1, <2>1, OpenHeadInv
  <2>2. CASE OpenWithoutFooter
    BY <1>1, <2>2, OpenWithoutFooterInv
  <2>3. CASE OpenFooter
    BY <1>1, <2>3, OpenFooterInv
  <2>4. CASE OpenGarbage
    BY <1>1, <2>4, OpenGarbageInv
  <2>5. ASSUME NEW rg \in 1..Len(rgroups), NEW col \in 1..Len(rgroups[rg].columns),
               ReadChunk(rg, col)
        PROVE  ReaderTypeOK' /\ ReaderInv'
    BY <1>1, <2>5, ReadChunkInv
  <2>6. CASE Leave
    BY <1>1, <2>6, LeaveInv
  <2> QED
    BY <2>1, <2>2, <2>3, <2>4, <2>5, <2>6 DEF ReaderNext, ReaderStep
<1> QED
  BY <1>2, <1>3 DEF IInv, TypeOK, WriterInv

LEMMA StutterInv == IInv /\ UNCHANGED vars => IInv'
<1> SUFFICES ASSUME IInv, UNCHANGED vars PROVE IInv'
  OBVIOUS
<1> USE DEF vars
<1>1. WriterInv'
  BY WriterFrame DEF IInv, TypeOK, WriterInv
<1>2. ReaderTypeOK' /\ ReaderInv'
  <2>1. /\ gen' = gen /\ durable' = durable /\ durable \in Nat
        /\ UNCHANGED <<file, groups, starts, input>>
    BY DEF diskVars, writerVars, IInv, TypeOK, WriterTypeOK
  <2> QED
    BY <2>1, ReaderFrame DEF IInv
<1> QED
  BY <1>1, <1>2 DEF IInv, TypeOK, WriterInv

-----------------------------------------------------------------------------
(* What the invariant says of the properties. *)

LEMMA InvReads == IInv => ReadsReturnTheCsv
BY DEF IInv, ReaderInv

LEMMA InvAllRows == IInv => AllRowsOrNone
<1> SUFFICES ASSUME IInv, Current, rtypes # <<>>
             PROVE  /\ rtypes = Types /\ rgroups # <<>> /\ starts[1] = 0 /\ eof
                    /\ \A g \in 1..Len(rgroups) :
                         starts[g] + rgroups[g].num_rows =
                             IF g = Len(rgroups) THEN Len(input) ELSE starts[g + 1]
  BY DEF AllRowsOrNone
<1>1. FooterWritten /\ rtypes = Types /\ rgroups = groups
  BY DEF IInv, ReaderInv
<1>2. eof /\ buffered = 0 /\ groups # <<>>
  BY <1>1 DEF IInv, PcInv
<1>3. Len(input) - buffered = Len(input)
  BY <1>2 DEF IInv, TypeOK, WriterTypeOK
<1> QED
  BY <1>1, <1>2, <1>3 DEF IInv, TilesInv

LEMMA InvFull == IInv => GroupsAreFull
BY DEF IInv, FullInv

LEMMA InvStats == IInv => StatsAreTheRange
<1> SUFFICES ASSUME IInv, NEW g \in 1..Len(groups), NEW c \in 1..NCols,
                    NEW m, m = groups[g].columns[c], m.has_stats, Types[c] = "Int64"
             PROVE  /\ \A i \in 1..groups[g].num_rows : Slice(g, c)[i] \in m.min_i..m.max_i
                    /\ \E i, j \in 1..groups[g].num_rows :
                         Slice(g, c)[i] = m.min_i /\ Slice(g, c)[j] = m.max_i
  BY DEF StatsAreTheRange
<1>1. StatsHold(m, c, starts[g], groups[g].num_rows)
  BY DEF IInv, ChunkInv
<1>2. \A i \in 1..groups[g].num_rows : Slice(g, c)[i] = input[starts[g] + i][c]
  BY DEF Slice
<1> QED
  BY <1>1, <1>2 DEF StatsHold

LEMMA InvSealed == IInv => SuccessMeansSealed
BY DEF IInv, PcInv, SuccessMeansSealed

LEMMA StepKeepsDisk ==
    ASSUME IInv, [Next]_vars
    PROVE  gen' = gen => /\ durable' >= durable
                         /\ \A i \in 1..durable : file'[i] = file[i]
<1> SUFFICES ASSUME gen' = gen
             PROVE  durable' >= durable /\ \A i \in 1..durable : file'[i] = file[i]
  OBVIOUS
<1>1. /\ durable \in 0..Len(file) /\ file \in Seq(Cell) /\ gen \in Nat
      /\ groups \in Seq(RowGroupMeta) /\ Len(file) \in Nat /\ WriterInv
  BY DEF IInv, TypeOK, WriterTypeOK, WriterInv
<1>2. CASE UNCHANGED diskVars
  BY <1>1, <1>2 DEF diskVars
<1>3. CASE WriterNext
  <2>1. ~StartConvert
    BY <1>1 DEF StartConvert
  <2>2. durable' >= durable
    BY <1>3, <2>1, WriterKeepsFooter
  <2>3. CASE file' = file
    BY <2>2, <2>3
  <2>4. CASE FlushColumn \/ WriteFooter
    <3>1. PICK cells : cells \in Seq(Cell) /\ file' = Written(cells)
      <4>1. CASE WriteFooter
        BY <1>1, <4>1, FooterLayout DEF WriteFooter
      <4>2. CASE FlushColumn
        <5>0. PICK c \in 1..NCols :
                \E id \in Candidates(Types[c], buffered) : \E kept \in Kept(id, columns[c]) :
                  file' = Written(EncodeChunk(id, columns[c], kept))
          <6>1. NCols \in Nat /\ Len(cmetas) \in Nat
            BY <1>1, TypesAssumption DEF NCols, WriterInv, WriterTypeOK
          <6>2. Len(cmetas) + 1 \in 1..NCols
            BY <4>2, <6>1 DEF FlushColumn
          <6> QED
            BY <4>2, <6>2 DEF FlushColumn
        <5>a. PICK id \in Candidates(Types[c], buffered) : \E kept \in Kept(id, columns[c]) :
                file' = Written(EncodeChunk(id, columns[c], kept))
          BY <5>0
        <5>1. PICK kept \in Kept(id, columns[c]) :
                file' = Written(EncodeChunk(id, columns[c], kept))
          BY <5>a
        <5>2. columns[c] \in Seq(Int) /\ id \in CodecId /\ buffered \in Nat
              /\ Types[c] \in DataType
              /\ Len(columns[c]) = buffered
              /\ (id = "BitPack" => columns[c] # <<>> /\ Types[c] = "Int64")
              /\ (Types[c] # "String" =>
                   \A i \in 1..Len(columns[c]) : columns[c][i] \in Int64)
          BY <1>1, ColumnBuffer DEF Candidates, CodecId, WriterInv, WriterTypeOK
        <5>3. id = "BitPack" => MinOf(columns[c]) \in Int
          BY <5>2, StatsOfValues
        <5>4. kept \in Seq(Int) /\ Len(kept) = Len(columns[c])
          BY <5>2, KeptValues
        <5>5. EncodeChunk(id, columns[c], kept) \in Seq(Cell)
          BY <5>2, <5>3, <5>4, ChunkLayout
        <5> QED
          BY <5>1, <5>5
      <4> QED
        BY <2>4, <4>1, <4>2
    <3>2. CASE failed
      BY <2>2, <3>1, <3>2 DEF Written
    <3>3. CASE ~failed
      <4>1. file' = file \o cells
        BY <3>1, <3>3 DEF Written
      <4>2. \A i \in 1..Len(file) : file'[i] = file[i]
        BY <1>1, <3>1, <4>1, AppendedCells
      <4> QED
        BY <1>1, <2>2, <4>2
    <3> QED
      BY <3>2, <3>3
  <2> QED
    BY <1>3, <2>1, <2>3, <2>4
    DEF WriterNext, ConvertStep, RejectSchema, OpenCsv, MissingCsv, BadRow, Throw,
        AppendRow, EndOfCsv, FinishGroup, Close, WriteBack, DiskFull, Kill, diskVars
<1> QED
  BY <1>2, <1>3 DEF Next, ReaderNext, vars

-----------------------------------------------------------------------------
(* The invariant of StoreInv is an invariant of Store.                      *)
THEOREM Invariance == Spec => []IInv
<1>1. Init => IInv
  BY InitInv
<1>2. IInv /\ [Next]_vars => IInv'
  BY WriterNextInv, ReaderNextInv, StutterInv DEF Next
<1> QED
  BY <1>1, <1>2, PTL DEF Spec

(* Every variable keeps its type: the cells of the file, the buffers and    *)
(* metadata of convert_csv, the footer a query holds and its last answer.   *)
THEOREM TypeCorrect == Spec => []TypeOK
<1>1. IInv => TypeOK
  BY DEF IInv
<1> QED
  BY <1>1, Invariance, PTL

(* What read_chunk returns from the file whose footer was read is what the  *)
(* data CSV held, for every schema, group size and CSV, however the file    *)
(* was written back and whenever the conversion was killed; of a compressed *)
(* Int64 chunk whose numbers lie further apart than packing keeps, which    *)
(* convert_csv writes all the same, it is as many numbers.                  *)
THEOREM ReadsAreFaithful == Spec => []ReadsReturnTheCsv
BY InvReads, Invariance, PTL

(* An open store shows every row of the CSV once and in order, or nothing.  *)
THEOREM NeverPartOfATable == Spec => []AllRowsOrNone
BY InvAllRows, Invariance, PTL

(* Every row group flush_group writes is full, but the last.                *)
THEOREM FullGroups == Spec => []GroupsAreFull
BY InvFull, Invariance, PTL

(* The minimum and maximum beside an Int64 chunk are those of its rows.     *)
THEOREM StatsAreSound == Spec => []StatsAreTheRange
BY InvStats, Invariance, PTL

(* A conversion that ends with success and whose stream did not fail leaves *)
(* a finished store on disk.                                                *)
THEOREM SuccessSeals == Spec => []SuccessMeansSealed
BY InvSealed, Invariance, PTL

(* Until a conversion truncates the store, what is on disk stays.           *)
THEOREM DiskIsAppendOnly == Spec => DiskOnlyGrows
<1>1. IInv /\ [Next]_vars =>
        [gen' = gen => (/\ durable' >= durable
                        /\ \A i \in 1..durable : file'[i] = file[i])]_vars
  BY StepKeepsDisk
<1> QED
  BY <1>1, Invariance, PTL DEF Spec, DiskOnlyGrows
-----------------------------------------------------------------------------
(* Above and below Store.  Every behaviour of Store is one of Table under  *)
(* the mapping of StoreTable: the invariant of StoreInv gives all the      *)
(* mapping needs, but for where the groups start (GridInv), which is shown *)
(* first.  And every behaviour of StoreScan is one of Store, so what holds *)
(* of the store holds under a scan, and what the scan gives follows.       *)

LEMMA TimesNext ==
    ASSUME NEW n \in Nat, NEW r \in Nat
    PROVE  (n - 1) * r + r = n * r
OBVIOUS

LEMMA TimesGrows ==
    ASSUME NEW n \in Nat, NEW r \in Nat \ {0}
    PROVE  n <= n * r
OBVIOUS

-----------------------------------------------------------------------------
(* Where the groups start. *)

LEMMA NextStart ==
    ASSUME IInv, GridInv, wpc = "flush"
    PROVE  Len(input) - buffered = Len(groups) * RowsPerGroup
<1>1. /\ Len(groups) \in Nat /\ Len(input) \in Nat /\ buffered \in Nat
      /\ RowsPerGroup \in Nat /\ WriterTypeOK /\ TilesInv
  BY RowsPerGroupAssumption DEF IInv, TypeOK, WriterTypeOK
<1>2. CASE groups = <<>>
  <2>1. Len(groups) = 0 /\ buffered = Len(input)
    BY <1>2 DEF IInv, TilesInv
  <2> QED
    BY <1>1, <2>1
<1>3. CASE groups # <<>>
  <2>1. PICK n \in 1..Len(groups) : n = Len(groups)
    BY <1>1, <1>3, EmptySeq DEF IInv, TypeOK, WriterTypeOK
  <2>2. /\ starts[n] = (n - 1) * RowsPerGroup
        /\ groups[n].num_rows = RowsPerGroup
        /\ starts[n] + groups[n].num_rows = Len(input) - buffered
    BY <1>1, <2>1 DEF GridInv, IInv, FullInv, TilesInv
  <2> QED
    BY <1>1, <2>1, <2>2, TimesNext
<1> QED
  BY <1>2, <1>3

LEMMA GridStep ==
    ASSUME IInv, GridInv, [Next]_vars
    PROVE  GridInv'
<1>1. /\ groups \in Seq(RowGroupMeta) /\ starts \in Seq(Nat) /\ Len(groups) \in Nat
      /\ Len(starts) = Len(groups)
  BY DEF IInv, TypeOK, WriterTypeOK, TilesInv
<1>2. CASE UNCHANGED <<groups, starts>>
  BY <1>2 DEF GridInv
<1>3. CASE StartConvert
  BY <1>3 DEF StartConvert, GridInv
<1>4. CASE FinishGroup
  <2>1. /\ wpc = "flush" /\ starts' = Append(starts, Len(input) - buffered)
        /\ Len(groups') = Len(groups) + 1
    BY <1>1, <1>4 DEF FinishGroup
  <2>2. Len(input) - buffered = Len(groups) * RowsPerGroup
    BY <2>1, NextStart
  <2> SUFFICES ASSUME NEW g \in 1..Len(groups) + 1
               PROVE  starts'[g] = (g - 1) * RowsPerGroup
    BY <2>1 DEF GridInv
  <2>3. CASE g <= Len(groups)
    BY <1>1, <2>1, <2>3 DEF GridInv
  <2>4. CASE g = Len(groups) + 1
    <3>1. starts'[g] = Len(input) - buffered /\ g - 1 = Len(groups)
      BY <1>1, <2>1, <2>4
    <3> QED
      BY <3>1, <2>2
  <2> QED
    BY <1>1, <2>3, <2>4
<1>5. CASE WriterNext /\ ~StartConvert /\ ~FinishGroup
  <2>1. UNCHANGED <<groups, starts>>
    BY <1>5 DEF WriterNext, ConvertStep, RejectSchema, OpenCsv, MissingCsv, Throw, BadRow,
                AppendRow, EndOfCsv, FlushColumn, WriteFooter, Close, WriteBack, DiskFull,
                Kill, writerVars
  <2> QED
    BY <2>1, <1>2
<1>6. CASE UNCHANGED writerVars
  BY <1>2, <1>6 DEF writerVars
<1> QED
  BY <1>3, <1>4, <1>5, <1>6 DEF Next, vars
-----------------------------------------------------------------------------
(* What a reader reads is a group of the table. *)

(* The rows of group g in the store are those of group g in the table.      *)
LEMMA GroupRowsAgree ==
    ASSUME IInv, GridInv, FooterWritten, NEW g \in 1..Len(groups)
    PROVE  g \in TheTable!Groups /\ groups[g].num_rows = TheTable!RowsOf(g)
<1>1. PICK r, n : r = RowsPerGroup /\ n = groups[g].num_rows
  OBVIOUS
<1>2. /\ Len(groups) \in Nat /\ Len(input) \in Nat /\ r \in Nat \ {0} /\ n \in Nat
      /\ WriterTypeOK /\ TilesInv /\ total_rows = Len(input)
      /\ input \in Seq(Seq(Int))
  BY <1>1, RowsPerGroupAssumption, GroupTypes DEF IInv, TypeOK, WriterTypeOK, RowsInv
<1>3. /\ starts[g] = (g - 1) * r /\ buffered = 0 /\ eof
      /\ n <= r /\ (n < r => g = Len(groups)) /\ (n = 0 => Len(input) = 0)
  BY <1>1, <1>2 DEF GridInv, IInv, PcInv, FullInv, GroupsAreFull
<1>4. (g - 1) * r + n <= Len(input) /\ (g = Len(groups) => (g - 1) * r + n = Len(input))
  BY <1>1, <1>2, <1>3 DEF TilesInv
<1>5. (g - 1) * r + r = g * r /\ (g - 1) * r \in Int /\ g * r \in Int
      /\ g \in Nat /\ g - 1 \in Nat
  BY <1>2, TimesNext
<1>6. n = TheTable!RowsOf(g)
  <2>1. PICK a \in Int : a = (g - 1) * r
    BY <1>5
  <2>2. PICK b \in Int : b = g * r
    BY <1>5
  <2>3. PICK l \in Nat : l = Len(input)
    BY <1>2
  <2>4. a + r = b /\ a + n <= l /\ (n < r => a + n = l) /\ n <= r
    BY <1>3, <1>4, <1>5, <2>1, <2>2, <2>3
  <2>5. n = IF b <= l THEN r ELSE l - a
    BY <1>2, <2>4
  <2> QED
    BY <1>1, <2>1, <2>2, <2>3, <2>5 DEF TheTable!RowsOf
<1>7. g = 1 \/ (g - 1) * r < Len(input)
  <2>1. CASE n = 0
    <3>1. Len(input) = 0 /\ (g - 1) * r <= 0
      BY <1>2, <1>3, <1>4, <1>5, <2>1
    <3>2. g - 1 <= (g - 1) * r
      BY <1>2, <1>5, TimesGrows
    <3> QED
      BY <3>1, <3>2, <1>5
  <2>2. CASE n # 0
    BY <1>2, <1>4, <1>5, <2>2
  <2> QED
    BY <2>1, <2>2
<1>8. g \in 1..Len(input)+1
  <2>1. g - 1 <= (g - 1) * r
    BY <1>2, <1>5, TimesGrows
  <2> QED
    BY <1>2, <1>4, <1>5, <2>1
<1> QED
  BY <1>1, <1>6, <1>7, <1>8 DEF TheTable!Groups

(* A slice has as many values as its group has rows. *)
LEMMA SliceLength ==
    ASSUME IInv, NEW g \in 1..Len(groups), NEW c \in 1..NCols
    PROVE  Len(Slice(g, c)) = groups[g].num_rows
<1>1. groups[g].num_rows \in Nat
  BY GroupTypes DEF IInv, TypeOK
<1> QED
  BY <1>1 DEF Slice

(* Readers change nothing of the table itself. *)
LEMMA ReaderKeepsTable ==
    ASSUME UNCHANGED diskVars, UNCHANGED writerVars
    PROVE  UNCHANGED <<input, eof, gen, tablePublished>>
BY DEF diskVars, writerVars, tablePublished, FooterWritten

LEMMA ReadRefines ==
    ASSUME IInv, GridInv, NEW rg \in 1..Len(rgroups),
           NEW col \in 1..Len(rgroups[rg].columns),
           ReadChunk(rg, col), UNCHANGED diskVars, UNCHANGED writerVars
    PROVE  [TheTable!Next]_(TheTable!tableVars)
<1>1. UNCHANGED <<input, eof, gen, tablePublished>>
  BY ReaderKeepsTable
<1>2. /\ rpc = "open" /\ rpc' \in {"open", "rejected"} /\ UNCHANGED <<rgroups, rgen>>
  BY DEF ReadChunk
<1>3. CASE Current
  <2>1. /\ rgroups = groups /\ rgroups # <<>> /\ rg \in 1..Len(groups) /\ FooterWritten
        /\ Len(groups[rg].columns) = NCols /\ col \in 1..NCols
        /\ got' = [rg |-> rg, col |-> col, how |-> "values", vals |-> got'.vals]
        /\ ReadBack(rg, col, got'.vals) /\ got'.vals \in Seq(Int) /\ UNCHANGED rpc
    BY <1>3, ReadChunkWhenCurrent, ReadChunkType DEF ReaderTypeOK
  <2>2. tableView = "table" /\ tableView' = "table" /\ Current'
    BY <1>1, <1>2, <1>3, <2>1 DEF tableView, Current
  <2>3. tableAnswer' = [rg |-> rg, col |-> col, vals |-> got'.vals]
    BY <2>1, <2>2 DEF tableAnswer
  <2>4. rg \in TheTable!Groups /\ groups[rg].num_rows = TheTable!RowsOf(rg)
    BY <2>1, GroupRowsAgree
  <2>5. PICK s : s = Slice(rg, col) /\ s = TheTable!Held(rg, col)
                 /\ DOMAIN s = 1..groups[rg].num_rows
    <3>1. starts[rg] = (rg - 1) * RowsPerGroup
      BY <2>1 DEF GridInv
    <3>2. Slice(rg, col) = TheTable!Held(rg, col)
      BY <2>4, <3>1 DEF Slice, TheTable!Held
    <3> QED
      BY <3>2 DEF Slice
  <2>6. tableAnswer' \in TheTable!Answers(rg, col)
    <3>1. got'.vals \in [1..TheTable!RowsOf(rg) -> Int]
      BY <2>1, <2>4 DEF ReadBack
    <3>2. Len(s) = groups[rg].num_rows
      BY <2>1, <2>5, SliceLength
    <3>3. TheTable!Close(s) <=> Narrow(s)
      BY <2>5, <3>2 DEF TheTable!Close, Narrow
    <3>4. \/ got'.vals = s
          \/ Types[col] = "Int64" /\ Compress /\ ~TheTable!Close(s)
      BY <2>1, <2>5, <3>3 DEF ReadBack, Keeps
    <3> QED
      BY <2>1, <2>3, <2>5, <3>1, <3>4 DEF TheTable!Answers
  <2>7. TheTable!Read
    BY <1>1, <2>1, <2>2, <2>4, <2>6 DEF TheTable!Read
  <2> QED
    BY <2>7 DEF TheTable!Next
<1>4. CASE ~Current
  <2>1. rgen # gen /\ ~Current' /\ tableView = "replaced" /\ UNCHANGED tableAnswer
    BY <1>1, <1>2, <1>4 DEF Current, tableView, tableAnswer
  <2>2. tableView' \in {"replaced", "refused"}
    BY <1>1, <1>2, <2>1 DEF tableView
  <2> QED
    BY <1>1, <2>1, <2>2 DEF TheTable!Next, TheTable!Refuse, TheTable!tableVars
<1> QED
  BY <1>3, <1>4

(* Opening a store is opening its table; a footer is found only once the    *)
(* table is published.                                                      *)
LEMMA OpenRefines ==
    ASSUME IInv, IInv', UNCHANGED diskVars, UNCHANGED writerVars,
           \/ OpenHead \/ RejectHead
           \/ OpenWithoutFooter \/ OpenFooter \/ OpenGarbage
    PROVE  TheTable!Next
<1>1. UNCHANGED <<input, eof, gen, tablePublished>>
  BY ReaderKeepsTable
<1>2. rpc \in {"closed", "checked"} /\ got = NothingRead /\ got' = got /\ ~Current
  BY DEF OpenHead, RejectHead, OpenWithoutFooter, OpenFooter, OpenGarbage, Current, IInv,
         ReaderInv
<1>3. UNCHANGED tableAnswer
  BY <1>2 DEF tableAnswer, NothingRead
<1>4. tableView \in {"closed", "opening"}
  BY <1>2 DEF tableView
<1>5. CASE OpenHead \/ RejectHead \/ OpenGarbage
  <2>1. tableView' \in {"opening", "refused", "replaced"}
    BY <1>5 DEF OpenHead, RejectHead, OpenGarbage, tableView
  <2> QED
    BY <1>1, <1>3, <1>4, <2>1 DEF TheTable!Open, TheTable!Next
<1>6. CASE OpenWithoutFooter \/ OpenFooter
  <2>1. Current'
    BY <1>1, <1>6 DEF OpenWithoutFooter, OpenFooter, Current
  <2>2. rgroups' # <<>> => tablePublished'
    BY <2>1 DEF IInv, ReaderInv, tablePublished
  <2>3. tableView' = IF rgroups' = <<>> THEN "nothing" ELSE "table"
    BY <2>1 DEF Current, tableView
  <2> QED
    BY <1>1, <1>3, <1>4, <2>2, <2>3 DEF TheTable!Open, TheTable!Next
<1> QED
  BY <1>5, <1>6

LEMMA LeaveRefines ==
    ASSUME Leave, UNCHANGED diskVars, UNCHANGED writerVars, ReaderTypeOK
    PROVE  TheTable!Next
<1>1. UNCHANGED <<input, eof, gen, tablePublished>>
  BY ReaderKeepsTable
<1>2. tableView # "closed" /\ tableView' = "closed"
  BY DEF Leave, tableView, ReaderTypeOK
<1>3. tableAnswer' = TheTable!NoAnswer
  BY DEF Leave, tableAnswer, Current, TheTable!NoAnswer
<1> QED
  BY <1>1, <1>2, <1>3 DEF TheTable!Leave, TheTable!Next

-----------------------------------------------------------------------------
(* Conversions. *)

LEMMA StartRefines ==
    ASSUME IInv, StartConvert, UNCHANGED readerVars
    PROVE  TheTable!Next
<1>1. input' = <<>> /\ eof' = FALSE /\ Len(file') = 1 /\ gen' = gen + 1
  BY DEF StartConvert
<1>2. gen \in Nat /\ rgen \in Nat /\ rgen <= gen /\ ReaderTypeOK
  BY DEF IInv, TypeOK, WriterTypeOK, ReaderTypeOK, ReaderInv
<1>3. ~tablePublished'
  BY <1>1 DEF tablePublished, FooterWritten
<1>4. rgen' = rgen /\ rgen' # gen' /\ rpc' = rpc /\ rgroups' = rgroups
  BY <1>1, <1>2 DEF readerVars
<1>5. tableAnswer' = TheTable!NoAnswer
  BY <1>4 DEF tableAnswer, Current, TheTable!NoAnswer
<1>6. tableView' = IF tableView \in {"table", "nothing"} THEN "replaced" ELSE tableView
  BY <1>2, <1>4 DEF tableView, ReaderTypeOK
<1> QED
  BY <1>1, <1>3, <1>5, <1>6 DEF TheTable!Begin, TheTable!Next

LEMMA WriterRefines ==
    ASSUME IInv, IInv', WriterNext, UNCHANGED readerVars
    PROVE  [TheTable!Next]_(TheTable!tableVars)
<1>1. CASE StartConvert
  BY <1>1, StartRefines
<1>2. CASE ~StartConvert
  <2>1. /\ gen' = gen /\ durable \in Nat /\ durable' \in Nat /\ durable' >= durable
        /\ FooterWritten => UNCHANGED file
        /\ Len(file) \in Nat
    BY <1>2, WriterKeepsFooter DEF IInv, TypeOK, WriterTypeOK
  <2>2. UNCHANGED <<tableView, tableAnswer>>
    BY <2>1 DEF readerVars, tableView, tableAnswer, Current
  <2>3. tablePublished => tablePublished'
    BY <2>1 DEF tablePublished, FooterWritten
  <2>4. tablePublished' => eof'
    BY DEF tablePublished, IInv, PcInv
  <2>5. tablePublished \in BOOLEAN /\ tablePublished' \in BOOLEAN /\ eof \in BOOLEAN
    BY DEF tablePublished, FooterWritten, IInv, TypeOK, WriterTypeOK
  <2>6. CASE \E row \in CsvRows : AppendRow(row)
    <3>1. PICK row \in CsvRows : AppendRow(row)
      BY <2>6
    <3>2. /\ input' = Append(input, row) /\ Accepted(row) /\ UNCHANGED <<eof, file, durable>>
          /\ wpc = "rows"
      BY <3>1 DEF AppendRow, diskVars
    <3>3. ~eof /\ UNCHANGED tablePublished
      BY <3>2 DEF IInv, PcInv, tablePublished, FooterWritten
    <3> QED
      BY <2>2, <3>2, <3>3 DEF TheTable!Take, TheTable!Next
  <2>7. CASE EndOfCsv
    <3>1. /\ wpc = "rows" /\ eof' = TRUE /\ UNCHANGED <<input, file, durable>>
      BY <2>7 DEF EndOfCsv, diskVars
    <3>2. ~eof /\ UNCHANGED tablePublished
      BY <3>1 DEF IInv, PcInv, tablePublished, FooterWritten
    <3> QED
      BY <2>2, <3>1, <3>2 DEF TheTable!Finish, TheTable!Next
  <2>8. CASE ~EndOfCsv /\ ~\E row \in CsvRows : AppendRow(row)
    <3>1. UNCHANGED <<input, eof>>
      BY <1>2, <2>8 DEF WriterNext, ConvertStep, RejectSchema, OpenCsv, MissingCsv, Throw,
                        BadRow, FlushColumn, FinishGroup, WriteFooter, Close, WriteBack,
                        DiskFull, Kill, writerVars
    <3> QED
      BY <2>2, <2>3, <2>4, <2>5, <3>1 DEF TheTable!Publish, TheTable!Next, TheTable!tableVars
  <2> QED
    BY <2>6, <2>7, <2>8
<1> QED
  BY <1>1, <1>2

-----------------------------------------------------------------------------
LEMMA InitRefines == Init => GridInv /\ TheTable!Init
<1> SUFFICES ASSUME Init PROVE GridInv /\ TheTable!Init
  OBVIOUS
<1> USE DEF Init, WriterInit, ReaderInit
<1>1. GridInv
  BY EmptySeq DEF GridInv
<1>2. ~tablePublished /\ tableView = "closed" /\ tableAnswer = TheTable!NoAnswer
  BY DEF tablePublished, FooterWritten, tableView, tableAnswer, Current, TheTable!NoAnswer
<1> QED
  BY <1>1, <1>2 DEF TheTable!Init

LEMMA StepRefines ==
    ASSUME IInv, IInv', GridInv, [Next]_vars
    PROVE  [TheTable!Next]_(TheTable!tableVars)
<1>1. CASE WriterNext /\ UNCHANGED readerVars
  BY <1>1, WriterRefines
<1>2. CASE ReaderNext /\ UNCHANGED writerVars
  <2>1. UNCHANGED diskVars /\ UNCHANGED writerVars /\ ReaderTypeOK
    BY <1>2 DEF ReaderNext, IInv, TypeOK
  <2>2. CASE \E rg \in 1..Len(rgroups) : \E col \in 1..Len(rgroups[rg].columns) :
               ReadChunk(rg, col)
    BY <2>1, <2>2, ReadRefines
  <2>3. CASE Leave
    BY <2>1, <2>3, LeaveRefines
  <2>4. CASE OpenHead \/ RejectHead \/ OpenWithoutFooter \/ OpenFooter \/ OpenGarbage
    BY <2>1, <2>4, OpenRefines
  <2> QED
    BY <1>2, <2>2, <2>3, <2>4 DEF ReaderNext, ReaderStep
<1>3. CASE UNCHANGED vars
  BY <1>3 DEF vars, diskVars, writerVars, readerVars, tablePublished, FooterWritten,
              tableView, tableAnswer, Current, TheTable!tableVars
<1> QED
  BY <1>1, <1>2, <1>3 DEF Next

(* The store implements the table: for every schema, group size and CSV,    *)
(* and whatever is killed, torn or rewritten, a query that opens the store  *)
(* has the whole table its conversion accepted, or an older one, or         *)
(* nothing, and reads from it what the CSV held in those rows, as far as    *)
(* packing keeps it.                                                        *)
THEOREM StoreImplementsTable == Spec => ImplementsTable
<1>1. Init => GridInv /\ TheTable!Init
  BY InitRefines
<1>2. IInv /\ GridInv /\ [Next]_vars => GridInv'
  BY GridStep
<1>3. IInv /\ IInv' /\ GridInv /\ [Next]_vars => [TheTable!Next]_(TheTable!tableVars)
  BY StepRefines
<1> QED
  BY <1>1, <1>2, <1>3, Invariance, PTL DEF Spec, ImplementsTable, TheTable!Spec

-----------------------------------------------------------------------------
(* The scan. *)

LEMMA ColIdsAreColumns ==
    /\ Len(ColIds) \in Nat /\ DOMAIN ColIds = 1..Len(ColIds)
    /\ \A k \in 1..Len(ColIds) : ColIds[k] \in 1..NCols
<1>1. ColIds \in Seq(1..NCols)
  BY ColIdsAssumption
<1> QED
  BY <1>1, ElementOfSeq, LenProperties

(* A step of the scan is one of the store, or none. *)
LEMMA ScanIsStep ==
    ASSUME IInv, ScanInv, [SNext]_svars
    PROVE  [Next]_vars
<1>1. CASE UNCHANGED svars
  BY <1>1 DEF svars
<1>2. CASE WriterNext /\ UNCHANGED <<readerVars, scanVars>>
  BY <1>2 DEF Next
<1>3. CASE ScanStep /\ UNCHANGED <<diskVars, writerVars>>
  <2>1. CASE StartScan \/ SkipGroup \/ BeginBatch \/ GiveBatch \/ EndScan
    BY <1>3, <2>1 DEF StartScan, SkipGroup, BeginBatch, GiveBatch, EndScan, vars
  <2>2. CASE ReadColumn
    <3>1. PICK k : k = Len(batch) + 1
      OBVIOUS
    <3>2. k \in DOMAIN ColIds /\ ColIds[k] \in 1..NCols /\ ColIds[k] <= Len(rtypes)
      <4>1. Len(batch) \in Nat /\ Len(batch) < Len(ColIds) /\ Len(ColIds) \in Nat
            /\ spc = "read"
        BY <2>2, ColIdsAreColumns DEF ScanInv, ReadColumn
      <4>2. k \in 1..Len(ColIds)
        BY <3>1, <4>1
      <4>3. k \in DOMAIN ColIds /\ ColIds[k] \in 1..NCols
        BY <4>2, ColIdsAreColumns
      <4> QED
        BY <4>1, <4>3 DEF ScanInv, ScanPc
    <3>3. rg_ \in 1..Len(rgroups)
      BY <2>2 DEF ScanInv, ScanPc, ReadColumn
    <3>4. Len(rgroups[rg_].columns) = Len(rtypes) /\ Len(rtypes) \in Nat /\ NCols \in Nat
      BY <3>3, TypesAssumption DEF ScanInv, FooterShape, IInv, TypeOK, ReaderTypeOK, NCols
    <3>5. ColIds[k] \in 1..Len(rgroups[rg_].columns)
      BY <3>2, <3>4
    <3>6. ReadChunk(rg_, ColIds[k])
      BY <2>2, <3>1 DEF ReadColumn
    <3>7. ReaderStep
      BY <3>3, <3>5, <3>6 DEF ReaderStep
    <3> QED
      BY <1>3, <3>7 DEF Next, ReaderNext
  <2>3. CASE LeaveScan
    BY <1>3, <2>3 DEF LeaveScan, Next, ReaderNext, ReaderStep
  <2>4. CASE OpenHead \/ RejectHead \/ OpenWithoutFooter \/ OpenFooter \/ OpenGarbage
    BY <1>3, <2>4 DEF Next, ReaderNext, ReaderStep
  <2> QED
    BY <1>3, <2>1, <2>2, <2>3, <2>4 DEF ScanStep
<1> QED
  BY <1>1, <1>2, <1>3 DEF SNext

(* What an open store shows is what the last conversion wrote. *)
LEMMA ShownStore ==
    ASSUME IInv, Current, rtypes # <<>>
    PROVE  /\ FooterWritten /\ rtypes = Types /\ rgroups = groups
           /\ groups \in Seq(RowGroupMeta) /\ Len(groups) \in Nat
BY DEF IInv, TypeOK, WriterTypeOK, ReaderInv

(* The footer that a query reads has as many chunks as types. *)
LEMMA ShapeOfFooter ==
    ASSUME IInv', rpc' = "open", rgen' = gen'
    PROVE  FooterShape'
<1>1. CASE rtypes' # <<>> \/ rgroups' # <<>>
  BY <1>1 DEF FooterShape, IInv, ReaderInv, TilesInv, NCols, Current
<1>2. CASE rgroups' = <<>>
  <2>1. Len(rgroups') = 0
    BY <1>2
  <2> QED
    BY <2>1 DEF FooterShape
<1> QED
  BY <1>1, <1>2

LEMMA ScanTyped ==
    ASSUME IInv, IInv', ScanInv, [SNext]_svars
    PROVE  /\ FooterShape' /\ ScanPc'
           /\ batch' \in Seq(Seq(Int)) /\ given' \in Seq(Batch)
<1>1. /\ FooterShape /\ ScanPc /\ batch \in Seq(Seq(Int)) /\ given \in Seq(Batch)
      /\ rgroups \in Seq(RowGroupMeta) /\ rgroups' \in Seq(RowGroupMeta)
      /\ Len(rgroups) \in Nat /\ Len(rgroups') \in Nat
      /\ <<>> \in Seq(Seq(Int)) /\ <<>> \in Seq(Batch)
  <2>1. <<>> \in Seq(Seq(Int)) /\ <<>> \in Seq(Batch)
    BY EmptySeq
  <2> QED
    BY <2>1 DEF ScanInv, IInv, TypeOK, ReaderTypeOK
<1>2. CASE UNCHANGED <<rtypes, rgroups, rpc, scanVars>>
  BY <1>1, <1>2 DEF scanVars, FooterShape, ScanPc
<1>3. CASE StartScan \/ SkipGroup \/ BeginBatch \/ EndScan
  <2>1. UNCHANGED readerVars /\ rpc \notin {"closed", "checked"}
    BY <1>1, <1>3 DEF StartScan, SkipGroup, BeginBatch, EndScan, ScanPc
  <2>2. FooterShape'
    BY <1>1, <2>1 DEF FooterShape, readerVars
  <2>3. UNCHANGED <<rpc, rtypes, rgroups, given>> /\ batch' \in {batch, <<>>}
    BY <1>3, <2>1 DEF StartScan, SkipGroup, BeginBatch, EndScan, readerVars
  <2>4. CASE StartScan
    BY <1>1, <2>1, <2>2, <2>3, <2>4 DEF StartScan, ScanPc
  <2>5. CASE SkipGroup
    BY <1>1, <2>1, <2>2, <2>3, <2>5 DEF SkipGroup, ScanPc
  <2>6. CASE BeginBatch
    BY <1>1, <2>1, <2>2, <2>3, <2>6 DEF BeginBatch, ScanPc
  <2>7. CASE EndScan
    BY <1>1, <2>1, <2>2, <2>3, <2>7 DEF EndScan, ScanPc
  <2> QED
    BY <1>3, <2>4, <2>5, <2>6, <2>7
<1>4. CASE GiveBatch
  <2>1. rgroups[rg_] \in RowGroupMeta /\ rg_ \in Nat
    BY <1>1, <1>4, ElementOfSeq DEF GiveBatch, ScanPc
  <2>2. [rg |-> rg_, num_rows |-> rgroups[rg_].num_rows, columns |-> batch] \in Batch
    BY <1>1, <2>1 DEF Batch, RowGroupMeta
  <2>3. given' \in Seq(Batch)
    BY <1>1, <1>4, <2>2 DEF GiveBatch
  <2>4. FooterShape' /\ ScanPc'
    BY <1>1, <1>4 DEF GiveBatch, FooterShape, ScanPc, readerVars
  <2> QED
    BY <1>1, <1>4, <2>3, <2>4 DEF GiveBatch
<1>5. CASE ReadColumn
  <2>1. /\ UNCHANGED <<rtypes, rgroups, rg_, skip_, given>> /\ spc = "read"
        /\ spc' \in {"read", "done"} /\ rpc' \in {"open", "rejected"}
        /\ batch' = batch \/ batch' = Append(batch, got'.vals)
    BY <1>5 DEF ReadColumn, ReadChunk
  <2>2. PICK v \in Seq(Int) : v = got'.vals
    BY DEF IInv, TypeOK, ReaderTypeOK
  <2>3. FooterShape' /\ ScanPc'
    BY <1>1, <2>1 DEF FooterShape, ScanPc
  <2>4. batch' \in Seq(Seq(Int))
    <3>1. Append(batch, v) \in Seq(Seq(Int))
      BY <1>1, AppendProperties
    <3> QED
      BY <1>1, <2>1, <2>2, <3>1
  <2> QED
    BY <1>1, <2>1, <2>3, <2>4
<1>6. CASE LeaveScan
  <2>1. /\ spc' = "none" /\ rg_' = 0 /\ skip_' = NoSkip /\ batch' = <<>> /\ given' = <<>>
        /\ rpc' = "closed" /\ rtypes' = <<>> /\ rgroups' = <<>> /\ Len(rgroups') = 0
    BY <1>6 DEF LeaveScan, Leave
  <2>2. FooterShape'
    BY <2>1 DEF FooterShape
  <2>3. ScanPc'
    BY <2>1 DEF ScanPc
  <2> QED
    BY <1>1, <2>1, <2>2, <2>3
<1>7. CASE /\ OpenHead \/ RejectHead \/ OpenWithoutFooter \/ OpenFooter \/ OpenGarbage
           /\ UNCHANGED scanVars
  <2>1. /\ spc = "none" /\ rg_ = 0 /\ UNCHANGED <<spc, rg_, skip_, batch, given>>
    BY <1>1, <1>7 DEF ScanPc, scanVars, OpenHead, RejectHead, OpenWithoutFooter, OpenFooter,
                      OpenGarbage
  <2>2. ScanPc'
    BY <1>1, <2>1 DEF ScanPc
  <2>3. FooterShape'
    <3>1. CASE UNCHANGED <<rtypes, rgroups>>
      BY <1>1, <3>1 DEF FooterShape
    <3>2. CASE rpc' = "open" /\ rgen' = gen
      <4>1. gen' = gen \/ UNCHANGED <<rtypes, rgroups>> \/ UNCHANGED svars
        BY <1>7 DEF SNext, svars, vars, diskVars, readerVars
      <4> QED
        BY <1>1, <3>1, <3>2, <4>1, ShapeOfFooter DEF svars, vars, readerVars
    <3> QED
      BY <1>7, <3>1, <3>2 DEF OpenHead, RejectHead, OpenWithoutFooter, OpenFooter, OpenGarbage
  <2> QED
    BY <1>1, <2>1, <2>2, <2>3
<1> QED
  BY <1>2, <1>3, <1>4, <1>5, <1>6, <1>7 DEF SNext, ScanStep, svars, vars, readerVars

-----------------------------------------------------------------------------
(* The scan has given every group behind it, or shown that no row of it     *)
(* passes.                                                                  *)

(* Statistics never deny a row: a group that is skipped has none that       *)
(* passes.                                                                  *)
LEMMA SkippedRows ==
    ASSUME IInv, ScanPc, NEW g \in 1..Len(groups), rgroups = groups, CanSkip(g),
           NEW i \in 1..groups[g].num_rows
    PROVE  ~Passes(Projected(input[starts[g] + i]))
<1>1. PICK m, row : m = groups[g].columns[skip_.col] /\ row = input[starts[g] + i]
  OBVIOUS
<1>2. /\ skip_ \in Skips /\ m.has_stats
      /\ ~range_can_match(skip_.op, skip_.value, m.min_i, m.max_i)
  BY <1>1 DEF CanSkip, ScanPc
<1>3. PICK k \in 1..Len(ColIds) : skip_.col = ColIds[k]
  BY <1>2, SkipsAssumption, ColIdsAreColumns
<1>4. Types[skip_.col] = "Int64" /\ skip_.value \in Int /\ skip_.col \in 1..NCols
  BY <1>2, <1>3, SkipsAssumption, ColIdsAreColumns
<1>5. StatsHold(m, skip_.col, starts[g], groups[g].num_rows)
  BY <1>1, <1>4 DEF IInv, ChunkInv
<1>6. row[skip_.col] \in m.min_i..m.max_i
  BY <1>1, <1>2, <1>4, <1>5 DEF StatsHold
<1>7. m.min_i \in Int /\ m.max_i \in Int
  <2>1. groups[g] \in RowGroupMeta
    BY ElementOfSeq DEF IInv, TypeOK, WriterTypeOK
  <2>2. groups[g].columns \in Seq(ChunkMeta) /\ Len(groups[g].columns) = NCols
    BY <2>1 DEF RowGroupMeta, IInv, TilesInv
  <2>3. m \in ChunkMeta
    BY <1>1, <1>4, <2>2, ElementOfSeq
  <2> QED
    BY <2>3 DEF ChunkMeta
<1>8. ~apply_cmp(row[skip_.col], skip_.op, skip_.value)
  BY <1>2, <1>4, <1>6, <1>7 DEF range_can_match, apply_cmp
<1>9. Projected(row)[k] = row[skip_.col]
  BY <1>3, ColIdsAreColumns DEF Projected
<1> QED
  BY <1>1, <1>3, <1>8, <1>9, ColIdsAreColumns DEF Passes

(* Nothing that the store shows changes unless the file is truncated. *)
LEMMA SoFarKept ==
    ASSUME ScanSoFar, UNCHANGED <<scanVars, rgroups, groups, starts, input>>
    PROVE  ScanSoFar'
BY DEF ScanSoFar, GivenSoFar, BatchSoFar, Behind, HoldsItsGroup, ReadBack, Slice, Passes,
       Projected, scanVars

LEMMA SoFarWriter ==
    ASSUME IInv, ScanInv, WriterNext, UNCHANGED <<readerVars, scanVars>>,
           Current', rtypes' # <<>>
    PROVE  ScanSoFar'
<1>1. ~StartConvert
  BY DEF StartConvert, Current, readerVars, IInv, TypeOK, WriterTypeOK, ReaderTypeOK, ReaderInv
<1>2. gen' = gen /\ (FooterWritten => UNCHANGED <<groups, starts, input>>)
  BY <1>1, WriterKeepsFooter
<1>3. Current /\ rtypes # <<>> /\ rgroups' = rgroups
  BY <1>2 DEF Current, readerVars
<1>4. FooterWritten /\ ScanSoFar
  BY <1>3, ShownStore DEF ScanInv
<1> QED
  BY <1>2, <1>3, <1>4, SoFarKept

(* A scan that has not begun has promised nothing. *)
LEMMA SoFarNothing ==
    ASSUME spc' # "done", spc' # "read", given' = <<>>, rg_' = 0
    PROVE  ScanSoFar'
<1>1. Len(given') = 0 /\ Behind' = 0
  BY DEF Behind
<1> QED
  BY <1>1 DEF ScanSoFar, GivenSoFar, BatchSoFar

(* A step that returns nothing and goes past nothing. *)
LEMMA GivenKept ==
    ASSUME GivenSoFar, Behind' = Behind, UNCHANGED <<skip_, given, groups, starts, input>>
    PROVE  GivenSoFar'
BY DEF GivenSoFar, HoldsItsGroup, ReadBack, Slice, Passes, Projected

LEMMA SoFarSkip ==
    ASSUME IInv, ScanPc, ScanSoFar, rgroups = groups, SkipGroup,
           UNCHANGED <<groups, starts, input>>
    PROVE  ScanSoFar'
<1>1. /\ spc = "next" /\ spc' = "next" /\ rg_' = rg_ + 1 /\ UNCHANGED <<skip_, given, rgroups>>
      /\ rg_ \in Nat /\ rg_ + 1 \in 1..Len(groups) /\ CanSkip(rg_ + 1)
      /\ Behind = rg_ /\ Behind' = rg_ + 1 /\ GivenSoFar
  BY DEF SkipGroup, readerVars, ScanPc, Behind, ScanSoFar
<1>2. \A i \in 1..groups[rg_ + 1].num_rows : ~Passes(Projected(input[starts[rg_ + 1] + i]))
  BY <1>1, SkippedRows
<1>3. ASSUME NEW b \in 1..Len(given)
      PROVE  HoldsItsGroup(given[b])' /\ given[b].rg <= rg_ + 1
  <2>1. HoldsItsGroup(given[b]) /\ given[b].rg <= rg_
    BY <1>1 DEF GivenSoFar
  <2>2. given[b].rg <= rg_ + 1
    BY <1>1, <2>1 DEF HoldsItsGroup
  <2> QED
    BY <1>1, <2>1, <2>2 DEF HoldsItsGroup, ReadBack, Slice
<1>4. ASSUME NEW g \in 1..rg_ + 1
      PROVE  \/ \E b \in 1..Len(given) : given[b].rg = g
             \/ \A i \in 1..groups[g].num_rows : ~Passes(Projected(input[starts[g] + i]))'
  <2>1. CASE g = rg_ + 1
    BY <1>1, <1>2, <2>1 DEF Passes, Projected
  <2>2. CASE g # rg_ + 1
    <3>1. g \in 1..Behind
      BY <1>1, <2>2
    <3> QED
      BY <1>1, <3>1 DEF GivenSoFar, Passes, Projected
  <2> QED
    BY <2>1, <2>2
<1>5. GivenSoFar'
  BY <1>1, <1>3, <1>4 DEF GivenSoFar
<1> QED
  BY <1>1, <1>5 DEF ScanSoFar, BatchSoFar

LEMMA SoFarBegin ==
    ASSUME ScanPc, ScanSoFar, BeginBatch, UNCHANGED <<groups, starts, input>>
    PROVE  ScanSoFar'
<1>1. /\ spc' = "read" /\ batch' = <<>> /\ UNCHANGED <<skip_, given>>
      /\ Behind' = Behind /\ Len(batch') = 0 /\ Len(ColIds) \in Nat
  BY ColIdsAreColumns DEF BeginBatch, ScanPc, Behind
<1>2. \A k \in 1..Len(batch') : ReadBack(rg_, ColIds[k], batch[k])'
  BY <1>1
<1>3. GivenSoFar'
  BY <1>1, GivenKept DEF ScanSoFar
<1> QED
  BY <1>1, <1>2, <1>3 DEF ScanSoFar, BatchSoFar

LEMMA SoFarRead ==
    ASSUME IInv, IInv', ScanInv, Current, rtypes # <<>>, rgroups = groups, ReadColumn,
           UNCHANGED <<groups, starts, input>>
    PROVE  ScanSoFar'
<1>1. /\ ScanPc /\ ScanSoFar /\ FooterShape /\ batch \in Seq(Seq(Int)) /\ Len(batch) \in Nat
      /\ spc = "read" /\ Len(batch) < Len(ColIds) /\ Len(ColIds) \in Nat
      /\ UNCHANGED <<rg_, skip_, given, rgroups>>
  BY ColIdsAreColumns DEF ScanInv, ReadColumn, ReadChunk
<1>2. PICK k \in 1..Len(ColIds) : k = Len(batch) + 1
  BY <1>1
<1>3. rg_ \in 1..Len(rgroups) /\ ColIds[k] \in 1..Len(rgroups[rg_].columns)
  <2>1. rg_ \in 1..Len(rgroups) /\ ColIds[k] \in 1..NCols /\ ColIds[k] <= Len(rtypes)
    BY <1>1, <1>2, ColIdsAreColumns DEF ScanPc
  <2>2. Len(rgroups[rg_].columns) = Len(rtypes) /\ Len(rtypes) \in Nat
    BY <1>1, <2>1 DEF FooterShape, IInv, TypeOK, ReaderTypeOK
  <2> QED
    BY <2>1, <2>2
<1>4. ReadChunk(rg_, ColIds[k])
  BY <1>2 DEF ReadColumn
<1>5. /\ got' = [rg |-> rg_, col |-> ColIds[k], how |-> "values", vals |-> got'.vals]
      /\ ReadBack(rg_, ColIds[k], got'.vals)
  BY <1>3, <1>4, ReadChunkWhenCurrent
<1>6. PICK v \in Seq(Int) : v = got'.vals
  BY DEF IInv, TypeOK, ReaderTypeOK
<1>7. spc' = "read" /\ batch' = Append(batch, v)
  BY <1>5, <1>6 DEF ReadColumn
<1>8. /\ batch' \in Seq(Seq(Int)) /\ Len(batch') = Len(batch) + 1 /\ batch'[k] = v
      /\ \A j \in 1..Len(batch) : batch'[j] = batch[j]
  BY <1>1, <1>2, <1>7, AppendProperties
<1>9. ASSUME NEW j \in 1..Len(batch') PROVE ReadBack(rg_, ColIds[j], batch[j])'
  <2>1. ReadBack(rg_, ColIds[j], batch'[j])
    <3>1. CASE j = k
      BY <1>5, <1>6, <1>8, <3>1
    <3>2. CASE j # k
      <4>1. j \in 1..Len(batch)
        BY <1>1, <1>2, <1>8, <3>2
      <4> QED
        BY <1>1, <1>8, <4>1 DEF ScanSoFar, BatchSoFar
    <3> QED
      BY <3>1, <3>2
  <2> QED
    BY <1>1, <2>1 DEF ReadBack, Slice
<1>10. Len(batch') <= Len(ColIds) /\ Behind' = Behind
  BY <1>1, <1>7, <1>8 DEF Behind
<1>11. GivenSoFar'
  BY <1>1, <1>10, GivenKept DEF ScanSoFar
<1> QED
  BY <1>7, <1>9, <1>10, <1>11 DEF ScanSoFar, BatchSoFar

LEMMA SoFarGive ==
    ASSUME ScanInv, ScanSoFar, rgroups = groups, GiveBatch,
           UNCHANGED <<groups, starts, input>>
    PROVE  ScanSoFar'
<1>1. /\ spc = "read" /\ spc' = "next" /\ UNCHANGED <<skip_, rg_, rgroups>>
      /\ rg_ \in Nat /\ rg_ \in 1..Len(groups) /\ Behind = rg_ - 1 /\ Behind' = rg_
      /\ Len(batch) = Len(ColIds) /\ GivenSoFar
      /\ \A k \in 1..Len(ColIds) : ReadBack(rg_, ColIds[k], batch[k])
      /\ given \in Seq(Batch) /\ batch \in Seq(Seq(Int))
  BY DEF GiveBatch, readerVars, ScanInv, ScanPc, Behind, ScanSoFar, BatchSoFar
<1>2. PICK n : n = Len(given)
  OBVIOUS
<1>3. PICK new : /\ new = [rg |-> rg_, num_rows |-> groups[rg_].num_rows, columns |-> batch]
                 /\ given' = Append(given, new)
  BY DEF GiveBatch
<1>4. /\ n \in Nat /\ Len(given') = n + 1 /\ given'[n + 1] = new
      /\ \A b \in 1..n : given'[b] = given[b]
  BY <1>1, <1>2, <1>3
<1>5. HoldsItsGroup(new)' /\ new.rg = rg_
  BY <1>1, <1>3 DEF HoldsItsGroup, ReadBack, Slice
<1>6. ASSUME NEW b \in 1..n
      PROVE  HoldsItsGroup(given[b])' /\ given[b].rg < rg_ /\ given[b].rg \in Int
  <2>1. HoldsItsGroup(given[b]) /\ given[b].rg <= rg_ - 1
    BY <1>1, <1>2 DEF GivenSoFar
  <2>2. given[b].rg < rg_ /\ given[b].rg \in Int
    BY <1>1, <2>1 DEF HoldsItsGroup
  <2> QED
    BY <1>1, <1>4, <2>1, <2>2 DEF HoldsItsGroup, ReadBack, Slice
<1>7. ASSUME NEW b \in 1..n + 1 PROVE HoldsItsGroup(given[b])' /\ given'[b].rg <= rg_
  <2>1. CASE b = n + 1
    <3>1. given'[b] = new /\ rg_ <= rg_
      BY <1>1, <1>4, <2>1
    <3> QED
      BY <1>5, <3>1
  <2>2. CASE b # n + 1
    <3>1. b \in 1..n
      BY <1>4, <2>2
    <3>2. given'[b] = given[b]
      BY <1>4, <3>1
    <3> QED
      BY <1>1, <1>6, <3>1, <3>2
  <2> QED
    BY <2>1, <2>2
<1>8. ASSUME NEW a \in 1..n + 1, NEW b \in 1..n + 1, a < b
      PROVE  given'[a].rg < given'[b].rg
  <2>1. a \in 1..n
    BY <1>4, <1>8
  <2>2. CASE b = n + 1
    BY <1>4, <1>5, <1>6, <2>1, <2>2
  <2>3. CASE b # n + 1
    <3>1. b \in 1..n
      BY <1>4, <2>3
    <3> QED
      BY <1>1, <1>2, <1>4, <1>8, <2>1, <3>1 DEF GivenSoFar
  <2> QED
    BY <2>2, <2>3
<1>9. ASSUME NEW g \in 1..rg_
      PROVE  \/ \E b \in 1..n + 1 : given'[b].rg = g
             \/ \A i \in 1..groups[g].num_rows : ~Passes(Projected(input[starts[g] + i]))'
  <2>1. CASE g = rg_
    <3>1. n + 1 \in 1..n + 1
      BY <1>4
    <3> QED
      BY <1>4, <1>5, <2>1, <3>1
  <2>2. CASE g # rg_
    <3>1. g \in 1..Behind
      BY <1>1, <2>2
    <3>2. CASE \E b \in 1..n : given[b].rg = g
      <4>1. PICK b \in 1..n : given[b].rg = g
        BY <3>2
      <4>2. b \in 1..n + 1 /\ given'[b] = given[b]
        BY <1>4
      <4> QED
        BY <4>1, <4>2
    <3>3. CASE \A i \in 1..groups[g].num_rows : ~Passes(Projected(input[starts[g] + i]))
      BY <1>1, <3>3 DEF Passes, Projected
    <3> QED
      BY <1>1, <1>2, <3>1, <3>2, <3>3 DEF GivenSoFar
  <2> QED
    BY <2>1, <2>2
<1>10. GivenSoFar'
  BY <1>1, <1>4, <1>7, <1>8, <1>9 DEF GivenSoFar
<1> QED
  BY <1>1, <1>10 DEF ScanSoFar, BatchSoFar

LEMMA SoFarEnd ==
    ASSUME ScanPc, ScanSoFar, EndScan, UNCHANGED <<groups, starts, input>>
    PROVE  ScanSoFar'
<1>1. /\ spc' = "done" /\ Behind' = Behind /\ UNCHANGED <<rg_, skip_, given, rgroups>>
      /\ rg_ = Len(rgroups)
  BY DEF EndScan, readerVars, ScanPc, Behind
<1>2. GivenSoFar'
  BY <1>1, GivenKept DEF ScanSoFar
<1> QED
  BY <1>1, <1>2 DEF ScanSoFar, BatchSoFar

LEMMA SoFarScan ==
    ASSUME IInv, IInv', ScanInv, ScanStep, UNCHANGED <<diskVars, writerVars>>,
           Current', rtypes' # <<>>
    PROVE  ScanSoFar'
<1>1. UNCHANGED <<gen, groups, starts, input>> /\ rpc' = "open" /\ ScanPc
  BY DEF diskVars, writerVars, Current, ScanInv
<1>2. CASE StartScan
  BY <1>1, <1>2, SoFarNothing DEF StartScan, ScanPc
<1>3. CASE /\ OpenHead \/ RejectHead \/ OpenWithoutFooter \/ OpenFooter \/ OpenGarbage
           /\ UNCHANGED scanVars
  <2>1. rpc \in {"closed", "checked"}
    BY <1>3 DEF OpenHead, RejectHead, OpenWithoutFooter, OpenFooter, OpenGarbage
  <2> QED
    BY <1>1, <1>3, <2>1, SoFarNothing DEF ScanPc, scanVars
<1>4. CASE SkipGroup \/ BeginBatch \/ ReadColumn \/ GiveBatch \/ EndScan
  <2>1. Current /\ rtypes # <<>>
    BY <1>1, <1>4 DEF SkipGroup, BeginBatch, ReadColumn, GiveBatch, EndScan, ReadChunk,
                      readerVars, Current
  <2>2. ScanSoFar /\ rgroups = groups
    BY <2>1, ShownStore DEF ScanInv
  <2> QED
    BY <1>1, <1>4, <2>1, <2>2, SoFarSkip, SoFarBegin, SoFarRead, SoFarGive, SoFarEnd
<1>5. ~LeaveScan
  BY <1>1 DEF LeaveScan, Leave
<1> QED
  BY <1>2, <1>3, <1>4, <1>5 DEF ScanStep

LEMMA ScanInvStep ==
    ASSUME IInv, IInv', ScanInv, [SNext]_svars
    PROVE  ScanInv'
<1>1. ASSUME Current', rtypes' # <<>> PROVE ScanSoFar'
  <2>1. CASE WriterNext /\ UNCHANGED <<readerVars, scanVars>>
    BY <1>1, <2>1, SoFarWriter
  <2>2. CASE ScanStep /\ UNCHANGED <<diskVars, writerVars>>
    BY <1>1, <2>2, SoFarScan
  <2>3. CASE UNCHANGED svars
    <3>1. /\ UNCHANGED <<scanVars, rgroups, groups, starts, input>>
          /\ Current /\ rtypes # <<>>
      BY <1>1, <2>3 DEF svars, vars, diskVars, writerVars, readerVars, Current
    <3> QED
      BY <3>1, SoFarKept DEF ScanInv
  <2> QED
    BY <2>1, <2>2, <2>3 DEF SNext
<1> QED
  BY <1>1, ScanTyped DEF ScanInv

LEMMA ScanInvInit == SInit => Init /\ ScanInv
<1> SUFFICES ASSUME SInit PROVE Init /\ ScanInv
  OBVIOUS
<1>1. /\ Init /\ spc = "none" /\ rg_ = 0 /\ skip_ = NoSkip /\ batch = <<>> /\ given = <<>>
      /\ rgroups = <<>> /\ Len(rgroups) = 0 /\ rpc = "closed"
  BY DEF SInit, ScanInit, Init, ReaderInit
<1>2. batch \in Seq(Seq(Int)) /\ given \in Seq(Batch)
  BY <1>1, EmptySeq
<1>3. FooterShape /\ ScanPc /\ ~Current
  BY <1>1 DEF FooterShape, ScanPc, Current
<1> QED
  BY <1>1, <1>2, <1>3 DEF ScanInv

(* A scan changes nothing in what the store may do, and every property of   *)
(* Store holds under it.                                                    *)
THEOREM ScanIsOfTheStore == SSpec => Spec /\ [](IInv /\ ScanInv)
<1>1. IInv /\ ScanInv /\ [SNext]_svars => [Next]_vars
  BY ScanIsStep
<1>2. IInv /\ [Next]_vars => IInv'
  BY WriterNextInv, ReaderNextInv, StutterInv DEF Next
<1>3. IInv /\ IInv' /\ ScanInv /\ [SNext]_svars => ScanInv'
  BY ScanInvStep
<1> QED
  BY <1>1, <1>2, <1>3, ScanInvInit, InitInv, PTL DEF SSpec, Spec

-----------------------------------------------------------------------------
(* What a finished scan has given, and what the metadata say. *)

LEMMA GridIsInvariant == Spec => []GridInv
<1>1. Init => GridInv
  BY InitRefines
<1>2. IInv /\ GridInv /\ [Next]_vars => GridInv'
  BY GridStep
<1> QED
  BY <1>1, <1>2, Invariance, PTL DEF Spec

(* Every row of a finished store is in a group. *)
LEMMA RowHasGroup ==
    ASSUME IInv, FooterWritten, NEW n \in 1..Len(input)
    PROVE  \E g \in 1..Len(groups) : n - starts[g] \in 1..groups[g].num_rows
<1>1. /\ TilesInv /\ buffered = 0 /\ groups # <<>> /\ groups \in Seq(RowGroupMeta)
      /\ starts \in Seq(Nat) /\ Len(starts) = Len(groups) /\ Len(groups) \in Nat
      /\ Len(input) \in Nat /\ WriterTypeOK
  BY DEF IInv, TypeOK, WriterTypeOK, PcInv, TilesInv
<1>2. \A g \in 1..Len(groups) : groups[g].num_rows \in Nat /\ starts[g] \in Nat
  BY <1>1, GroupTypes, ElementOfSeq
<1> DEFINE S == {g \in 1..Len(groups) : n <= starts[g] + groups[g].num_rows}
<1>3. Len(groups) \in S
  <2>1. Len(groups) \in 1..Len(groups)
    BY <1>1, EmptySeq
  <2>2. starts[Len(groups)] + groups[Len(groups)].num_rows = Len(input)
    BY <1>1, <2>1 DEF TilesInv
  <2> QED
    BY <1>1, <2>1, <2>2
<1>4. PICK g \in S : \A h \in S : g <= h
  <2>1. S \in SUBSET Int /\ S # {}
    BY <1>3
  <2>2. PICK lo \in Int : \A h \in S : lo <= h
    <3>1. 1 \in Int /\ \A h \in S : 1 <= h
      OBVIOUS
    <3> QED
      BY <3>1
  <2> HIDE DEF S
  <2> QED
    BY <2>1, <2>2, LeastElement
<1>5. g \in 1..Len(groups) /\ n <= starts[g] + groups[g].num_rows
  OBVIOUS
<1>6. starts[g] < n
  <2>1. CASE g = 1
    BY <1>1, <2>1 DEF TilesInv
  <2>2. CASE g # 1
    <3>1. g - 1 \in 1..Len(groups) /\ g - 1 # Len(groups) /\ (g - 1) + 1 = g /\ ~(g <= g - 1)
      BY <1>1, <1>5, <2>2
    <3>2. ~(n <= starts[g - 1] + groups[g - 1].num_rows)
      BY <1>4, <3>1
    <3>3. starts[g - 1] + groups[g - 1].num_rows = starts[g]
      BY <1>1, <3>1 DEF TilesInv
    <3> QED
      BY <1>2, <1>5, <3>2, <3>3
  <2> QED
    BY <2>1, <2>2
<1> QED
  BY <1>2, <1>5, <1>6

(* Groups follow each other. *)
LEMMA GroupsFollow ==
    ASSUME IInv, GridInv, NEW g \in 1..Len(groups), NEW h \in 1..Len(groups), g < h
    PROVE  starts[g] + groups[g].num_rows <= starts[h]
<1>1. PICK r \in Nat \ {0} : r = RowsPerGroup
  BY RowsPerGroupAssumption
<1>2. groups[g].num_rows \in Nat /\ groups[g].num_rows <= r /\ WriterTypeOK
  BY <1>1, GroupTypes DEF IInv, TypeOK, FullInv, GroupsAreFull
<1>3. starts[g] = (g - 1) * r /\ starts[h] = (h - 1) * r /\ g \in Nat /\ h \in Nat
  BY <1>1 DEF GridInv
<1>4. PICK d \in Nat : h - 1 = g + d
  <2>1. h - 1 - g \in Nat /\ h - 1 = g + (h - 1 - g)
    BY <1>3
  <2> QED
    BY <2>1
<1>5. (g - 1) * r + r = g * r /\ (g + d) * r = g * r + d * r
      /\ g * r \in Nat /\ d * r \in Nat /\ (g - 1) * r \in Int
  BY <1>3
<1>6. PICK s \in Int, e \in Int : s = (g - 1) * r /\ e = (h - 1) * r
  <2>1. (h - 1) * r \in Int
    BY <1>3
  <2> QED
    BY <1>5, <2>1
<1>7. s + r <= e
  <2>1. e = (g + d) * r
    BY <1>4, <1>6
  <2> QED
    BY <1>5, <1>6, <2>1
<1> QED
  BY <1>2, <1>3, <1>6, <1>7

LEMMA InvScan == IInv /\ GridInv /\ ScanInv => ScanGivesTheRows
<1> SUFFICES ASSUME IInv, GridInv, ScanInv, Current, rtypes # <<>>, spc = "done"
             PROVE  /\ \A b \in 1..Len(given) : HoldsItsGroup(given[b])
                    /\ \A a, b \in 1..Len(given) :
                         a < b => starts[given[a].rg] + given[a].num_rows
                                      <= starts[given[b].rg]
                    /\ \A n \in 1..Len(input) :
                         Passes(Projected(input[n])) =>
                             \E b \in 1..Len(given) :
                                 n - starts[given[b].rg] \in 1..given[b].num_rows
  BY DEF ScanGivesTheRows
<1>1. FooterWritten /\ rgroups = groups /\ GivenSoFar /\ Behind = Len(groups)
  BY ShownStore DEF ScanInv, ScanSoFar, Behind
<1>2. \A b \in 1..Len(given) : HoldsItsGroup(given[b])
  BY <1>1 DEF GivenSoFar
<1>3. ASSUME NEW a \in 1..Len(given), NEW b \in 1..Len(given), a < b
      PROVE  starts[given[a].rg] + given[a].num_rows <= starts[given[b].rg]
  <2>1. given[a].rg < given[b].rg
    BY <1>1, <1>3 DEF GivenSoFar
  <2> QED
    BY <1>2, <2>1, GroupsFollow DEF HoldsItsGroup
<1>4. ASSUME NEW n \in 1..Len(input), Passes(Projected(input[n]))
      PROVE  \E b \in 1..Len(given) : n - starts[given[b].rg] \in 1..given[b].num_rows
  <2>1. PICK g \in 1..Len(groups) : n - starts[g] \in 1..groups[g].num_rows
    BY <1>1, RowHasGroup
  <2>2. starts[g] + (n - starts[g]) = n
    <3>1. starts[g] \in Nat
      BY <2>1, ElementOfSeq DEF IInv, TypeOK, WriterTypeOK, TilesInv
    <3> QED
      BY <3>1
  <2>3. PICK b \in 1..Len(given) : given[b].rg = g
    BY <1>1, <1>4, <2>1, <2>2 DEF GivenSoFar
  <2> QED
    BY <1>2, <2>1, <2>3 DEF HoldsItsGroup
<1> QED
  BY <1>2, <1>3, <1>4

(* The loop of total_rows, group by group. *)
LEMMA TotalRows ==
    ASSUME IInv, Current, rtypes # <<>>
    PROVE  meta_total_rows = Len(input)
<1>1. /\ FooterWritten /\ rgroups = groups /\ groups # <<>> /\ buffered = 0 /\ TilesInv
      /\ Len(groups) \in Nat /\ starts \in Seq(Nat) /\ Len(starts) = Len(groups)
      /\ Len(input) \in Nat /\ WriterTypeOK
  BY ShownStore DEF IInv, PcInv, TypeOK, WriterTypeOK, TilesInv
<1>2. \A g \in 1..Len(groups) : groups[g].num_rows \in Nat /\ starts[g] \in Nat
  BY <1>1, GroupTypes, ElementOfSeq
<1> DEFINE n == Len(rgroups)
           End(g) == IF g = 0 THEN 0 ELSE starts[g] + groups[g].num_rows
           Sums(f) == f = [g \in 0..n |-> IF g = 0 THEN 0 ELSE f[g - 1] + rgroups[g].num_rows]
<1>3. n \in Nat /\ n = Len(groups) /\ n # 0 /\ End(n) = Len(input)
  <2>1. Len(groups) # 0 /\ Len(groups) \in 1..Len(groups)
    BY <1>1, EmptySeq
  <2> QED
    BY <1>1, <2>1 DEF TilesInv
<1>4. \A g \in 1..n : End(g) = End(g - 1) + rgroups[g].num_rows
  <2> SUFFICES ASSUME NEW g \in 1..n PROVE End(g) = End(g - 1) + rgroups[g].num_rows
    OBVIOUS
  <2>1. CASE g = 1
    BY <1>1, <1>2, <1>3, <2>1 DEF TilesInv
  <2>2. CASE g # 1
    <3>1. g - 1 \in 1..Len(groups) /\ g - 1 # Len(groups) /\ (g - 1) + 1 = g
      BY <1>3, <2>2
    <3>2. starts[g - 1] + groups[g - 1].num_rows = starts[g]
      BY <1>1, <3>1 DEF TilesInv
    <3> QED
      BY <1>1, <3>1, <3>2
  <2> QED
    BY <2>1, <2>2
<1>5. Sums(RowsUpTo)
  <2>1. PICK f : f = [g \in 0..n |-> End(g)]
    OBVIOUS
  <2>2. \A g \in 0..n : f[g] = IF g = 0 THEN 0 ELSE f[g - 1] + rgroups[g].num_rows
    <3> SUFFICES ASSUME NEW g \in 0..n
                 PROVE  f[g] = IF g = 0 THEN 0 ELSE f[g - 1] + rgroups[g].num_rows
      OBVIOUS
    <3>1. CASE g = 0
      BY <2>1, <3>1
    <3>2. CASE g # 0
      <4>1. g \in 1..n /\ g - 1 \in 0..n
        BY <1>3, <3>2
      <4>2. f[g] = End(g) /\ f[g - 1] = End(g - 1)
        BY <2>1, <4>1
      <4> HIDE DEF End
      <4> QED
        BY <1>4, <3>2, <4>1, <4>2
    <3> QED
      BY <3>1, <3>2
  <2>3. Sums(f)
    <3> HIDE DEF End
    <3>1. f = [g \in 0..n |-> f[g]]
      BY <2>1
    <3> QED
      BY <2>2, <3>1
  <2>4. RowsUpTo = CHOOSE f_1 : Sums(f_1)
    BY DEF RowsUpTo
  <2> HIDE DEF Sums
  <2> QED
    BY <2>3, <2>4
<1> DEFINE Wrong == {g \in 0..n : RowsUpTo[g] # End(g)}
<1>6. Wrong = {}
  <2> SUFFICES ASSUME Wrong # {} PROVE FALSE
    OBVIOUS
  <2>1. PICK g \in Wrong : \A h \in Wrong : g <= h
    <3>1. Wrong \in SUBSET Int
      BY <1>3
    <3>2. PICK lo \in Int : \A h \in Wrong : lo <= h
      <4>1. 0 \in Int /\ \A h \in Wrong : 0 <= h
        BY <1>3
      <4> QED
        BY <4>1
    <3> HIDE DEF Wrong
    <3> QED
      BY <3>1, <3>2, LeastElement
  <2>2. g \in 0..n /\ RowsUpTo[g] # End(g)
    OBVIOUS
  <2>3. RowsUpTo[g] = IF g = 0 THEN 0 ELSE RowsUpTo[g - 1] + rgroups[g].num_rows
    BY <1>5, <2>2
  <2>4. g # 0 /\ g \in 1..n /\ g - 1 \in 0..n /\ ~(g <= g - 1)
    BY <1>3, <2>2, <2>3
  <2>5. RowsUpTo[g - 1] = End(g - 1)
    BY <2>1, <2>4
  <2> HIDE DEF End
  <2> QED
    BY <1>4, <2>2, <2>3, <2>4, <2>5
<1>7. RowsUpTo[n] = End(n)
  <2>1. n \in 0..n
    BY <1>3
  <2> HIDE DEF End
  <2> QED
    BY <1>6, <2>1
<1> QED
  BY <1>3, <1>7 DEF meta_total_rows

LEMMA InvMetadata == IInv => MetadataIsTrue
<1> SUFFICES ASSUME IInv, Current, rtypes # <<>>
             PROVE  /\ meta_total_rows = Len(input)
                    /\ \A g \in 1..Len(rgroups), c \in 1..NCols :
                         \A i \in 1..rgroups[g].num_rows :
                             may_contain_int(g, c, Slice(g, c)[i])
  BY DEF MetadataIsTrue
<1>1. rtypes = Types /\ rgroups = groups
  BY ShownStore
<1>2. ASSUME NEW g \in 1..Len(groups), NEW c \in 1..NCols, NEW i \in 1..groups[g].num_rows
      PROVE  may_contain_int(g, c, Slice(g, c)[i])
  <2>1. PICK v, m : v = Slice(g, c)[i] /\ m = groups[g].columns[c]
    OBVIOUS
  <2>2. m.has_stats /\ Types[c] = "Int64" => v \in m.min_i..m.max_i
    BY <2>1, InvStats DEF StatsAreTheRange
  <2> QED
    BY <1>1, <2>1, <2>2 DEF may_contain_int, has_minmax
<1> QED
  BY <1>1, <1>2, TotalRows

(* The abstract table is implemented through a scan and a rewrite under it. *)
THEOREM ScanKeepsTable == SSpec => ImplementsTable
BY ScanIsOfTheStore, StoreImplementsTable, PTL

(* A scan that went through the store to its end, while the store it opened *)
(* is there, has returned every row that passes the predicate it skips      *)
(* groups by, once and in order, whatever it skipped; its integers as far   *)
(* as packing keeps them.                                                   *)
THEOREM ScanIsComplete == SSpec => []ScanGivesTheRows
BY ScanIsOfTheStore, GridIsInvariant, InvScan, PTL

(* TableMetadata count the rows of the CSV and deny no value that it holds. *)
THEOREM MetadataAreTrue == SSpec => []MetadataIsTrue
BY ScanIsOfTheStore, InvMetadata, PTL
=============================================================================
