---------------------------- MODULE CodecProofs ----------------------------
(***************************************************************************)
(* What bitpack_decode gives back of what bitpack_encode was given, bit by *)
(* bit, for bytes and words of any size; all of it, for any chunk whose    *)
(* values all fit the word that starts with their first byte; then, what   *)
(* decode_chunk makes of a chunk of any codec is the column encode_chunk   *)
(* was given, and the chunk written is the shortest.                       *)
(***************************************************************************)
EXTENDS Codecs, BitPack, LoopTheorems

(* Slots do not overlap. *)
LEMMA SlotOrder ==
    ASSUME NEW m \in Nat, NEW n \in Nat, NEW w \in Nat, m <= n
    PROVE  /\ m * w \in Nat /\ n * w \in Nat /\ m * w <= n * w
           /\ (m + 1) * w = m * w + w
<1>1. PICK d \in Nat : n = m + d
  <2>1. n - m \in Nat /\ n = m + (n - m)
    OBVIOUS
  <2> QED
    BY <2>1
<1>2. d * w \in Nat /\ m * w \in Nat
  OBVIOUS
<1>3. n * w = m * w + d * w
  BY <1>1
<1>4. (m + 1) * w = m * w + w
  OBVIOUS
<1> QED
  BY <1>2, <1>3, <1>4

(* Where the bits of a value go that is packed at position p: what the      *)
(* shift leaves of it into its own slot of w bits, and what an undefined    *)
(* shift may add into the ByteBits bits behind it.                          *)
LEMMA StoredBits ==
    ASSUME NEW w \in 0..WordBits, NEW p \in Nat, NEW v \in SUBSET Nat,
           NEW spill \in Spills(v, w, p)
    PROVE  /\ \A k \in 0..w-1 :
                p + k \in Stored(v, w, p) \cup spill <=> k \in v /\ k + Shift(p) < WordBits
           /\ \A b \in Stored(v, w, p) \cup spill :
                b \in Nat /\ p <= b /\ b < p + w + ByteBits
                /\ (~NinthByte(w, p) => b < p + w)
<1>1. Mask(w) = 0..w-1 /\ w \in Nat /\ ByteBits \in Nat /\ WordBits \in Nat
  BY BitsAssumption DEF Mask
<1>2. Shift(p) \in Nat
  BY BitsAssumption DEF Shift
<1>3. ASSUME NEW k \in 0..w-1
      PROVE  p + k \in Stored(v, w, p) <=> k \in v /\ k + Shift(p) < WordBits
  BY <1>1, <1>2 DEF Stored
<1>4. ASSUME NEW b \in Stored(v, w, p) PROVE b \in Nat /\ p <= b /\ b < p + w
  BY <1>1 DEF Stored
<1>5. ASSUME NEW b \in spill
      PROVE  /\ b \in Nat /\ p + w <= b /\ b < p + w + ByteBits
             /\ NinthByte(w, p)
  <2>1. NinthByte(w, p) /\ spill = {p + WordBits + k : k \in {j \in v \cap Mask(w) :
                                                                j + Shift(p) < ByteBits}}
    BY DEF Spills
  <2>2. PICK j \in 0..w-1 : b = p + WordBits + j /\ j + Shift(p) < ByteBits
    BY <1>1, <2>1
  <2>3. WordBits < Shift(p) + w
    BY <1>1, <1>2, <2>1 DEF NinthByte
  <2> QED
    BY <1>1, <1>2, <2>1, <2>2, <2>3
<1>6. ASSUME NEW k \in 0..w-1 PROVE p + k \notin spill
  BY <1>1, <1>5
<1> QED
  BY <1>1, <1>3, <1>4, <1>5, <1>6

(* What bitpack_decode makes of the slot at p: the bits the shift leaves,   *)
(* and in the first ByteBits, if its own shift is undefined, perhaps more.  *)
LEMMA LoadedBits ==
    ASSUME NEW w \in 0..WordBits, NEW p \in Nat, NEW b \in SUBSET Nat,
           NEW ghost \in Ghosts(b, w, p)
    PROVE  /\ Loaded(b, w, p) \cup ghost \subseteq Mask(w)
           /\ \A k \in 0..w-1 :
                ~NinthByte(w, p) \/ k >= ByteBits =>
                  (k \in Loaded(b, w, p) \cup ghost <=> p + k \in b /\ k + Shift(p) < WordBits)
<1>1. Mask(w) = 0..w-1 /\ w \in Nat /\ ByteBits \in Nat /\ WordBits \in Nat
  BY BitsAssumption DEF Mask
<1>2. Shift(p) \in Nat
  BY BitsAssumption DEF Shift
<1>3. ASSUME NEW k \in ghost
      PROVE  NinthByte(w, p) /\ k \in Mask(w) /\ k < ByteBits
  <2>1. /\ NinthByte(w, p)
        /\ ghost = {j \in Mask(w) : j + Shift(p) < ByteBits /\ p + WordBits + j \in b}
    BY DEF Ghosts
  <2> QED
    BY <1>1, <1>2, <2>1
<1>4. ASSUME NEW k \in 0..w-1
      PROVE  k \in Loaded(b, w, p) <=> p + k \in b /\ k + Shift(p) < WordBits
  BY <1>1 DEF Loaded
<1>5. Loaded(b, w, p) \subseteq Mask(w)
  BY DEF Loaded
<1> QED
  BY <1>1, <1>3, <1>4, <1>5

-----------------------------------------------------------------------------
LEMMA InitPack == PackInit => TypeOK /\ PackInv
<1> SUFFICES ASSUME PackInit PROVE TypeOK /\ PackInv
  OBVIOUS
<1> USE DEF PackInit
<1>1. values \in Seq(Word) /\ WordBits \in Nat
  BY InputsAssumption, BitsAssumption
<1>2. TypeOK
  <2>1. unpacked \in Seq(Word) /\ Len(values) \in Nat /\ 0 * width = 0
    BY <1>1, EmptySeq
  <2> QED
    BY <1>1, <2>1 DEF TypeOK
<1>3. PackInv
  <2>1. Packed(0)
    BY DEF Packed
  <2> QED
    BY <2>1 DEF PackInv
<1> QED
  BY <1>2, <1>3

LEMMA EncodeValuePack == TypeOK /\ PackInv /\ EncodeValue => TypeOK' /\ PackInv'
<1> SUFFICES ASSUME TypeOK, PackInv, EncodeValue PROVE TypeOK' /\ PackInv'
  OBVIOUS
<1>1. /\ stage = "encode" /\ count \in Nat /\ count < Len(values)
      /\ Len(values) \in Nat /\ width \in 0..WordBits /\ width \in Nat
      /\ bit_pos = count * width /\ bit_pos \in Nat /\ buf \subseteq Nat
      /\ count' = count + 1 /\ bit_pos' = bit_pos + width
      /\ UNCHANGED <<values, width, stage, unpacked>>
  BY BitsAssumption DEF TypeOK, EncodeValue
<1>2. PICK v : v = values[count + 1]
  OBVIOUS
<1>3. v \in Word /\ v \subseteq 0..WordBits-1
  <2>1. count + 1 \in 1..Len(values)
    BY <1>1
  <2>2. v \in Word
    BY <1>2, <2>1, ElementOfSeq DEF TypeOK
  <2> QED
    BY <2>2 DEF Word
<1>4. PICK spill \in Spills(v, width, bit_pos) :
        buf' = buf \cup Stored(v, width, bit_pos) \cup spill
  BY <1>2 DEF EncodeValue
<1>5. PICK T : /\ T = Stored(v, width, bit_pos) \cup spill
               /\ buf' = buf \cup T
  BY <1>4
<1>6. /\ \A k \in 0..width-1 :
           bit_pos + k \in T <=> k \in v /\ k + Shift(bit_pos) < WordBits
      /\ \A b \in T : /\ b \in Nat /\ bit_pos <= b /\ b < bit_pos + width + ByteBits
                      /\ ~NinthByte(width, bit_pos) => b < bit_pos + width
  <2>1. v \in SUBSET Nat
    BY <1>3, BitsAssumption
  <2> QED
    BY <1>1, <1>5, <2>1, StoredBits
<1>7. (count + 1) * width = bit_pos + width /\ (count + 1) - 1 = count
  BY <1>1, SlotOrder
<1>8. TypeOK'
  <2>1. buf' \subseteq Nat
    BY <1>1, <1>5, <1>6
  <2>2. count' \in 0..Len(values) /\ bit_pos' = count' * width
    BY <1>1, <1>7
  <2> QED
    BY <1>1, <2>1, <2>2 DEF TypeOK
<1>9. /\ Packed(count) /\ unpacked = <<>>
      /\ \A b \in buf : b < bit_pos + IF FitUpTo(count) THEN 0 ELSE ByteBits
  BY <1>1 DEF PackInv, Packed
<1>10. FitUpTo(count + 1) => FitUpTo(count) /\ ~NinthByte(width, bit_pos)
  <2>1. count \in 0..(count + 1) - 1 /\ 0..count-1 \subseteq 0..(count + 1) - 1
    BY <1>1
  <2> QED
    BY <1>1, <2>1 DEF FitUpTo
<1>11. ASSUME NEW m \in 1..count + 1, NEW k \in 0..width-1,
              FitUpTo(m - 1) \/ k >= ByteBits
       PROVE  (m - 1) * width + k \in buf' <=> HasBit(m, k)
  <2>1. CASE m = count + 1
    <3>1. (m - 1) * width = bit_pos /\ values[m] = v
      BY <1>1, <1>2, <1>7, <2>1
    <3>2. bit_pos + k \notin buf
      <4>1. FitUpTo(count) \/ k >= ByteBits
        BY <1>7, <1>11, <2>1
      <4> QED
        BY <1>1, <1>9, <4>1, BitsAssumption
    <3>3. bit_pos + k \in buf' <=> k \in v /\ k + Shift(bit_pos) < WordBits
      BY <1>5, <1>6, <3>2
    <3> QED
      BY <3>1, <3>3 DEF HasBit
  <2>2. CASE m # count + 1
    <3>1. m \in 1..count /\ m - 1 \in Nat /\ (m - 1) + 1 = m
      BY <1>1, <2>2
    <3>2. PICK s \in Nat : s = (m - 1) * width
      BY <1>1, <3>1, SlotOrder
    <3>3. m * width = s + width /\ m * width <= count * width
      BY <1>1, <3>1, <3>2, SlotOrder
    <3>4. s + k < bit_pos
      BY <1>1, <3>2, <3>3
    <3>5. s + k \in buf' <=> s + k \in buf
      BY <1>1, <1>5, <1>6, <3>4
    <3>6. s + k \in buf <=> HasBit(m, k)
      BY <1>9, <1>11, <3>1, <3>2 DEF Packed, SlotHolds
    <3> QED
      BY <3>2, <3>5, <3>6
  <2> QED
    BY <2>1, <2>2
<1>12. ASSUME NEW b \in buf'
       PROVE  b < (count + 1) * width + IF FitUpTo(count + 1) THEN 0 ELSE ByteBits
  <2>1. CASE b \in buf
    BY <1>1, <1>7, <1>9, <1>10, <2>1, BitsAssumption
  <2>2. CASE b \in T
    BY <1>1, <1>6, <1>7, <1>10, <2>2, BitsAssumption
  <2> QED
    BY <1>5, <2>1, <2>2
<1>13. Packed(count)'
  BY <1>1, <1>11, <1>12 DEF Packed, SlotHolds, HasBit, FitUpTo
<1>14. PackInv'
  BY <1>1, <1>9, <1>13 DEF PackInv
<1> QED
  BY <1>8, <1>14

LEMMA DecodeValuePack == TypeOK /\ PackInv /\ DecodeValue => TypeOK' /\ PackInv'
<1> SUFFICES ASSUME TypeOK, PackInv, DecodeValue PROVE TypeOK' /\ PackInv'
  OBVIOUS
<1>1. /\ stage = "decode" /\ count \in Nat /\ count < Len(values)
      /\ Len(values) \in Nat /\ width \in 0..WordBits /\ width \in Nat
      /\ bit_pos = count * width /\ bit_pos \in Nat /\ buf \subseteq Nat
      /\ count' = count + 1 /\ bit_pos' = bit_pos + width
      /\ UNCHANGED <<values, width, buf, stage>>
      /\ unpacked \in Seq(Word)
  BY BitsAssumption DEF TypeOK, DecodeValue
<1>a. PICK ghost \in Ghosts(buf, width, bit_pos) :
        unpacked' = Append(unpacked, Loaded(buf, width, bit_pos) \cup ghost)
  BY DEF DecodeValue
<1>2. PICK w : w = Loaded(buf, width, bit_pos) \cup ghost /\ unpacked' = Append(unpacked, w)
  BY <1>a
<1>3. w \in Word
  <2>1. Mask(width) \subseteq 0..WordBits-1
    BY <1>1, BitsAssumption DEF Mask
  <2>2. Loaded(buf, width, bit_pos) \subseteq Mask(width) /\ ghost \subseteq Mask(width)
    BY <1>2 DEF Loaded, Ghosts
  <2> QED
    BY <1>2, <2>1, <2>2 DEF Word
<1>4. /\ unpacked' \in Seq(Word) /\ Len(unpacked') = Len(unpacked) + 1
      /\ unpacked'[Len(unpacked) + 1] = w
      /\ \A n \in 1..Len(unpacked) : unpacked'[n] = unpacked[n]
  BY <1>1, <1>2, <1>3, AppendProperties
<1>5. TypeOK'
  <2>1. (count + 1) * width = bit_pos + width
    BY <1>1, SlotOrder
  <2> QED
    BY <1>1, <1>4, <2>1 DEF TypeOK
<1>6. Packed(Len(values)) /\ Len(unpacked) = count
  BY <1>1 DEF PackInv
<1>7. /\ w \subseteq Mask(width)
      /\ \A k \in 0..width-1 :
           ~NinthByte(width, bit_pos) \/ k >= ByteBits =>
             (k \in w <=> bit_pos + k \in buf /\ k + Shift(bit_pos) < WordBits)
  BY <1>1, <1>2, LoadedBits
<1>8. count + 1 \in 1..Len(values) /\ (count + 1) - 1 = count
  BY <1>1
<1>9. ASSUME NEW k \in 0..width-1, FitUpTo(count + 1) \/ k >= ByteBits
      PROVE  k \in w <=> HasBit(count + 1, k)
  <2>1. FitUpTo(count + 1) => FitUpTo(count) /\ ~NinthByte(width, bit_pos)
    <3>1. count \in 0..(count + 1) - 1 /\ 0..count-1 \subseteq 0..(count + 1) - 1
      BY <1>1
    <3> QED
      BY <1>1, <3>1 DEF FitUpTo
  <2>2. bit_pos + k \in buf <=> HasBit(count + 1, k)
    <3>1. SlotHolds(count + 1)
      BY <1>6, <1>8 DEF Packed
    <3> QED
      BY <1>1, <1>8, <1>9, <2>1, <3>1 DEF SlotHolds
  <2>3. HasBit(count + 1, k) => k + Shift(bit_pos) < WordBits
    BY <1>1, <1>8 DEF HasBit
  <2> QED
    BY <1>7, <1>9, <2>1, <2>2, <2>3
<1>10. ASSUME NEW n \in 1..Len(unpacked') PROVE ReadBits(n)'
  <2>1. CASE n = count + 1
    <3>1. unpacked'[n] = w
      BY <1>4, <1>6, <2>1
    <3> QED
      BY <1>1, <1>7, <1>9, <2>1, <3>1 DEF ReadBits, HasBit, FitUpTo
  <2>2. CASE n # count + 1
    <3>1. n \in 1..Len(unpacked)
      BY <1>1, <1>4, <1>6, <2>2
    <3>2. unpacked'[n] = unpacked[n] /\ ReadBits(n)
      BY <1>4, <3>1 DEF PackInv
    <3> QED
      BY <1>1, <3>2 DEF ReadBits, HasBit, FitUpTo
  <2> QED
    BY <2>1, <2>2
<1>11. Packed(Len(values))'
  BY <1>1, <1>6 DEF Packed, SlotHolds, HasBit, FitUpTo
<1>12. PackInv'
  BY <1>1, <1>4, <1>6, <1>10, <1>11 DEF PackInv
<1> QED
  BY <1>5, <1>12

(* The ends of the two loops. *)
LEMMA EndPack == TypeOK /\ PackInv /\ (EndEncode \/ EndDecode) => TypeOK' /\ PackInv'
<1> SUFFICES ASSUME TypeOK, PackInv, EndEncode \/ EndDecode PROVE TypeOK' /\ PackInv'
  OBVIOUS
<1>1. /\ UNCHANGED <<values, width, buf, unpacked>>
      /\ Len(values) \in Nat /\ width \in Nat /\ 0 * width = 0
  BY BitsAssumption DEF EndEncode, EndDecode, TypeOK
<1>2. TypeOK'
  BY <1>1 DEF EndEncode, EndDecode, TypeOK
<1>3. PackInv'
  <2>1. /\ Packed(Len(values))' <=> Packed(Len(values))
        /\ \A n : ReadBits(n)' <=> ReadBits(n)
    BY <1>1 DEF Packed, SlotHolds, ReadBits, HasBit, FitUpTo
  <2>2. CASE EndEncode
    <3>1. Packed(Len(values)) /\ unpacked = <<>> /\ Len(unpacked) = 0
      BY <2>2 DEF PackInv, EndEncode
    <3> QED
      BY <1>1, <2>1, <2>2, <3>1 DEF PackInv, EndEncode
  <2>3. CASE EndDecode
    BY <1>1, <2>1, <2>3 DEF PackInv, EndDecode
  <2> QED
    BY <2>2, <2>3
<1> QED
  BY <1>2, <1>3

-----------------------------------------------------------------------------
(* Each value of a chunk has a slot of width bits in the buffer, which      *)
(* holds what the shift leaves of it, and what is unpacked is what the      *)
(* slots hold, for any width.  An undefined shift of a value disturbs no    *)
(* value before it, and of those that follow and of itself no bit but the   *)
(* first ByteBits; it writes no further than ByteBits beyond its slot.      *)
THEOREM PackIsInvariant == PackSpec => [](TypeOK /\ PackInv)
<1>1. TypeOK /\ PackInv /\ UNCHANGED packVars => TypeOK' /\ PackInv'
  BY DEF TypeOK, PackInv, Packed, SlotHolds, ReadBits, HasBit, FitUpTo, packVars
<1>2. TypeOK /\ PackInv /\ [PackNext]_packVars => TypeOK' /\ PackInv'
  BY <1>1, EncodeValuePack, DecodeValuePack, EndPack DEF PackNext
<1> QED
  BY <1>2, InitPack, PTL DEF PackSpec

(* What bitpack_decode returns is what bitpack_encode was given, for every  *)
(* chunk in which no value needs the ninth byte.                            *)
THEOREM PackRoundTrip == PackSpec => []UnpackedIsPacked
<1>1. TypeOK /\ PackInv => UnpackedIsPacked
  <2> SUFFICES ASSUME TypeOK, PackInv, stage = "done", Fits
               PROVE  unpacked = [n \in 1..Len(values) |-> values[n] \cap Mask(width)]
    BY DEF UnpackedIsPacked
  <2>1. Len(unpacked) = Len(values) /\ unpacked \in Seq(Word) /\ Len(values) \in Nat
    BY DEF PackInv, TypeOK
  <2>2. Mask(width) = 0..width-1 /\ width \in Nat
    BY BitsAssumption DEF Mask, TypeOK
  <2>3. ASSUME NEW n \in 1..Len(values)
        PROVE  unpacked[n] = values[n] \cap Mask(width)
    <3>1. unpacked[n] \subseteq Mask(width)
      BY <2>1 DEF PackInv, ReadBits
    <3>2. FitUpTo(n) /\ ~NinthByte(width, (n - 1) * width)
      <4>1. n - 1 \in 0..Len(values)-1 /\ 0..n-1 \subseteq 0..Len(values)-1
        BY <2>1
      <4> QED
        BY <4>1 DEF Fits, FitUpTo
    <3>3. ASSUME NEW k \in 0..width-1 PROVE k \in unpacked[n] <=> k \in values[n]
      <4>1. k \in unpacked[n] <=> HasBit(n, k)
        BY <2>1, <3>2 DEF PackInv, ReadBits
      <4>2. PICK p \in Nat : p = (n - 1) * width
        BY <2>1, <2>2, SlotOrder
      <4>3. Shift(p) + width <= WordBits /\ Shift(p) \in Nat
        BY <2>2, <3>2, <4>2, BitsAssumption DEF NinthByte, Shift
      <4>4. k + Shift(p) < WordBits
        BY <2>2, <4>3, BitsAssumption
      <4> QED
        BY <4>1, <4>2, <4>4 DEF HasBit
    <3> QED
      BY <2>2, <3>1, <3>3
  <2> QED
    BY <2>1, <2>3
<1> QED
  BY <1>1, PackIsInvariant, PTL

(* Every chunk fits whose width leaves room for the shift, 57 bits or less  *)
(* with bytes of 8 bits and words of 64: the store keeps the values of a    *)
(* column that span less than 2^57 exactly.                                 *)
THEOREM NarrowFits == ASSUME TypeOK, width + ByteBits - 1 <= WordBits PROVE Fits
<1> SUFFICES ASSUME NEW n \in 0..Len(values)-1 PROVE ~NinthByte(width, n * width)
  BY DEF Fits, FitUpTo
<1>1. width \in Nat /\ Len(values) \in Nat /\ n \in Nat
  BY BitsAssumption DEF TypeOK
<1>2. PICK p \in Nat : p = n * width
  BY <1>1, SlotOrder
<1>3. Shift(p) \in 0..ByteBits-1
  BY BitsAssumption DEF Shift
<1>4. ~NinthByte(width, p)
  BY <1>1, <1>3, BitsAssumption DEF NinthByte
<1> QED
  BY <1>2, <1>4

-----------------------------------------------------------------------------
(* Arithmetic that wraps around. *)

(* Where a value goes that does not need the ninth byte, nothing is cut off *)
(* and the ninth byte is not touched.                                       *)
LEMMA StoredWhole ==
    ASSUME NEW w \in 0..WordBits, NEW p \in Nat, ~NinthByte(w, p)
    PROVE  /\ \A v : Spills(v, w, p) = {{}} /\ Stored(v, w, p) = {p + k : k \in v \cap 0..w-1}
           /\ \A b : Ghosts(b, w, p) = {{}} /\ Loaded(b, w, p) = {k \in 0..w-1 : p + k \in b}
<1>1. Mask(w) = 0..w-1
  BY BitsAssumption DEF Mask
<1>2. Shift(p) \in Nat /\ Shift(p) + w <= WordBits
  BY BitsAssumption DEF Shift, NinthByte
<1>3. \A k \in 0..w-1 : k + Shift(p) < WordBits
  BY <1>2, BitsAssumption
<1>4. ASSUME NEW v
      PROVE  Spills(v, w, p) = {{}} /\ Stored(v, w, p) = {p + k : k \in v \cap 0..w-1}
  <2>1. {j \in v \cap 0..w-1 : j + Shift(p) < WordBits} = v \cap 0..w-1
    BY <1>3
  <2> QED
    BY <1>1, <2>1 DEF Spills, Stored
<1>5. ASSUME NEW b
      PROVE  Ghosts(b, w, p) = {{}} /\ Loaded(b, w, p) = {k \in 0..w-1 : p + k \in b}
  BY <1>1, <1>3 DEF Ghosts, Loaded
<1> QED
  BY <1>4, <1>5

-----------------------------------------------------------------------------
(* Powers of two and words as numbers. *)

LEMMA Pow2Unfolds ==
    /\ Pow2[0] = 1
    /\ \A k \in 1..WordBits : Pow2[k] = 2 * Pow2[k - 1]
    /\ \A k \in 0..WordBits : Pow2[k] \in Nat \ {0}
<1> DEFINE Unfolds(f) == f = [k \in 0..WordBits |-> IF k = 0 THEN 1 ELSE 2 * f[k - 1]]
<1>0. WordBits \in Nat
  BY BitsAssumption
<1>1. \E f : Unfolds(f)
  <2> DEFINE F == [k \in 1..WordBits |-> [x \in Nat |-> 2 * x]]
  <2>1. F \in [1..WordBits -> [Nat -> Nat]] /\ 1 \in Nat
    OBVIOUS
  <2>2. \A k \in 1..WordBits : \A x \in Nat : F[k][x] = 2 * x
    OBVIOUS
  <2> HIDE DEF F
  <2>3. PICK g \in [0..WordBits -> Nat] : Rounds(g, WordBits, 1, F)
    BY <1>0, <2>1, RoundsExist
  <2>4. \A k \in 1..WordBits : k - 1 \in 0..WordBits /\ g[k - 1] \in Nat
    BY <1>0
  <2>5. \A k \in 1..WordBits : g[k] = 2 * g[k - 1]
    BY <2>2, <2>3, <2>4 DEF Rounds
  <2>6. \A k \in 0..WordBits : g[k] = IF k = 0 THEN 1 ELSE 2 * g[k - 1]
    BY <2>3, <2>5 DEF Rounds
  <2>7. g = [k \in 0..WordBits |-> IF k = 0 THEN 1 ELSE 2 * g[k - 1]]
    BY <2>6
  <2> QED
    BY <2>7
<1>2. Pow2 = CHOOSE f : Unfolds(f)
  BY DEF Pow2
<1>3. Unfolds(Pow2)
  <2> HIDE DEF Unfolds
  <2> QED
    BY <1>1, <1>2
<1>4. Pow2[0] = 1 /\ \A k \in 1..WordBits : Pow2[k] = 2 * Pow2[k - 1]
  BY <1>0, <1>3
<1>5. \A k \in 0..WordBits : Pow2[k] \in Nat \ {0}
  <2>1. \A k \in 1..WordBits : Pow2[k - 1] \in Nat \ {0} => Pow2[k] \in Nat \ {0}
    BY <1>4
  <2>2. Pow2[0] \in Nat \ {0}
    BY <1>4
  <2> QED
    BY <1>0, <2>1, <2>2, EveryRound
<1> QED
  BY <1>4, <1>5

LEMMA Pow2Grows ==
    ASSUME NEW j \in 0..WordBits, NEW k \in 0..WordBits, j <= k
    PROVE  Pow2[j] <= Pow2[k] /\ Pow2[j] \in Nat \ {0} /\ Pow2[k] \in Nat \ {0}
<1>0. WordBits \in Nat
  BY BitsAssumption
<1> DEFINE P == {d \in 0..WordBits : j + d <= WordBits => Pow2[j] <= Pow2[j + d]}
<1>1. 0 \in P
  BY <1>0, Pow2Unfolds
<1>2. ASSUME NEW d \in 0..WordBits, d \in P, d < WordBits PROVE d + 1 \in P
  <2> SUFFICES ASSUME j + (d + 1) <= WordBits PROVE Pow2[j] <= Pow2[j + (d + 1)]
    BY <1>0, <1>2
  <2>1. PICK m \in Nat : m = j + d
    OBVIOUS
  <2>2. m \in 0..WordBits /\ m + 1 \in 1..WordBits /\ (m + 1) - 1 = m /\ j + (d + 1) = m + 1
    BY <1>0, <2>1
  <2>3. Pow2[j] <= Pow2[m]
    BY <1>2, <2>1, <2>2
  <2>4. Pow2[m + 1] = 2 * Pow2[m] /\ Pow2[m] \in Nat /\ Pow2[j] \in Nat
    BY <2>2, Pow2Unfolds
  <2> QED
    BY <2>2, <2>3, <2>4
<1>3. 0..WordBits \subseteq P
  <2> HIDE DEF P
  <2> QED
    BY <1>0, <1>1, <1>2, UpToN
<1>4. PICK d \in 0..WordBits : j + d = k
  <2>1. k - j \in 0..WordBits /\ j + (k - j) = k
    BY <1>0
  <2> QED
    BY <2>1
<1>5. Pow2[j] <= Pow2[j + d]
  BY <1>0, <1>3, <1>4
<1> QED
  BY <1>4, <1>5, Pow2Unfolds

LEMMA Halves ==
    /\ Half \in Nat \ {0} /\ 2 * Half = Pow2[WordBits]
    /\ Int64s \subseteq Int
    /\ \A x \in 0..2 * Half - 1 : Unsigned(x) = x
    /\ \A x \in Int64s : Wrapped(x) = x
<1>1. WordBits \in Nat \ {0}
  BY BitsAssumption
<1>2. PICK h \in Nat \ {0} : h = Half /\ 2 * h = Pow2[WordBits]
  <2>1. WordBits \in 1..WordBits /\ WordBits - 1 \in 0..WordBits
    BY <1>1
  <2> QED
    BY <2>1, Pow2Unfolds DEF Half
<1>3. \A x \in 0..2 * h - 1 : x % (2 * h) = x
  OBVIOUS
<1>4. \A x \in -h..h - 1 : ((x + h) % (2 * h)) - h = x
  <2>1. \A x \in -h..h - 1 : x + h \in 0..2 * h - 1 /\ (x + h) - h = x
    OBVIOUS
  <2> QED
    BY <1>3, <2>1
<1> QED
  BY <1>2, <1>3, <1>4 DEF Unsigned, Wrapped, Int64s

(* A bit more of a number. *)
LEMMA NextBit ==
    ASSUME NEW p \in Nat \ {0}, NEW n \in Nat
    PROVE  /\ n \div p \in Nat /\ n % p \in 0..p - 1
           /\ n % (2 * p) = (n % p) + (IF (n \div p) % 2 = 1 THEN p ELSE 0)
<1>1. PICK q \in Int, r \in 0..p - 1 : q = n \div p /\ r = n % p /\ n = q * p + r
  OBVIOUS
<1>2. q \in Nat
  <2> SUFFICES ASSUME q < 0 PROVE FALSE
    OBVIOUS
  <2>1. PICK e \in Nat : q = -1 - e
    <3>1. -1 - q \in Nat /\ q = -1 - (-1 - q)
      OBVIOUS
    <3> QED
      BY <3>1
  <2>2. PICK u \in Nat : u = e * p
    OBVIOUS
  <2>3. q * p = -p - u
    BY <2>1, <2>2
  <2> QED
    BY <1>1, <2>2, <2>3
<1>3. PICK d \in Int, b \in {0, 1} : q = 2 * d + b /\ b = q % 2
  BY <1>2
<1>4. PICK s \in 0..2 * p - 1 : s = r + (IF b = 1 THEN p ELSE 0)
  BY <1>1
<1>5. n = d * (2 * p) + s
  <2>1. PICK u \in Int : u = d * p
    OBVIOUS
  <2>2. d * (2 * p) = 2 * u
    BY <2>1
  <2>3. CASE b = 0
    <3>1. q = d + d
      BY <1>3, <2>3
    <3>2. q * p = u + u
      BY <2>1, <3>1
    <3> QED
      BY <1>1, <1>4, <2>2, <2>3, <3>2
  <2>4. CASE b = 1
    <3>1. q = d + d + 1
      BY <1>3, <2>4
    <3>2. q * p = u + u + p
      BY <2>1, <3>1
    <3> QED
      BY <1>1, <1>4, <2>2, <2>4, <3>2
  <2> QED
    BY <2>3, <2>4
<1>6. n % (2 * p) = s
  <2>1. 2 * p \in Nat \ {0}
    OBVIOUS
  <2>2. (d * (2 * p) + s) % (2 * p) = s
    BY <2>1, DivMod
  <2> QED
    BY <1>5, <2>2
<1> QED
  BY <1>1, <1>2, <1>3, <1>4, <1>6

(* A number that has w bits is the number of its word. *)
LEMMA WordsAreNumbers ==
    ASSUME NEW w \in 0..WordBits, NEW n \in 0..Pow2[w] - 1
    PROVE  NumberOf(WordOf(n) \cap 0..w - 1) = n
<1>0. WordBits \in Nat /\ w \in Nat
  BY BitsAssumption
<1>1. n \in Nat /\ \A k \in 0..WordBits : Pow2[k] \in Nat \ {0}
  BY Pow2Unfolds
<1> DEFINE bits == WordOf(n) \cap 0..w - 1
           Unfolds(f) == f = [k \in 0..WordBits |->
               IF k = 0 THEN 0 ELSE f[k - 1] + (IF k - 1 \in bits THEN Pow2[k - 1] ELSE 0)]
<1>2. \A k \in 1..WordBits : k <= w =>
        (k - 1 \in bits <=> (n \div Pow2[k - 1]) % 2 = 1)
  BY <1>0 DEF WordOf
<1>3. \A k \in 1..WordBits : k > w => k - 1 \notin bits
  BY <1>0
<1> HIDE DEF bits
<1>4. \E f : Unfolds(f)
  <2> DEFINE F == [k \in 1..WordBits |->
                     [x \in Nat |-> x + (IF k - 1 \in bits THEN Pow2[k - 1] ELSE 0)]]
  <2>1. \A k \in 1..WordBits : \A x \in Nat :
          x + (IF k - 1 \in bits THEN Pow2[k - 1] ELSE 0) \in Nat
    BY <1>0, <1>1
  <2>2. F \in [1..WordBits -> [Nat -> Nat]]
    BY <2>1
  <2>3. \A k \in 1..WordBits : \A x \in Nat :
          F[k][x] = x + (IF k - 1 \in bits THEN Pow2[k - 1] ELSE 0)
    OBVIOUS
  <2> HIDE DEF F
  <2>4. PICK g \in [0..WordBits -> Nat] : Rounds(g, WordBits, 0, F)
    BY <1>0, <2>2, RoundsExist
  <2>5. \A k \in 1..WordBits : g[k] = g[k - 1] + (IF k - 1 \in bits THEN Pow2[k - 1] ELSE 0)
    <3>1. \A k \in 1..WordBits : g[k - 1] \in Nat
      BY <1>0
    <3> QED
      BY <2>3, <2>4, <3>1 DEF Rounds
  <2>6. \A k \in 0..WordBits :
          g[k] = IF k = 0 THEN 0 ELSE g[k - 1] + (IF k - 1 \in bits THEN Pow2[k - 1] ELSE 0)
    BY <2>4, <2>5 DEF Rounds
  <2>7. Unfolds(g)
    BY <2>6
  <2> HIDE DEF Unfolds
  <2> QED
    BY <2>7
<1>5. PICK low : low = (CHOOSE f : Unfolds(f)) /\ NumberOf(bits) = low[WordBits]
  BY DEF NumberOf
<1>6. Unfolds(low)
  <2> HIDE DEF Unfolds
  <2> QED
    BY <1>4, <1>5
<1>7. /\ low[0] = 0
      /\ \A k \in 1..WordBits : low[k] = low[k - 1] + (IF k - 1 \in bits THEN Pow2[k - 1] ELSE 0)
  BY <1>0, <1>6
<1> DEFINE P == {k \in 0..WordBits : low[k] = IF k <= w THEN n % Pow2[k] ELSE n}
<1>8. 0 \in P
  BY <1>0, <1>1, <1>7, Pow2Unfolds
<1>9. ASSUME NEW k \in 0..WordBits, k \in P, k < WordBits PROVE k + 1 \in P
  <2>1. k + 1 \in 1..WordBits /\ (k + 1) - 1 = k /\ k + 1 \in 0..WordBits
    BY <1>0, <1>9
  <2>2. low[k + 1] = low[k] + (IF k \in bits THEN Pow2[k] ELSE 0)
    BY <1>7, <2>1
  <2>3. CASE k + 1 <= w
    <3>1. k \in bits <=> (n \div Pow2[k]) % 2 = 1
      BY <1>2, <2>1, <2>3
    <3>2. low[k] = n % Pow2[k]
      BY <1>0, <1>9, <2>3
    <3>3. n % (2 * Pow2[k]) = (n % Pow2[k]) + (IF (n \div Pow2[k]) % 2 = 1 THEN Pow2[k] ELSE 0)
      BY <1>1, NextBit
    <3>4. Pow2[k + 1] = 2 * Pow2[k]
      BY <2>1, Pow2Unfolds
    <3>5. low[k + 1] = n % Pow2[k + 1]
      BY <2>2, <3>1, <3>2, <3>3, <3>4
    <3> QED
      BY <2>1, <2>3, <3>5
  <2>4. CASE k + 1 > w
    <3>1. k \notin bits
      BY <1>3, <2>1, <2>4
    <3>2. low[k] = n
      <4>1. k <= w => k = w
        BY <1>0, <2>4
      <4>2. n % Pow2[w] = n
        BY <1>1
      <4> QED
        BY <1>9, <4>1, <4>2
    <3>3. low[k + 1] = n
      BY <1>1, <2>2, <3>1, <3>2
    <3> QED
      BY <1>0, <2>1, <2>4, <3>3
  <2> QED
    BY <1>0, <2>1, <2>3, <2>4
<1>10. low[WordBits] = n
  <2>1. 0..WordBits \subseteq P
    <3> HIDE DEF P
    <3> QED
      BY <1>0, <1>8, <1>9, UpToN
  <2>2. WordBits <= w => WordBits = w
    BY <1>0
  <2>3. n % Pow2[w] = n
    BY <1>1
  <2> QED
    BY <1>0, <2>1, <2>2, <2>3
<1> QED
  BY <1>5, <1>10 DEF bits

(* bits_for finds the bits of a number. *)
LEMMA BitsFor ==
    ASSUME NEW range \in 0..2 * Half - 1
    PROVE  /\ bits_for(range) \in 1..WordBits
           /\ range < Pow2[bits_for(range)]
           /\ \A k \in 1..WordBits : range < Pow2[k] => bits_for(range) <= k
<1>0. WordBits \in Nat \ {0}
  BY BitsAssumption
<1>1. \A k \in 0..WordBits : Pow2[k] \in Nat \ {0}
  BY Pow2Unfolds
<1>2. CASE range = 0
  BY <1>0, <1>1, <1>2 DEF bits_for
<1>3. CASE range # 0
  <2> DEFINE Is(b) == Pow2[b - 1] <= range /\ range < Pow2[b]
             P == {k \in 0..WordBits : range < Pow2[k] => \E b \in 1..WordBits : Is(b)}
  <2>1. 0 \in P
    BY <1>0, <1>3, Pow2Unfolds, Halves
  <2>2. ASSUME NEW k \in 0..WordBits, k \in P, k < WordBits PROVE k + 1 \in P
    <3>1. k + 1 \in 1..WordBits /\ (k + 1) - 1 = k /\ k + 1 \in 0..WordBits
      BY <1>0, <2>2
    <3>2. range \in Nat /\ Pow2[k] \in Nat
      BY <1>1, Halves
    <3>3. range < Pow2[k] \/ Pow2[k] <= range
      BY <3>2
    <3> QED
      BY <2>2, <3>1, <3>3
  <2>3. 0..WordBits \subseteq P
    <3> HIDE DEF P
    <3> QED
      BY <1>0, <2>1, <2>2, UpToN
  <2>4. \E b \in 1..WordBits : Is(b)
    <3>1. WordBits \in 0..WordBits /\ range < Pow2[WordBits]
      BY <1>0, Halves
    <3> QED
      BY <2>3, <3>1
  <2>5. bits_for(range) = CHOOSE b \in 1..WordBits : Is(b)
    BY <1>3 DEF bits_for
  <2> HIDE DEF Is
  <2>6. bits_for(range) \in 1..WordBits /\ Is(bits_for(range))
    BY <2>4, <2>5
  <2>7. PICK b \in 1..WordBits : b = bits_for(range) /\ Pow2[b - 1] <= range /\ range < Pow2[b]
    BY <2>6 DEF Is
  <2>8. ASSUME NEW k \in 1..WordBits, range < Pow2[k] PROVE b <= k
    <3> SUFFICES ASSUME k <= b - 1 PROVE FALSE
      BY <1>0
    <3>1. Pow2[k] <= Pow2[b - 1] /\ Pow2[k] \in Nat /\ Pow2[b - 1] \in Nat /\ range \in Nat
      <4>1. k \in 0..WordBits /\ b - 1 \in 0..WordBits
        BY <1>0
      <4> QED
        BY <4>1, Pow2Grows, Halves
    <3> QED
      BY <2>7, <2>8, <3>1
  <2> QED
    BY <2>7, <2>8
<1> QED
  BY <1>2, <1>3

-----------------------------------------------------------------------------
(* Packed chunks. *)

LEMMA LenFromDomain ==
    ASSUME NEW n \in Nat, NEW S, NEW f \in [1..n -> S]
    PROVE  f \in Seq(S) /\ Len(f) = n
<1>1. f \in Seq(S)
  OBVIOUS
<1>2. DOMAIN f = 1..n /\ DOMAIN f = 1..Len(f) /\ Len(f) \in Nat
  BY <1>1, LenProperties
<1> QED
  BY <1>1, <1>2

(* When none of its numbers needs the ninth byte, there is one way to pack  *)
(* a chunk, one way to unpack it, and this gives back the numbers.          *)
LEMMA PackedComesBack ==
    ASSUME NEW n \in Nat, NEW w \in 0..WordBits, NEW ns \in [1..n -> 0..Pow2[w] - 1],
           FitWords(n, w), NEW b \in PackAll(ns, w)
    PROVE  UnpackAll(b, n, w) = {ns}
<1>0. WordBits \in Nat /\ w \in Nat /\ Len(ns) = n
  BY BitsAssumption, LenFromDomain
<1>a. \A i \in 1..n : ~NinthByte(w, (i - 1) * w)
  BY DEF FitWords
<1>1. \A i \in 1..n : (i - 1) * w \in Nat /\ i * w = (i - 1) * w + w
  <2> SUFFICES ASSUME NEW i \in 1..n PROVE (i - 1) * w \in Nat /\ i * w = (i - 1) * w + w
    OBVIOUS
  <2>1. PICK m \in Nat : m = i - 1 /\ m + 1 = i
    <3>1. i - 1 \in Nat /\ (i - 1) + 1 = i
      OBVIOUS
    <3> QED
      BY <3>1
  <2>2. m * w \in Nat /\ (m + 1) * w = m * w + w
    BY <1>0, SlotOrder
  <2> QED
    BY <2>1, <2>2
<1> DEFINE word(i) == {(i - 1) * w + k : k \in WordOf(ns[i]) \cap 0..w - 1}
<1>2. b = UNION {word(i) : i \in 1..n}
  <2> DEFINE stored(i) == Stored(WordOf(ns[i]), w, (i - 1) * w)
             spills(i) == Spills(WordOf(ns[i]), w, (i - 1) * w)
             spills1 == UNION {spills(i) : i \in 1..n}
  <2>1. \A i \in 1..n : stored(i) = word(i) /\ spills(i) = {{}}
    BY <1>a, <1>1, StoredWhole
  <2>2. PICK spilt \in SUBSET spills1 : b = UNION ({stored(i) : i \in 1..n} \cup spilt)
    BY <1>0 DEF PackAll
  <2> HIDE DEF stored, spills, word
  <2>3. {stored(i) : i \in 1..n} = {word(i) : i \in 1..n}
    BY <2>1
  <2>4. \A x \in spilt : x = {}
    BY <2>1
  <2>5. UNION ({word(i) : i \in 1..n} \cup spilt) = UNION {word(i) : i \in 1..n}
    BY <2>4
  <2> QED
    BY <2>2, <2>3, <2>5
<1>3. ASSUME NEW i \in 1..n, NEW k \in 0..w - 1
      PROVE  (i - 1) * w + k \in b <=> k \in WordOf(ns[i])
  <2>1. PICK p \in Nat : p = (i - 1) * w /\ i * w = p + w
    BY <1>1
  <2>2. k \in WordOf(ns[i]) => p + k \in b
    <3>1. k \in WordOf(ns[i]) => p + k \in word(i)
      BY <2>1
    <3> HIDE DEF word
    <3> QED
      BY <1>2, <3>1
  <2>3. ASSUME p + k \in b PROVE k \in WordOf(ns[i])
    <3>1. PICK j \in 1..n : p + k \in word(j)
      <4> HIDE DEF word
      <4> QED
        BY <1>2, <2>3
    <3>2. PICK l \in WordOf(ns[j]) \cap 0..w - 1 : p + k = (j - 1) * w + l
      BY <3>1
    <3>3. PICK q \in Nat : q = (j - 1) * w /\ j * w = q + w
      BY <1>1
    <3>4. ~(j < i)
      <4> SUFFICES ASSUME j < i PROVE FALSE
        OBVIOUS
      <4>1. PICK m \in Nat : m = i - 1 /\ j <= m /\ j \in Nat
        <5>1. i - 1 \in Nat /\ j <= i - 1 /\ j \in Nat
          OBVIOUS
        <5> QED
          BY <5>1
      <4>2. j * w <= m * w
        BY <1>0, <4>1, SlotOrder
      <4>3. q + w <= p
        BY <2>1, <3>3, <4>1, <4>2
      <4> QED
        BY <1>0, <3>2, <3>3, <4>3
    <3>5. ~(i < j)
      <4> SUFFICES ASSUME i < j PROVE FALSE
        OBVIOUS
      <4>1. PICK m \in Nat : m = j - 1 /\ i <= m /\ i \in Nat
        <5>1. j - 1 \in Nat /\ i <= j - 1 /\ i \in Nat
          OBVIOUS
        <5> QED
          BY <5>1
      <4>2. i * w <= m * w
        BY <1>0, <4>1, SlotOrder
      <4>3. p + w <= q
        BY <2>1, <3>3, <4>1, <4>2
      <4> QED
        BY <1>0, <3>2, <3>3, <4>3
    <3>6. i = j
      BY <3>4, <3>5
    <3>7. p = q
      BY <2>1, <3>3, <3>6
    <3>8. k = l
      BY <1>0, <3>2, <3>3, <3>7
    <3> QED
      BY <3>2, <3>6, <3>8
  <2> QED
    BY <2>1, <2>2, <2>3
<1>4. \A i \in 1..n : Ghosts(b, w, (i - 1) * w) = {{}}
  BY <1>a, <1>1, StoredWhole
<1>5. ASSUME NEW i \in 1..n PROVE NumberOf(Loaded(b, w, (i - 1) * w)) = ns[i]
  <2>1. Loaded(b, w, (i - 1) * w) = {k \in 0..w - 1 : (i - 1) * w + k \in b}
    <3>1. PICK p \in Nat : p = (i - 1) * w
      BY <1>1
    <3>2. ~NinthByte(w, p)
      BY <1>a, <3>1
    <3>3. Loaded(b, w, p) = {k \in 0..w - 1 : p + k \in b}
      BY <3>2, StoredWhole
    <3> QED
      BY <3>1, <3>3
  <2>2. {k \in 0..w - 1 : (i - 1) * w + k \in b} = WordOf(ns[i]) \cap 0..w - 1
    BY <1>3
  <2>3. ns[i] \in 0..Pow2[w] - 1
    OBVIOUS
  <2>4. NumberOf(WordOf(ns[i]) \cap 0..w - 1) = ns[i]
    BY <2>3, WordsAreNumbers
  <2> QED
    BY <2>1, <2>2, <2>4
<1> DEFINE ghosts(i) == Ghosts(b, w, (i - 1) * w)
           load(i) == Loaded(b, w, (i - 1) * w)
           given(i, haunted) == IF i \in haunted THEN UNION ghosts(i) ELSE {}
           haunts == SUBSET {i \in 1..n : ghosts(i) # {{}}}
           out(haunted) == [i \in 1..n |-> NumberOf(load(i) \cup given(i, haunted))]
<1>6. UnpackAll(b, n, w) = {out(haunted) : haunted \in haunts}
  BY DEF UnpackAll
<1>7. haunts = {{}}
  BY <1>4
<1>8. out({}) = ns
  <2>1. \A i \in 1..n : load(i) \cup given(i, {}) = load(i)
    OBVIOUS
  <2>2. \A i \in 1..n : NumberOf(load(i)) = ns[i]
    BY <1>5
  <2> HIDE DEF load, given
  <2>3. \A i \in 1..n : NumberOf(load(i) \cup given(i, {})) = ns[i]
    BY <2>1, <2>2
  <2>4. ns = [i \in 1..n |-> ns[i]]
    OBVIOUS
  <2> QED
    BY <2>3, <2>4
<1> HIDE DEF out, haunts
<1> QED
  BY <1>6, <1>7, <1>8

Packable(n, w, ns) ==
    n \in Nat /\ w \in 0..WordBits /\ ns \in [1..n -> 0..Pow2[w] - 1] /\ FitWords(n, w)

LEMMA PackableComesBack ==
    ASSUME NEW n, NEW w, NEW ns, Packable(n, w, ns), NEW b \in PackAll(ns, w)
    PROVE  UnpackAll(b, n, w) = {ns}
BY PackedComesBack DEF Packable

-----------------------------------------------------------------------------
(* Smallest and largest numbers, and numbers that wrap. *)

LEMMA SpreadOf ==
    ASSUME NEW lo \in Int, NEW hi \in Int, NEW s \in Seq(lo..hi), Len(s) # 0
    PROVE  /\ Min(ToSet(s)) \in lo..hi /\ Max(ToSet(s)) \in lo..hi
           /\ Min(ToSet(s)) <= Max(ToSet(s))
           /\ \A i \in 1..Len(s) : s[i] - Min(ToSet(s)) \in 0..Max(ToSet(s)) - Min(ToSet(s))
           /\ \E i \in 1..Len(s) : Min(ToSet(s)) = s[i]
           /\ \E i \in 1..Len(s) : Max(ToSet(s)) = s[i]
<1>1. Len(s) \in Nat \ {0} /\ \A i \in 1..Len(s) : s[i] \in lo..hi
  OBVIOUS
<1>2. PICK S : S = ToSet(s)
  OBVIOUS
<1>3. S = {s[i] : i \in 1..Len(s)}
  BY <1>2 DEF ToSet
<1>4. 1 \in 1..Len(s)
  BY <1>1
<1>5. S \in SUBSET (lo..hi) /\ S # {}
  BY <1>1, <1>3, <1>4
<1>6. PICK mn : mn = Min(S) /\ mn \in S /\ \A v \in S : mn <= v
  BY <1>5, LeastOf
<1>7. PICK mx : mx = Max(S) /\ mx \in S /\ \A v \in S : v <= mx
  BY <1>5, GreatestOf
<1>8. \A i \in 1..Len(s) : s[i] \in Int /\ mn <= s[i] /\ s[i] <= mx
  <2> SUFFICES ASSUME NEW i \in 1..Len(s) PROVE s[i] \in Int /\ mn <= s[i] /\ s[i] <= mx
    OBVIOUS
  <2>1. s[i] \in lo..hi /\ s[i] \in S
    BY <1>1, <1>3
  <2> QED
    BY <2>1, <1>6, <1>7
<1>9. mn \in lo..hi /\ mx \in lo..hi /\ mn <= mx
  BY <1>5, <1>6, <1>7
<1>10. \A i \in 1..Len(s) : s[i] - mn \in 0..mx - mn
  BY <1>8, <1>9
<1>11. (\E i \in 1..Len(s) : mn = s[i]) /\ (\E i \in 1..Len(s) : mx = s[i])
  BY <1>3, <1>6, <1>7
<1> QED
  BY <1>2, <1>6, <1>7, <1>9, <1>10, <1>11

(* Wrapping adds a multiple of 2^64, and there is one in range that does. *)
LEMMA WrappedIs ==
    ASSUME NEW v \in Int
    PROVE  /\ Wrapped(v) \in Int64s
           /\ \E q \in Int : Wrapped(v) = v + q * (2 * Half)
           /\ \A w \in Int64s, q \in Int : w = v + q * (2 * Half) => Wrapped(v) = w
<1>1. PICK h \in Nat \ {0} : h = Half
  BY Halves
<1>2. PICK m \in Nat \ {0} : m = 2 * h
  OBVIOUS
<1>3. PICK d \in Int, r \in 0..m - 1 : v + h = d * m + r /\ r = (v + h) % m
  <2>1. PICK x \in Int : x = v + h
    OBVIOUS
  <2>2. x \div m \in Int /\ x % m \in 0..m - 1 /\ x = (x \div m) * m + (x % m)
    OBVIOUS
  <2> QED
    BY <2>1, <2>2
<1>4. Wrapped(v) = r - h
  BY <1>1, <1>2, <1>3 DEF Wrapped
<1>5. r - h = v + (-d) * m
  BY <1>3
<1>6. r - h \in -h..h - 1
  BY <1>2
<1>7. ASSUME NEW w \in -h..h - 1, NEW q \in Int, w = v + q * m PROVE r - h = w
  <2>1. w \in Int /\ w + h \in 0..m - 1
    BY <1>2
  <2>2. v + h = (-q) * m + (w + h)
    BY <1>7, <2>1
  <2>3. ((-q) * m + (w + h)) % m = w + h
    <3>1. -q \in Int
      OBVIOUS
    <3> QED
      BY <2>1, <3>1, DivMod
  <2>4. r = w + h
    BY <1>3, <2>2, <2>3
  <2> QED
    BY <2>1, <2>4
<1>8. /\ Wrapped(v) \in -h..h - 1
      /\ \E q \in Int : Wrapped(v) = v + q * m
      /\ \A w \in -h..h - 1, q \in Int : w = v + q * m => Wrapped(v) = w
  BY <1>4, <1>5, <1>6, <1>7
<1> QED
  BY <1>1, <1>2, <1>8 DEF Int64s

(* So a difference added comes to the other number. *)
LEMMA DeltaAdded ==
    ASSUME NEW a \in Int64s, NEW b \in Int64s
    PROVE  Wrapped(a + Wrapped(b - a)) = b
<1>1. PICK m \in Nat \ {0} : m = 2 * Half
  BY Halves
<1>2. a \in Int /\ b \in Int
  BY Halves
<1>3. PICK x \in Int : x = b - a
  BY <1>2
<1>4. PICK q \in Int : Wrapped(x) = x + q * m
  BY <1>1, WrappedIs
<1>5. PICK y \in Int : y = Wrapped(x)
  BY Halves, WrappedIs
<1>6. PICK u \in Int : u = q * m
  OBVIOUS
<1>7. (-q) * m = -u
  BY <1>6
<1>8. b = (a + y) + (-q) * m
  BY <1>2, <1>3, <1>4, <1>5, <1>6, <1>7
<1>9. a + y \in Int /\ -q \in Int
  BY <1>2
<1>10. Wrapped(a + y) = b
  BY <1>1, <1>8, <1>9, WrappedIs
<1> QED
  BY <1>3, <1>5, <1>10

-----------------------------------------------------------------------------
(* The chunks of each codec: what is the same in all of them, and the       *)
(* numbers packed.  Then, that each is decoded to what was encoded.         *)

BitPackForm(c, n, mn, bw, ns) ==
    /\ c.type = "Int64" /\ c.vals \in Seq(Int64s) /\ n = Len(c.vals)
    /\ n \in Nat \ {0} /\ mn \in Int64s /\ bw \in 1..WordBits
    /\ ns \in [1..n -> 0..Pow2[bw] - 1]
    /\ \A i \in 1..n : mn + ns[i] = c.vals[i]
    /\ \E i, j \in 1..n : /\ c.vals[i] - c.vals[j] \in 0..2 * Half - 1
                         /\ bw = bits_for(c.vals[i] - c.vals[j])
    /\ try_bitpack(c) = {[codec |-> "BitPack", base |-> mn, bw |-> bw, cnt |-> n, bits |-> b] :
                            b \in PackAll(ns, bw)}

LEMMA BitPackChunks ==
    ASSUME NEW c \in Columns, try_bitpack(c) # {}
    PROVE  \E n, mn, bw, ns : BitPackForm(c, n, mn, bw, ns)
<1>1. c.type = "Int64" /\ c.vals # <<>>
  BY DEF try_bitpack
<1>2. PICK vals \in Seq(Int64s) : vals = c.vals
  BY <1>1, ColumnsAssumption
<1>3. PICK n \in Nat \ {0} : n = Len(vals)
  BY <1>1, <1>2, EmptySeq
<1>4. PICK h \in Nat \ {0} : h = Half /\ Int64s = -h..h - 1
  BY Halves DEF Int64s
<1>5. PICK mn \in Int64s, mx \in Int64s :
        /\ mn = Min(ToSet(vals)) /\ mx = Max(ToSet(vals)) /\ mn <= mx
        /\ \A i \in 1..n : vals[i] - mn \in 0..mx - mn
        /\ (\E i \in 1..n : mn = vals[i]) /\ (\E i \in 1..n : mx = vals[i])
  <2>1. -h \in Int /\ h - 1 \in Int /\ vals \in Seq(-h..h - 1) /\ Len(vals) # 0
    BY <1>3, <1>4
  <2>2. PICK mn, mx : mn = Min(ToSet(vals)) /\ mx = Max(ToSet(vals))
    OBVIOUS
  <2>3. /\ mn \in -h..h - 1 /\ mx \in -h..h - 1 /\ mn <= mx
        /\ \A i \in 1..Len(vals) : vals[i] - mn \in 0..mx - mn
        /\ (\E i \in 1..Len(vals) : mn = vals[i]) /\ (\E i \in 1..Len(vals) : mx = vals[i])
    BY <2>1, <2>2, SpreadOf
  <2> QED
    BY <1>3, <1>4, <2>2, <2>3
<1>6. PICK range \in 0..2 * h - 1 : range = mx - mn /\ Unsigned(mx - mn) = range
  <2>1. mx - mn \in 0..2 * h - 1
    BY <1>4, <1>5
  <2> QED
    BY <1>4, <2>1, Halves
<1>7. PICK bw \in 1..WordBits : bw = bits_for(range) /\ range < Pow2[bw]
  BY <1>4, <1>6, BitsFor
<1> DEFINE ns == [i \in 1..n |-> Unsigned(vals[i] - mn)]
<1>8. try_bitpack(c) = {[codec |-> "BitPack", base |-> mn, bw |-> bw, cnt |-> n, bits |-> b] :
                          b \in PackAll(ns, bw)}
  BY <1>1, <1>2, <1>3, <1>5, <1>6, <1>7 DEF try_bitpack
<1>9. \A i \in 1..n : ns[i] = vals[i] - mn /\ ns[i] \in 0..Pow2[bw] - 1
  <2> SUFFICES ASSUME NEW i \in 1..n PROVE ns[i] = vals[i] - mn /\ ns[i] \in 0..Pow2[bw] - 1
    OBVIOUS
  <2>1. PICK d \in 0..range : d = vals[i] - mn
    BY <1>5, <1>6
  <2>2. d \in 0..2 * Half - 1 /\ Pow2[bw] \in Nat
    BY <1>4, <1>6, Pow2Unfolds
  <2>3. Unsigned(d) = d
    BY <2>2, Halves
  <2>4. ns[i] = d
    BY <2>1, <2>3
  <2> QED
    BY <1>7, <2>1, <2>2, <2>4
<1>10. ns \in [1..n -> 0..Pow2[bw] - 1]
  <2>1. ns = [i \in 1..n |-> ns[i]]
    OBVIOUS
  <2> QED
    BY <1>9, <2>1
<1> HIDE DEF ns
<1>11. \A i \in 1..n : mn + ns[i] = vals[i]
  <2> SUFFICES ASSUME NEW i \in 1..n PROVE mn + ns[i] = vals[i]
    OBVIOUS
  <2>1. vals[i] \in Int64s
    BY <1>3
  <2> QED
    BY <1>4, <1>9, <2>1
<1>12. PICK i \in 1..n, j \in 1..n : mx = vals[i] /\ mn = vals[j]
  BY <1>5
<1>13. vals[i] - vals[j] \in 0..2 * Half - 1 /\ bw = bits_for(vals[i] - vals[j])
  BY <1>4, <1>6, <1>7, <1>12
<1>14. BitPackForm(c, n, mn, bw, ns)
  BY <1>1, <1>2, <1>3, <1>7, <1>8, <1>10, <1>11, <1>13 DEF BitPackForm
<1> QED
  BY <1>14

LEMMA BitPackComesBack ==
    ASSUME NEW c \in Columns, NEW ch \in try_bitpack(c), InWords(ch)
    PROVE  Decode(ch) = {Values(c.vals)}
<1>1. PICK n, mn, bw, ns : BitPackForm(c, n, mn, bw, ns)
  BY BitPackChunks
<1>2. PICK b \in PackAll(ns, bw) :
        ch = [codec |-> "BitPack", base |-> mn, bw |-> bw, cnt |-> n, bits |-> b]
  BY <1>1 DEF BitPackForm
<1>3. /\ ch.codec = "BitPack" /\ ch.cnt = n /\ ch.base = mn /\ ch.bw = bw /\ ch.bits = b
  BY <1>2
<1>4. UnpackAll(b, n, bw) = {ns}
  <2>1. FitWords(n, bw)
    BY <1>3 DEF InWords, Numbers
  <2>2. Packable(n, bw, ns)
    BY <1>1, <2>1, BitsAssumption DEF BitPackForm, Packable
  <2> QED
    BY <2>2, PackableComesBack
<1>5. Decode(ch) = {Values([i \in 1..n |-> Wrapped(mn + r[i])]) : r \in {ns}}
  <2>1. Decode(ch) = {Values([i \in 1..ch.cnt |-> Wrapped(ch.base + r[i])]) :
                        r \in UnpackAll(ch.bits, ch.cnt, ch.bw)}
    BY <1>3 DEF Decode
  <2> QED
    BY <1>3, <1>4, <2>1
<1>6. [i \in 1..n |-> Wrapped(mn + ns[i])] = c.vals
  <2>1. PICK vals \in Seq(Int64s) : vals = c.vals /\ n = Len(vals)
    BY <1>1 DEF BitPackForm
  <2>2. \A i \in 1..n : mn + ns[i] = vals[i] /\ vals[i] \in Int64s
    BY <1>1, <2>1 DEF BitPackForm
  <2>3. \A i \in 1..n : Wrapped(mn + ns[i]) = vals[i]
    BY <2>2, Halves
  <2>4. vals = [i \in 1..n |-> vals[i]]
    BY <2>1
  <2> QED
    BY <2>1, <2>3, <2>4
<1>7. Decode(ch) = {Values([i \in 1..n |-> Wrapped(mn + ns[i])])}
  BY <1>5
<1> QED
  BY <1>6, <1>7

(* The dictionary of a column has each of its values. *)
LEMMA DistinctHasAll ==
    ASSUME NEW T, NEW vals \in Seq(T)
    PROVE  /\ Distinct(vals) \in Seq(T) /\ Len(Distinct(vals)) <= Len(vals)
           /\ \A i \in 1..Len(vals) : Contains(Distinct(vals), vals[i])
<1>0. PICK n \in Nat : n = Len(vals)
  OBVIOUS
<1>1. \A k \in 1..n : vals[k] \in T
  BY <1>0
<1> DEFINE More(d, k) == IF Contains(d, vals[k]) THEN d ELSE Append(d, vals[k])
           Unfolds(f) == f = [i \in 0..n |-> IF i = 0 THEN <<>> ELSE More(f[i - 1], i)]
<1>2. \E f : Unfolds(f)
  <2> DEFINE F == [k \in 1..n |-> [d \in Seq(T) |-> More(d, k)]]
  <2>1. \A k \in 1..n : \A d \in Seq(T) : More(d, k) \in Seq(T)
    BY <1>1, AppendProperties
  <2>2. \A k \in 1..n : \A d \in Seq(T) : F[k][d] = More(d, k)
    OBVIOUS
  <2> HIDE DEF More
  <2>3. F \in [1..n -> [Seq(T) -> Seq(T)]]
    BY <2>1
  <2> HIDE DEF F
  <2>4. PICK g \in [0..n -> Seq(T)] : Rounds(g, n, <<>>, F)
    BY <2>3, EmptySeq, RoundsExist
  <2>5. \A k \in 1..n : g[k] = More(g[k - 1], k)
    <3>1. \A k \in 1..n : k - 1 \in 0..n
      OBVIOUS
    <3> QED
      BY <2>2, <2>4, <3>1 DEF Rounds
  <2>6. \A k \in 0..n : g[k] = IF k = 0 THEN <<>> ELSE More(g[k - 1], k)
    BY <2>4, <2>5 DEF Rounds
  <2>7. Unfolds(g)
    BY <2>6
  <2> HIDE DEF Unfolds
  <2> QED
    BY <2>7
<1>3. PICK dict : dict = (CHOOSE f : Unfolds(f)) /\ Distinct(vals) = dict[n]
  BY <1>0 DEF Distinct
<1>4. Unfolds(dict)
  <2> HIDE DEF Unfolds
  <2> QED
    BY <1>2, <1>3
<1>5. dict[0] = <<>> /\ \A k \in 1..n : dict[k] = More(dict[k - 1], k)
  <2> HIDE DEF More
  <2> QED
    BY <1>4
<1> HIDE DEF More, Unfolds
<1> DEFINE Good(k) == /\ dict[k] \in Seq(T) /\ Len(dict[k]) <= k
                      /\ \A i \in 1..k : Contains(dict[k], vals[i])
           P == {k \in 0..n : Good(k)}
<1>6. 0 \in P
  <2>1. dict[0] \in Seq(T) /\ Len(dict[0]) = 0
    BY <1>5, EmptySeq
  <2> QED
    BY <2>1
<1>7. ASSUME NEW k \in 0..n, k \in P, k < n PROVE k + 1 \in P
  <2>1. k + 1 \in 1..n /\ (k + 1) - 1 = k /\ k + 1 \in 0..n
    BY <1>7
  <2>2. PICK d \in Seq(T) : d = dict[k] /\ Len(d) <= k /\ \A i \in 1..k : Contains(d, vals[i])
    BY <1>7
  <2>3. PICK v \in T : v = vals[k + 1]
    BY <1>1, <2>1
  <2>4. dict[k + 1] = IF Contains(d, v) THEN d ELSE Append(d, v)
    BY <1>5, <2>1, <2>2, <2>3 DEF More
  <2>5. CASE Contains(d, v)
    <3>1. dict[k + 1] = d
      BY <2>4, <2>5
    <3>2. \A i \in 1..k + 1 : Contains(d, vals[i])
      BY <2>1, <2>2, <2>3, <2>5
    <3> QED
      BY <2>1, <2>2, <3>1, <3>2
  <2>6. CASE ~Contains(d, v)
    <3>1. dict[k + 1] = Append(d, v)
      BY <2>4, <2>6
    <3>2. PICK e \in Seq(T) : /\ e = Append(d, v) /\ Len(e) = Len(d) + 1
                              /\ \A i \in 1..Len(d) : e[i] = d[i]
                              /\ e[Len(d) + 1] = v
      BY AppendProperties
    <3>3. Len(d) \in Nat
      OBVIOUS
    <3>4. Contains(e, v)
      BY <3>2, <3>3 DEF Contains
    <3>5. \A x : Contains(d, x) => Contains(e, x)
      BY <3>2, <3>3 DEF Contains
    <3>6. \A i \in 1..k + 1 : Contains(e, vals[i])
      BY <2>1, <2>2, <2>3, <3>4, <3>5
    <3>7. dict[k + 1] = e /\ Len(e) <= k + 1
      BY <2>1, <2>2, <3>1, <3>2, <3>3
    <3>8. Good(k + 1)
      BY <3>2, <3>6, <3>7
    <3> QED
      BY <2>1, <3>8
  <2> QED
    BY <2>5, <2>6
<1>8. n \in P
  <2>1. 0..n \subseteq P
    <3> HIDE DEF P
    <3> QED
      BY <1>6, <1>7, UpToN
  <2> QED
    BY <2>1
<1> QED
  BY <1>0, <1>3, <1>8

DictForm(c, n, dict, bw, ns) ==
    /\ c.type = "String" /\ c.vals \in Seq(Seq(Chars)) /\ n = Len(c.vals)
    /\ n \in Nat \ {0} /\ dict \in Seq(Seq(Chars)) /\ Len(dict) \in 1..n
    /\ bw \in 1..WordBits /\ Len(dict) - 1 \in 0..2 * Half - 1 /\ bw = bits_for(Len(dict) - 1)
    /\ ns \in [1..n -> 0..Pow2[bw] - 1]
    /\ \A i \in 1..n : ns[i] \in 0..Len(dict) - 1 /\ dict[ns[i] + 1] = c.vals[i]
    /\ try_dict_string(c) =
         {[codec |-> "DictString", dict |-> dict, cnt |-> n, bw |-> bw, bits |-> b] :
            b \in PackAll(ns, bw)}

LEMMA DictChunks ==
    ASSUME NEW c \in Columns, try_dict_string(c) # {}
    PROVE  \E n, dict, bw, ns : DictForm(c, n, dict, bw, ns)
<1>1. c.type = "String" /\ c.vals # <<>>
  BY DEF try_dict_string
<1>2. PICK T : T = Seq(Chars)
  OBVIOUS
<1>3. PICK vals \in Seq(T) : vals = c.vals /\ Len(vals) < 2 * Half
  BY <1>1, <1>2, ColumnsAssumption
<1>4. PICK n \in Nat \ {0} : n = Len(vals)
  BY <1>1, <1>3, EmptySeq
<1>5. PICK dict \in Seq(T) : /\ dict = Distinct(vals) /\ Len(dict) <= n
                             /\ \A i \in 1..n : Contains(dict, vals[i])
  BY <1>4, DistinctHasAll
<1>6. PICK l \in Nat \ {0} : l = Len(dict)
  <2>1. Contains(dict, vals[1]) /\ Len(dict) \in Nat
    BY <1>5
  <2> QED
    BY <2>1 DEF Contains
<1>7. PICK bw \in 1..WordBits : bw = bits_for(l - 1) /\ l - 1 < Pow2[bw]
  <2>1. l - 1 \in 0..2 * Half - 1
    BY <1>3, <1>4, <1>5, <1>6, Halves
  <2> QED
    BY <2>1, BitsFor
<1> DEFINE Code(s) == CHOOSE i \in 0..Len(Distinct(c.vals)) - 1 : Distinct(c.vals)[i + 1] = s
           ns == [i \in 1..n |-> Code(vals[i])]
<1>8. try_dict_string(c) =
        {[codec |-> "DictString", dict |-> dict, cnt |-> n, bw |-> bw, bits |-> b] :
           b \in PackAll(ns, bw)}
  <2>1. try_dict_string(c) =
          {[codec |-> "DictString", dict |-> Distinct(c.vals), cnt |-> Len(c.vals),
            bw |-> bits_for(Len(Distinct(c.vals)) - 1), bits |-> b] :
             b \in PackAll([i \in 1..Len(c.vals) |-> Code(c.vals[i])],
                           bits_for(Len(Distinct(c.vals)) - 1))}
    BY <1>1 DEF try_dict_string
  <2> HIDE DEF Code
  <2>2. /\ [i \in 1..Len(c.vals) |-> Code(c.vals[i])] = ns
        /\ bits_for(Len(Distinct(c.vals)) - 1) = bw
        /\ Distinct(c.vals) = dict /\ Len(c.vals) = n
    BY <1>3, <1>4, <1>5, <1>6, <1>7
  <2> HIDE DEF ns
  <2> QED
    BY <2>1, <2>2
<1>9. ASSUME NEW i \in 1..n
      PROVE  ns[i] \in 0..l - 1 /\ dict[ns[i] + 1] = vals[i]
  <2>1. PICK s : s = vals[i]
    OBVIOUS
  <2>2. PICK k \in 1..l : dict[k] = s
    BY <1>5, <1>6, <2>1 DEF Contains
  <2>3. k - 1 \in 0..l - 1 /\ (k - 1) + 1 = k
    OBVIOUS
  <2>4. \E j \in 0..l - 1 : dict[j + 1] = s
    BY <2>2, <2>3
  <2>a. Distinct(c.vals) = dict /\ Len(Distinct(c.vals)) = l
    BY <1>3, <1>5, <1>6
  <2>5. Code(s) \in 0..l - 1 /\ dict[Code(s) + 1] = s
    <3>1. \E j \in 0..Len(Distinct(c.vals)) - 1 : Distinct(c.vals)[j + 1] = s
      BY <2>4, <2>a
    <3>2. /\ Code(s) \in 0..Len(Distinct(c.vals)) - 1
          /\ Distinct(c.vals)[Code(s) + 1] = s
      BY <3>1
    <3> HIDE DEF Code
    <3> QED
      BY <2>a, <3>2
  <2>6. ns[i] = Code(s)
    BY <2>1
  <2> HIDE DEF Code, ns
  <2> QED
    BY <2>1, <2>5, <2>6
<1>10. ns \in [1..n -> 0..Pow2[bw] - 1]
  <2>1. ns = [i \in 1..n |-> ns[i]]
    OBVIOUS
  <2>2. bw \in 0..WordBits
    BY BitsAssumption
  <2>3. Pow2[bw] \in Nat
    BY <2>2, Pow2Unfolds
  <2> HIDE DEF ns
  <2>4. \A i \in 1..n : ns[i] \in 0..Pow2[bw] - 1
    <3> SUFFICES ASSUME NEW i \in 1..n PROVE ns[i] \in 0..Pow2[bw] - 1
      OBVIOUS
    <3>1. ns[i] \in 0..l - 1
      BY <1>9
    <3> QED
      BY <1>7, <2>3, <3>1
  <2> QED
    BY <2>1, <2>4
<1> HIDE DEF ns
<1>11. l \in 1..n /\ l - 1 \in 0..2 * Half - 1
  BY <1>3, <1>4, <1>5, <1>6, Halves
<1>12. DictForm(c, n, dict, bw, ns)
  BY <1>1, <1>2, <1>3, <1>4, <1>5, <1>6, <1>7, <1>8, <1>9, <1>10, <1>11 DEF DictForm
<1> QED
  BY <1>12

LEMMA DictComesBack ==
    ASSUME NEW c \in Columns, NEW ch \in try_dict_string(c), InWords(ch)
    PROVE  Decode(ch) = {Values(c.vals)}
<1>1. PICK n, dict, bw, ns : DictForm(c, n, dict, bw, ns)
  BY DictChunks
<1>2. PICK b \in PackAll(ns, bw) :
        ch = [codec |-> "DictString", dict |-> dict, cnt |-> n, bw |-> bw, bits |-> b]
  BY <1>1 DEF DictForm
<1>3. /\ ch.codec = "DictString" /\ ch.cnt = n /\ ch.dict = dict /\ ch.bw = bw /\ ch.bits = b
  BY <1>2
<1>4. UnpackAll(b, n, bw) = {ns}
  <2>1. FitWords(n, bw)
    BY <1>3 DEF InWords, Numbers
  <2>2. Packable(n, bw, ns)
    BY <1>1, <2>1, BitsAssumption DEF DictForm, Packable
  <2> QED
    BY <2>2, PackableComesBack
<1>5. Decode(ch) = DecodeDict(ch)
  BY <1>3 DEF Decode
<1> DEFINE Out(r) == IF \E i \in 1..n : r[i] >= Len(dict) THEN Threw
                     ELSE Values([i \in 1..n |-> dict[r[i] + 1]])
<1>6. Decode(ch) = {Out(r) : r \in {ns}}
  BY <1>3, <1>4, <1>5 DEF DecodeDict
<1>7. Out(ns) = Values(c.vals)
  <2>1. PICK vals \in Seq(Seq(Chars)) : vals = c.vals /\ n = Len(vals)
    BY <1>1 DEF DictForm
  <2>2. \A i \in 1..n : ns[i] \in 0..Len(dict) - 1 /\ dict[ns[i] + 1] = vals[i]
    BY <1>1, <2>1 DEF DictForm
  <2>3. ~\E i \in 1..n : ns[i] >= Len(dict)
    <3> SUFFICES ASSUME NEW i \in 1..n, ns[i] >= Len(dict) PROVE FALSE
      OBVIOUS
    <3>1. ns[i] \in 0..Len(dict) - 1 /\ Len(dict) \in Nat
      BY <1>1, <2>2 DEF DictForm
    <3> QED
      BY <3>1
  <2>4. vals = [i \in 1..n |-> vals[i]]
    BY <2>1
  <2>5. [i \in 1..n |-> dict[ns[i] + 1]] = vals
    BY <2>2, <2>4
  <2> QED
    BY <2>1, <2>3, <2>5
<1>8. Decode(ch) = {Out(ns)}
  <2> HIDE DEF Out
  <2> QED
    BY <1>6
<1> QED
  BY <1>7, <1>8

(* The runs of a column, written out, are the column. *)
Run == [v : Int64s, l : Nat]
Copies(run)  == [k \in 1..run.l |-> run.v]
Written(rs)  == [i \in 1..Len(rs) |-> Copies(rs[i])]

LEMMA WrittenOf ==
    ASSUME NEW rs \in Seq(Run)
    PROVE  Written(rs) \in Seq(Seq(Int64s)) /\ Len(Written(rs)) = Len(rs)
<1>1. \A run \in Run : Copies(run) \in Seq(Int64s)
  BY DEF Run, Copies
<1>2. PICK n \in Nat : n = Len(rs) /\ \A i \in 1..n : rs[i] \in Run
  OBVIOUS
<1>3. Written(rs) \in [1..n -> Seq(Int64s)]
  <2>1. \A i \in 1..n : Copies(rs[i]) \in Seq(Int64s)
    BY <1>1, <1>2
  <2> QED
    BY <1>2, <2>1 DEF Written
<1>4. Written(rs) \in Seq(Seq(Int64s)) /\ Len(Written(rs)) = n
  BY <1>3, LenFromDomain
<1> QED
  BY <1>2, <1>4

LEMMA WrittenAppend ==
    ASSUME NEW rs \in Seq(Run), NEW run \in Run
    PROVE  /\ FlattenSeq(Written(rs)) \in Seq(Int64s) /\ Copies(run) \in Seq(Int64s)
           /\ FlattenSeq(Written(Append(rs, run))) = FlattenSeq(Written(rs)) \o Copies(run)
<1>1. Copies(run) \in Seq(Int64s)
  BY DEF Run, Copies
<1>2. PICK ss \in Seq(Seq(Int64s)) : ss = Written(rs) /\ Len(ss) = Len(rs)
  BY WrittenOf
<1>3. PICK n \in Nat : n = Len(rs)
  OBVIOUS
<1>4. PICK qs \in Seq(Run) : /\ qs = Append(rs, run) /\ Len(qs) = n + 1
                             /\ \A i \in 1..n : qs[i] = rs[i]
                             /\ qs[n + 1] = run
  BY <1>3, AppendProperties
<1>5. PICK tt \in Seq(Seq(Int64s)) : tt = Written(qs) /\ Len(tt) = n + 1
  BY <1>4, WrittenOf
<1>6. PICK uu \in Seq(Seq(Int64s)) : /\ uu = Append(ss, Copies(run)) /\ Len(uu) = n + 1
                                     /\ \A i \in 1..n : uu[i] = ss[i]
                                     /\ uu[n + 1] = Copies(run)
  <2>1. PICK x \in Seq(Int64s) : x = Copies(run)
    BY <1>1
  <2>2. /\ Append(ss, x) \in Seq(Seq(Int64s)) /\ Len(Append(ss, x)) = Len(ss) + 1
        /\ \A i \in 1..Len(ss) : Append(ss, x)[i] = ss[i]
        /\ Append(ss, x)[Len(ss) + 1] = x
    BY AppendProperties
  <2>3. Len(ss) = n
    BY <1>2, <1>3
  <2> QED
    BY <2>1, <2>2, <2>3
<1>7. tt = uu
  <2>1. \A i \in 1..n : ss[i] = Copies(rs[i])
    BY <1>2, <1>3 DEF Written
  <2>2. \A i \in 1..n + 1 : tt[i] = Copies(qs[i])
    BY <1>4, <1>5 DEF Written
  <2>3. ASSUME NEW i \in 1..n + 1 PROVE tt[i] = uu[i]
    <3>1. CASE i \in 1..n
      BY <1>4, <1>6, <2>1, <2>2, <3>1
    <3>2. CASE i = n + 1
      BY <1>4, <1>6, <2>2, <3>2
    <3> QED
      BY <3>1, <3>2
  <2> QED
    BY <1>5, <1>6, <2>3, SeqEqual
<1>8. FlattenSeq(ss) \in Seq(Int64s) /\ FlattenSeq(uu) = FlattenSeq(ss) \o Copies(run)
  BY <1>1, <1>6, FlattenAppend
<1> QED
  BY <1>1, <1>2, <1>4, <1>5, <1>7, <1>8

LEMMA WithRunAppends ==
    ASSUME NEW rs \in Seq(Run), NEW v \in Int64s
    PROVE  /\ WithRun(rs, v) \in Seq(Run)
           /\ FlattenSeq(Written(WithRun(rs, v))) = FlattenSeq(Written(rs)) \o <<v>>
<1>1. [v |-> v, l |-> 1] \in Run /\ Copies([v |-> v, l |-> 1]) = <<v>>
  <2>1. [v |-> v, l |-> 1] \in Run
    BY DEF Run
  <2>2. Copies([v |-> v, l |-> 1]) = [k \in 1..1 |-> v]
    BY DEF Copies
  <2>3. [k \in 1..1 |-> v] = <<v>>
    OBVIOUS
  <2> QED
    BY <2>1, <2>2, <2>3
<1>2. CASE ~(rs # <<>> /\ Last(rs).v = v /\ Last(rs).l < MaxRun)
  <2>1. WithRun(rs, v) = Append(rs, [v |-> v, l |-> 1])
    BY <1>2 DEF WithRun
  <2>2. PICK run \in Run : run = [v |-> v, l |-> 1] /\ Copies(run) = <<v>>
    BY <1>1
  <2>3. /\ Append(rs, run) \in Seq(Run)
        /\ FlattenSeq(Written(Append(rs, run))) = FlattenSeq(Written(rs)) \o Copies(run)
    BY WrittenAppend, AppendProperties
  <2> QED
    BY <2>1, <2>2, <2>3
<1>3. CASE rs # <<>> /\ Last(rs).v = v /\ Last(rs).l < MaxRun
  <2>1. PICK front \in Seq(Run), last \in Run : rs = Append(front, last)
    BY <1>3, SequenceEmptyOrAppend
  <2>2. PICK m \in Nat : m = Len(front)
    OBVIOUS
  <2>3. Len(rs) = m + 1 /\ rs[m + 1] = last /\ \A i \in 1..m : rs[i] = front[i]
    BY <2>1, <2>2, AppendProperties
  <2>4. last.v = v /\ last.l \in Nat /\ last = [v |-> v, l |-> last.l]
    BY <1>3, <2>3 DEF Last, Run
  <2>5. PICK longer \in Run : longer = [v |-> v, l |-> last.l + 1]
    <3>1. last.l + 1 \in Nat
      BY <2>4
    <3>2. [v |-> v, l |-> last.l + 1] \in Run
      BY <3>1 DEF Run
    <3> QED
      BY <3>2
  <2>6. WithRun(rs, v) = [rs EXCEPT ![m + 1] = longer]
    <3>1. [rs[m + 1] EXCEPT !.l = @ + 1] = longer
      BY <2>3, <2>4, <2>5
    <3>2. WithRun(rs, v) = [rs EXCEPT ![Len(rs)].l = @ + 1]
      BY <1>3 DEF WithRun
    <3> QED
      BY <2>3, <3>1, <3>2
  <2>7. PICK qs \in Seq(Run) : qs = WithRun(rs, v) /\ Len(qs) = m + 1 /\ qs[m + 1] = longer
                               /\ \A i \in 1..m : qs[i] = front[i]
    <3>1. m + 1 \in 1..Len(rs)
      BY <2>3
    <3>2. /\ [rs EXCEPT ![m + 1] = longer] \in Seq(Run)
          /\ Len([rs EXCEPT ![m + 1] = longer]) = Len(rs)
          /\ \A j \in 1..Len(rs) : [rs EXCEPT ![m + 1] = longer][j] =
                                     IF j = m + 1 THEN longer ELSE rs[j]
      BY <3>1, ExceptSeq
    <3>3. PICK ps : ps = [rs EXCEPT ![m + 1] = longer]
      OBVIOUS
    <3>4. ps \in Seq(Run) /\ Len(ps) = m + 1
          /\ \A j \in 1..m + 1 : ps[j] = IF j = m + 1 THEN longer ELSE rs[j]
      BY <2>3, <3>2, <3>3
    <3>5. \A i \in 1..m : ps[i] = front[i]
      BY <2>3, <3>4
    <3>6. WithRun(rs, v) = ps
      BY <2>6, <3>3
    <3> QED
      BY <3>4, <3>5, <3>6
  <2>8. qs = Append(front, longer)
    <3>1. /\ Append(front, longer) \in Seq(Run) /\ Len(Append(front, longer)) = m + 1
          /\ \A i \in 1..m : Append(front, longer)[i] = front[i]
          /\ Append(front, longer)[m + 1] = longer
      BY <2>2, AppendProperties
    <3>2. PICK ps \in Seq(Run) : ps = Append(front, longer) /\ Len(ps) = m + 1
                                 /\ ps[m + 1] = longer /\ \A i \in 1..m : ps[i] = front[i]
      BY <3>1
    <3>3. \A i \in 1..m + 1 : qs[i] = ps[i]
      BY <2>7, <3>2
    <3>4. qs = ps
      BY <2>7, <3>2, <3>3, SeqEqual
    <3> QED
      BY <3>2, <3>4
  <2>9. Copies(longer) = Copies(last) \o <<v>>
    <3>1. PICK k \in Nat : k = last.l
      BY <2>4
    <3>2. Copies(longer) = [j \in 1..k + 1 |-> v] /\ Copies(last) = [j \in 1..k |-> v]
      BY <2>4, <2>5, <3>1 DEF Copies
    <3>3. PICK s \in Seq(Int64s) : s = [j \in 1..k |-> v] /\ Len(s) = k
      <4>1. [j \in 1..k |-> v] \in [1..k -> Int64s]
        OBVIOUS
      <4> QED
        BY <4>1, LenFromDomain
    <3>4. PICK t \in Seq(Int64s) : t = [j \in 1..k + 1 |-> v] /\ Len(t) = k + 1
      <4>1. [j \in 1..k + 1 |-> v] \in [1..k + 1 -> Int64s] /\ k + 1 \in Nat
        OBVIOUS
      <4> QED
        BY <4>1, LenFromDomain
    <3>5. /\ Append(s, v) \in Seq(Int64s) /\ Append(s, v) = s \o <<v>>
          /\ Len(Append(s, v)) = k + 1
          /\ \A i \in 1..k : Append(s, v)[i] = s[i]
          /\ Append(s, v)[k + 1] = v
      BY <3>3, AppendProperties, AppendIsConcat
    <3>6. PICK u \in Seq(Int64s) : u = s \o <<v>> /\ Len(u) = k + 1
                                   /\ u[k + 1] = v /\ \A i \in 1..k : u[i] = s[i]
      BY <3>5
    <3>7. \A i \in 1..k + 1 : t[i] = u[i]
      BY <3>3, <3>4, <3>6
    <3>8. t = u
      BY <3>4, <3>6, <3>7, SeqEqual
    <3> QED
      BY <3>2, <3>3, <3>4, <3>6, <3>8
  <2>10. PICK f \in Seq(Int64s), a \in Seq(Int64s) :
           f = FlattenSeq(Written(front)) /\ a = Copies(last)
    BY WrittenAppend
  <2>11. FlattenSeq(Written(rs)) = f \o a /\ FlattenSeq(Written(qs)) = f \o Copies(longer)
    BY <2>1, <2>8, <2>10, WrittenAppend
  <2>12. (f \o a) \o <<v>> = f \o (a \o <<v>>)
    <3>1. <<v>> \in Seq(Int64s)
      OBVIOUS
    <3> QED
      BY <3>1, ConcatAssociative
  <2>13. FlattenSeq(Written(qs)) = FlattenSeq(Written(rs)) \o <<v>>
    BY <2>9, <2>10, <2>11, <2>12
  <2> QED
    BY <2>7, <2>13
<1> QED
  BY <1>2, <1>3

LEMMA RunsAreTheColumn ==
    ASSUME NEW vals \in Seq(Int64s)
    PROVE  Runs(vals) \in Seq(Run) /\ FlattenSeq(Written(Runs(vals))) = vals
<1>0. PICK n \in Nat : n = Len(vals)
  OBVIOUS
<1>1. \A k \in 1..n : vals[k] \in Int64s
  BY <1>0
<1> DEFINE Unfolds(f) == f = [i \in 0..n |-> IF i = 0 THEN <<>> ELSE WithRun(f[i - 1], vals[i])]
<1>2. \E f : Unfolds(f)
  <2> DEFINE F == [k \in 1..n |-> [d \in Seq(Run) |-> WithRun(d, vals[k])]]
  <2>1. \A k \in 1..n : \A d \in Seq(Run) : WithRun(d, vals[k]) \in Seq(Run)
    BY <1>1, WithRunAppends
  <2>2. \A k \in 1..n : \A d \in Seq(Run) : F[k][d] = WithRun(d, vals[k])
    OBVIOUS
  <2>3. F \in [1..n -> [Seq(Run) -> Seq(Run)]]
    BY <2>1
  <2> HIDE DEF F
  <2>4. PICK g \in [0..n -> Seq(Run)] : Rounds(g, n, <<>>, F)
    BY <2>3, EmptySeq, RoundsExist
  <2>5. \A k \in 1..n : g[k] = WithRun(g[k - 1], vals[k])
    <3>1. \A k \in 1..n : k - 1 \in 0..n
      OBVIOUS
    <3> QED
      BY <2>2, <2>4, <3>1 DEF Rounds
  <2>6. \A k \in 0..n : g[k] = IF k = 0 THEN <<>> ELSE WithRun(g[k - 1], vals[k])
    BY <2>4, <2>5 DEF Rounds
  <2>7. Unfolds(g)
    BY <2>6
  <2> HIDE DEF Unfolds
  <2> QED
    BY <2>7
<1>3. PICK runs : runs = (CHOOSE f : Unfolds(f)) /\ Runs(vals) = runs[n]
  BY <1>0 DEF Runs, RunsUpTo
<1>4. Unfolds(runs)
  <2> HIDE DEF Unfolds
  <2> QED
    BY <1>2, <1>3
<1>5. runs[0] = <<>> /\ \A k \in 1..n : runs[k] = WithRun(runs[k - 1], vals[k])
  BY <1>4
<1> HIDE DEF Unfolds
<1> DEFINE Good(k) == /\ runs[k] \in Seq(Run)
                      /\ FlattenSeq(Written(runs[k])) = SubSeq(vals, 1, k)
           P == {k \in 0..n : Good(k)}
<1>6. 0 \in P
  <2>1. Written(<<>>) = <<>> /\ FlattenSeq(<<>>) = <<>>
    <3>1. <<>> \in Seq(Run) /\ Len(<<>>) = 0
      BY EmptySeq
    <3>2. Written(<<>>) \in Seq(Seq(Int64s)) /\ Len(Written(<<>>)) = 0
      BY <3>1, WrittenOf
    <3>3. Written(<<>>) = <<>>
      BY <3>2, EmptySeq
    <3> QED
      BY <3>1, <3>3 DEF FlattenSeq
  <2>2. SubSeq(vals, 1, 0) = <<>>
    BY SubSeqEmpty
  <2>3. runs[0] = <<>> /\ <<>> \in Seq(Run)
    BY <1>5, EmptySeq
  <2>4. Good(0)
    BY <2>1, <2>2, <2>3
  <2> QED
    BY <2>4
<1>7. ASSUME NEW k \in 0..n, k \in P, k < n PROVE k + 1 \in P
  <2>1. k + 1 \in 1..n /\ (k + 1) - 1 = k /\ k + 1 \in 0..n
    BY <1>7
  <2>2. PICK rs \in Seq(Run) : rs = runs[k] /\ FlattenSeq(Written(rs)) = SubSeq(vals, 1, k)
    BY <1>7
  <2>3. PICK v \in Int64s : v = vals[k + 1]
    BY <1>1, <2>1
  <2>4. runs[k + 1] = WithRun(rs, v)
    BY <1>5, <2>1, <2>2, <2>3
  <2>5. /\ WithRun(rs, v) \in Seq(Run)
        /\ FlattenSeq(Written(WithRun(rs, v))) = SubSeq(vals, 1, k) \o <<v>>
    BY <2>2, WithRunAppends
  <2>6. SubSeq(vals, 1, k + 1) = SubSeq(vals, 1, k) \o <<v>>
    <3>1. 1 \in 1..Len(vals) /\ k + 1 \in 1..Len(vals)
      BY <1>0, <2>1
    <3>2. SubSeq(vals, 1, k + 1) = SubSeq(vals, 1, (k + 1) - 1) \o <<vals[k + 1]>>
      BY <3>1, SubSeqRecursiveSecond
    <3> QED
      BY <2>1, <2>3, <3>2
  <2>7. Good(k + 1)
    BY <2>4, <2>5, <2>6
  <2> QED
    BY <2>1, <2>7
<1>8. n \in P
  <2>1. 0..n \subseteq P
    <3> HIDE DEF P
    <3> QED
      BY <1>6, <1>7, UpToN
  <2> QED
    BY <2>1
<1>9. SubSeq(vals, 1, n) = vals
  BY <1>0, SubSeqFull
<1> QED
  BY <1>0, <1>3, <1>8, <1>9

LEMMA RleComesBack ==
    ASSUME NEW c \in Columns, NEW ch \in try_rle_int64(c)
    PROVE  Decode(ch) = {Values(c.vals)}
<1>1. c.type = "Int64" /\ ch = [codec |-> "RleInt64", runs |-> Runs(c.vals)]
  BY DEF try_rle_int64
<1>2. PICK vals \in Seq(Int64s) : vals = c.vals
  BY <1>1, ColumnsAssumption
<1>3. FlattenSeq(Written(Runs(vals))) = vals
  BY RunsAreTheColumn
<1>4. ch.codec = "RleInt64" /\ ch.runs = Runs(vals)
  BY <1>1, <1>2
<1>5. Decode(ch) = {Values(FlattenSeq(Written(ch.runs)))}
  BY <1>4 DEF Decode, Written, Copies
<1> QED
  BY <1>2, <1>3, <1>4, <1>5

(* The sums of the differences of a column are the column. *)
SumsOf(first, mn, cnt, r) ==
    LET v[i \in 0..cnt-1] == IF i = 0 THEN first ELSE Wrapped(v[i-1] + Wrapped(mn + r[i]))
    IN  [i \in 1..cnt |-> v[i-1]]

AreDeltas(mn, r, vals) ==
    \A i \in 1..Len(vals) - 1 : Wrapped(mn + r[i]) = Wrapped(vals[i + 1] - vals[i])

LEMMA SumsAreTheColumn ==
    ASSUME NEW vals \in Seq(Int64s), Len(vals) # 0, NEW mn, NEW r, AreDeltas(mn, r, vals)
    PROVE  SumsOf(vals[1], mn, Len(vals), r) = vals
<1>a. PICK n \in Nat \ {0} : n = Len(vals)
  OBVIOUS
<1>b. \A i \in 1..n - 1 : Wrapped(mn + r[i]) = Wrapped(vals[i + 1] - vals[i])
  BY <1>a DEF AreDeltas
<1> DEFINE Unfolds(f) == f = [i \in 0..n - 1 |->
               IF i = 0 THEN vals[1] ELSE Wrapped(f[i - 1] + Wrapped(mn + r[i]))]
<1>1. \A i \in 1..n : vals[i] \in Int64s
  BY <1>a
<1>2. \A i \in 1..n - 1 : Wrapped(vals[i] + Wrapped(mn + r[i])) = vals[i + 1]
  <2> SUFFICES ASSUME NEW i \in 1..n - 1
               PROVE  Wrapped(vals[i] + Wrapped(mn + r[i])) = vals[i + 1]
    OBVIOUS
  <2>1. vals[i] \in Int64s /\ vals[i + 1] \in Int64s
    BY <1>1
  <2>2. Wrapped(vals[i] + Wrapped(vals[i + 1] - vals[i])) = vals[i + 1]
    BY <2>1, DeltaAdded
  <2> QED
    BY <1>b, <2>2
<1>3. \E f : Unfolds(f)
  <2> DEFINE h == [i \in 0..n - 1 |-> vals[i + 1]]
  <2>1. ASSUME NEW i \in 0..n - 1
        PROVE  h[i] = IF i = 0 THEN vals[1] ELSE Wrapped(h[i - 1] + Wrapped(mn + r[i]))
    <3>1. CASE i = 0
      BY <3>1
    <3>2. CASE i # 0
      <4>1. i - 1 \in 0..n - 1 /\ i \in 1..n - 1 /\ (i - 1) + 1 = i
        BY <3>2
      <4>2. h[i] = vals[i + 1] /\ h[i - 1] = vals[i]
        BY <4>1
      <4> QED
        BY <1>2, <3>2, <4>1, <4>2
    <3> QED
      BY <3>1, <3>2
  <2>2. Unfolds(h)
    BY <2>1
  <2> HIDE DEF Unfolds
  <2> QED
    BY <2>2
<1>4. PICK v : v = (CHOOSE f : Unfolds(f)) /\ SumsOf(vals[1], mn, n, r) = [i \in 1..n |-> v[i - 1]]
  <2>1. SumsOf(vals[1], mn, n, r) = [i \in 1..n |-> (CHOOSE f : Unfolds(f))[i - 1]]
    BY DEF SumsOf
  <2> HIDE DEF Unfolds
  <2> QED
    BY <2>1
<1>5. Unfolds(v)
  <2> HIDE DEF Unfolds
  <2> QED
    BY <1>3, <1>4
<1>6. v[0] = vals[1] /\ \A i \in 1..n - 1 : v[i] = Wrapped(v[i - 1] + Wrapped(mn + r[i]))
  BY <1>5
<1> HIDE DEF Unfolds
<1> DEFINE P == {k \in 0..n - 1 : v[k] = vals[k + 1]}
<1>7. 0 \in P
  BY <1>6
<1>8. ASSUME NEW k \in 0..n - 1, k \in P, k < n - 1 PROVE k + 1 \in P
  <2>1. k + 1 \in 1..n - 1 /\ (k + 1) - 1 = k /\ k + 1 \in 0..n - 1
    BY <1>8
  <2>2. v[k + 1] = Wrapped(v[k] + Wrapped(mn + r[k + 1]))
    BY <1>6, <2>1
  <2>3. v[k] = vals[k + 1]
    BY <1>8
  <2>4. v[k + 1] = vals[(k + 1) + 1]
    BY <1>2, <2>1, <2>2, <2>3
  <2> QED
    BY <2>1, <2>4
<1>9. 0..n - 1 \subseteq P
  <2>1. n - 1 \in Nat
    OBVIOUS
  <2> HIDE DEF P
  <2> QED
    BY <1>7, <1>8, <2>1, UpToN
<1>10. \A i \in 1..n : v[i - 1] = vals[i]
  <2> SUFFICES ASSUME NEW i \in 1..n PROVE v[i - 1] = vals[i]
    OBVIOUS
  <2>1. i - 1 \in 0..n - 1 /\ (i - 1) + 1 = i
    OBVIOUS
  <2> QED
    BY <1>9, <2>1
<1>11. vals = [i \in 1..n |-> vals[i]]
  BY <1>a
<1> QED
  BY <1>a, <1>4, <1>10, <1>11

DeltaForm(c, n, mn, bw, ns) ==
    /\ c.type = "Int64" /\ c.vals \in Seq(Int64s) /\ n = Len(c.vals)
    /\ n \in Nat \ {0} /\ bw \in 1..WordBits
    /\ ns \in [1..n - 1 -> 0..Pow2[bw] - 1]
    /\ AreDeltas(mn, ns, c.vals)
    /\ \/ n = 1 /\ bw = 1
       \/ \E i, j \in 1..n - 1 : \E range \in 0..2 * Half - 1 :
            /\ range = Wrapped(c.vals[i + 1] - c.vals[i]) - Wrapped(c.vals[j + 1] - c.vals[j])
            /\ bw = bits_for(range)
    /\ try_delta_int64(c) =
         {[codec |-> "DeltaInt64", cnt |-> n, first |-> c.vals[1], mn |-> mn, bw |-> bw,
           bits |-> b] : b \in PackAll(ns, bw)}

LEMMA DeltaChunks ==
    ASSUME NEW c \in Columns, try_delta_int64(c) # {}
    PROVE  \E n, mn, bw, ns : DeltaForm(c, n, mn, bw, ns)
<1>1. c.type = "Int64" /\ c.vals # <<>>
  BY DEF try_delta_int64
<1>2. PICK vals \in Seq(Int64s) : vals = c.vals
  BY <1>1, ColumnsAssumption
<1>3. PICK n \in Nat \ {0} : n = Len(vals)
  BY <1>1, <1>2, EmptySeq
<1>4. PICK h \in Nat \ {0} : h = Half /\ Int64s = -h..h - 1
  BY Halves DEF Int64s
<1>5. \A i \in 1..n : vals[i] \in Int64s /\ vals[i] \in Int
  BY <1>3, <1>4
<1> DEFINE chunk(low, w, b) == [codec |-> "DeltaInt64", cnt |-> n, first |-> c.vals[1],
                                     mn |-> low, bw |-> w, bits |-> b]
<1>7. CASE n = 1
  <2>1. try_delta_int64(c) = {chunk(0, 1, {})}
    BY <1>1, <1>2, <1>3, <1>7 DEF try_delta_int64
  <2> DEFINE ns == [i \in 1..0 |-> 0]
  <2>2. ns \in [1..n - 1 -> 0..Pow2[1] - 1]
    BY <1>7
  <2>3. PackAll(ns, 1) = {{}}
    <3>1. Len(ns) = 0
      <4>1. ns \in [1..0 -> {0}]
        OBVIOUS
      <4> QED
        BY <4>1, LenFromDomain
    <3> DEFINE words  == {Stored(WordOf(ns[i]), 1, (i - 1) * 1) : i \in 1..Len(ns)}
               spills == UNION {Spills(WordOf(ns[i]), 1, (i - 1) * 1) : i \in 1..Len(ns)}
    <3>2. PackAll(ns, 1) = {UNION (words \cup spilt) : spilt \in SUBSET spills}
      BY DEF PackAll
    <3>3. words = {} /\ spills = {}
      BY <3>1
    <3> HIDE DEF ns, words, spills
    <3> QED
      BY <3>2, <3>3
  <2>4. 1 \in 1..WordBits
    BY BitsAssumption
  <2>5. AreDeltas(0, ns, c.vals)
    BY <1>2, <1>3, <1>7 DEF AreDeltas
  <2> HIDE DEF ns
  <2>6. try_delta_int64(c) = {chunk(0, 1, b) : b \in PackAll(ns, 1)}
    <3> HIDE DEF chunk
    <3> QED
      BY <2>1, <2>3
  <2>7. DeltaForm(c, n, 0, 1, ns)
    BY <1>1, <1>2, <1>3, <1>7, <2>2, <2>4, <2>5, <2>6 DEF DeltaForm
  <2> QED
    BY <2>7
<1>8. CASE n # 1
  <2>1. PICK m \in Nat \ {0} : m = n - 1
    <3>1. n - 1 \in Nat \ {0}
      BY <1>8
    <3> QED
      BY <3>1
  <2>2. \A i \in 1..m : i \in 1..n /\ i + 1 \in 1..n
    BY <2>1
  <2> DEFINE deltas == [i \in 1..m |-> Wrapped(vals[i + 1] - vals[i])]
  <2>3. deltas \in Seq(Int64s) /\ Len(deltas) = m
    <3>1. \A i \in 1..m : Wrapped(vals[i + 1] - vals[i]) \in Int64s
      <4> SUFFICES ASSUME NEW i \in 1..m PROVE Wrapped(vals[i + 1] - vals[i]) \in Int64s
        OBVIOUS
      <4>1. vals[i + 1] - vals[i] \in Int
        BY <1>5, <2>2
      <4> QED
        BY <4>1, WrappedIs
    <3>2. deltas \in [1..m -> Int64s]
      BY <3>1
    <3> HIDE DEF deltas
    <3> QED
      BY <3>2, LenFromDomain
  <2>4. \A i \in 1..m : deltas[i] = Wrapped(vals[i + 1] - vals[i]) /\ deltas[i] \in Int64s
    <3>1. \A i \in 1..m : deltas[i] = Wrapped(vals[i + 1] - vals[i])
      OBVIOUS
    <3> HIDE DEF deltas
    <3> QED
      BY <2>3, <3>1
  <2>a. PICK ds \in Seq(Int64s) : ds = deltas
    BY <2>3
  <2>5. PICK mn \in Int64s, mx \in Int64s :
          /\ mn = Min(ToSet(ds)) /\ mx = Max(ToSet(ds)) /\ mn <= mx
          /\ \A i \in 1..m : ds[i] - mn \in 0..mx - mn
          /\ (\E i \in 1..m : mn = ds[i]) /\ (\E i \in 1..m : mx = ds[i])
    <3>1. -h \in Int /\ h - 1 \in Int /\ ds \in Seq(-h..h - 1) /\ Len(ds) = m /\ m # 0
      BY <1>4, <2>3, <2>a
    <3>2. PICK mn, mx : mn = Min(ToSet(ds)) /\ mx = Max(ToSet(ds))
      OBVIOUS
    <3>3. /\ mn \in -h..h - 1 /\ mx \in -h..h - 1 /\ mn <= mx
          /\ \A i \in 1..Len(ds) : ds[i] - mn \in 0..mx - mn
          /\ (\E i \in 1..Len(ds) : mn = ds[i]) /\ (\E i \in 1..Len(ds) : mx = ds[i])
      BY <3>1, <3>2, SpreadOf
    <3> QED
      BY <1>4, <3>1, <3>2, <3>3
  <2>6. PICK range \in 0..2 * h - 1 : range = mx - mn /\ Unsigned(mx - mn) = range
    <3>1. mx - mn \in 0..2 * h - 1
      BY <1>4, <2>5
    <3> QED
      BY <1>4, <3>1, Halves
  <2>7. PICK bw \in 1..WordBits : bw = bits_for(range) /\ range < Pow2[bw]
    BY <1>4, <2>6, BitsFor
  <2> DEFINE ns == [i \in 1..m |-> Unsigned(ds[i] - mn)]
  <2>8. try_delta_int64(c) = {chunk(mn, bw, b) : b \in PackAll(ns, bw)}
    <3> DEFINE dd == [i \in 1..Len(c.vals) - 1 |-> Wrapped(c.vals[i + 1] - c.vals[i])]
               mm == Min(ToSet(dd))
               ww == bits_for(Unsigned(Max(ToSet(dd)) - mm))
               nn == [i \in 1..Len(dd) |-> Unsigned(dd[i] - mm)]
               all == {[codec |-> "DeltaInt64", cnt |-> Len(c.vals), first |-> c.vals[1],
                        mn |-> mm, bw |-> ww, bits |-> b] : b \in PackAll(nn, ww)}
    <3>1. Len(c.vals) # 1
      BY <1>2, <1>3, <1>8
    <3>2. try_delta_int64(c) = all
      BY <1>1, <3>1 DEF try_delta_int64
    <3>3. dd = ds /\ Len(dd) = m
      BY <1>2, <1>3, <2>1, <2>3, <2>a
    <3> HIDE DEF deltas, dd
    <3>4. mm = mn /\ ww = bw
      BY <2>5, <2>6, <2>7, <3>3
    <3>5. nn = ns
      <4> HIDE DEF mm
      <4> QED
        BY <3>3, <3>4
    <3> HIDE DEF ns, nn, mm, ww
    <3>6. all = {chunk(mn, bw, b) : b \in PackAll(ns, bw)}
      BY <1>2, <1>3, <3>4, <3>5
    <3> HIDE DEF all
    <3> QED
      BY <3>2, <3>6
  <2> HIDE DEF deltas
  <2>9. \A i \in 1..m : ns[i] = ds[i] - mn /\ ns[i] \in 0..Pow2[bw] - 1
    <3> SUFFICES ASSUME NEW i \in 1..m PROVE ns[i] = ds[i] - mn /\ ns[i] \in 0..Pow2[bw] - 1
      OBVIOUS
    <3>1. PICK d \in 0..range : d = ds[i] - mn
      BY <2>5, <2>6
    <3>2. d \in 0..2 * Half - 1 /\ Pow2[bw] \in Nat
      BY <1>4, <2>6, Pow2Unfolds
    <3>3. Unsigned(d) = d
      BY <3>2, Halves
    <3>4. ns[i] = d
      BY <3>1, <3>3
    <3> QED
      BY <2>7, <3>1, <3>2, <3>4
  <2>10. ns \in [1..n - 1 -> 0..Pow2[bw] - 1]
    <3>1. ns = [i \in 1..m |-> ns[i]]
      OBVIOUS
    <3> HIDE DEF ns
    <3> QED
      BY <2>1, <2>9, <3>1
  <2> HIDE DEF ns
  <2>11. AreDeltas(mn, ns, vals)
    <3> SUFFICES ASSUME NEW i \in 1..n - 1
                 PROVE  Wrapped(mn + ns[i]) = Wrapped(vals[i + 1] - vals[i])
      BY <1>3 DEF AreDeltas
    <3>1. i \in 1..m /\ ds[i] \in Int64s /\ ds[i] = Wrapped(vals[i + 1] - vals[i])
      BY <2>1, <2>4, <2>a
    <3>2. mn + ns[i] = ds[i]
      BY <1>4, <2>9, <3>1
    <3>3. Wrapped(ds[i]) = ds[i]
      BY <3>1, Halves
    <3> QED
      BY <3>1, <3>2, <3>3
  <2>12. PICK i \in 1..m, j \in 1..m : mx = ds[i] /\ mn = ds[j]
    BY <2>5
  <2>13. /\ range = Wrapped(vals[i + 1] - vals[i]) - Wrapped(vals[j + 1] - vals[j])
         /\ range \in 0..2 * Half - 1 /\ bw = bits_for(range)
    BY <1>4, <2>4, <2>6, <2>7, <2>a, <2>12
  <2>14. \E k, l \in 1..n - 1 : \E x \in 0..2 * Half - 1 :
           /\ x = Wrapped(vals[k + 1] - vals[k]) - Wrapped(vals[l + 1] - vals[l])
           /\ bw = bits_for(x)
    BY <2>1, <2>13
  <2> HIDE DEF chunk
  <2>15. DeltaForm(c, n, mn, bw, ns)
    BY <1>1, <1>2, <1>3, <2>7, <2>8, <2>10, <2>11, <2>14 DEF DeltaForm, chunk
  <2> QED
    BY <2>15
<1> QED
  BY <1>7, <1>8

LEMMA DeltaComesBack ==
    ASSUME NEW c \in Columns, NEW ch \in try_delta_int64(c), InWords(ch)
    PROVE  Decode(ch) = {Values(c.vals)}
<1>1. PICK n, mn, bw, ns : DeltaForm(c, n, mn, bw, ns)
  BY DeltaChunks
<1>2. PICK b \in PackAll(ns, bw) :
        ch = [codec |-> "DeltaInt64", cnt |-> n, first |-> c.vals[1], mn |-> mn, bw |-> bw,
              bits |-> b]
  BY <1>1 DEF DeltaForm
<1>3. /\ ch.codec = "DeltaInt64" /\ ch.cnt = n /\ ch.first = c.vals[1] /\ ch.mn = mn
      /\ ch.bw = bw /\ ch.bits = b
  BY <1>2
<1>4. PICK m \in Nat : m = n - 1
  <2>1. n \in Nat \ {0}
    BY <1>1 DEF DeltaForm
  <2>2. n - 1 \in Nat
    BY <2>1
  <2> QED
    BY <2>2
<1>5. UnpackAll(b, m, bw) = {ns}
  <2>1. FitWords(m, bw)
    BY <1>3, <1>4 DEF InWords, Numbers
  <2>2. Packable(m, bw, ns)
    BY <1>1, <1>4, <2>1, BitsAssumption DEF DeltaForm, Packable
  <2> QED
    BY <2>2, PackableComesBack
<1>6. Decode(ch) = {Values(SumsOf(c.vals[1], mn, n, r)) : r \in {ns}}
  <2>1. Decode(ch) = DecodeDelta(ch)
    BY <1>3 DEF Decode
  <2>2. DecodeDelta(ch) = {Values(SumsOf(ch.first, ch.mn, ch.cnt, r)) :
                             r \in UnpackAll(ch.bits, ch.cnt - 1, ch.bw)}
    BY DEF DecodeDelta, SumsOf
  <2>3. ch.cnt - 1 = m
    BY <1>3, <1>4
  <2> QED
    BY <1>3, <1>5, <2>1, <2>2, <2>3
<1>7. SumsOf(c.vals[1], mn, n, ns) = c.vals
  <2>1. PICK vals \in Seq(Int64s) : vals = c.vals /\ n = Len(vals) /\ Len(vals) # 0
    BY <1>1 DEF DeltaForm
  <2>2. AreDeltas(mn, ns, vals)
    BY <1>1, <2>1 DEF DeltaForm
  <2>3. SumsOf(vals[1], mn, Len(vals), ns) = vals
    BY <2>1, <2>2, SumsAreTheColumn
  <2> QED
    BY <2>1, <2>3
<1> QED
  BY <1>6, <1>7

(* Cutting what was joined where each string ends gives the strings. *)
CutAt(blob, mn, cnt, r) ==
    LET off[i \in 0..cnt] == IF i = 0 THEN 0 ELSE off[i-1] + mn + r[i]
    IN  [i \in 1..cnt |-> SubSeq(blob, off[i-1] + 1, off[i])]

AreLengths(mn, r, vals) == \A i \in 1..Len(vals) : r[i] \in Int /\ mn + r[i] = Len(vals[i])

LEMMA CutIsTheColumn ==
    ASSUME NEW S, NEW vals \in Seq(Seq(S)), NEW mn \in Int, NEW r, AreLengths(mn, r, vals)
    PROVE  CutAt(FlattenSeq(vals), mn, Len(vals), r) = vals
<1>0. PICK n \in Nat : n = Len(vals)
  OBVIOUS
<1>1. \A i \in 1..n : vals[i] \in Seq(S) /\ Len(vals[i]) \in Nat
  BY <1>0
<1>2. \A i \in 1..n : r[i] \in Int /\ mn + r[i] = Len(vals[i])
  BY <1>0 DEF AreLengths
<1>3. PICK f \in [0..n -> Seq(S)] : /\ f[0] = <<>> /\ f[n] = FlattenSeq(vals)
                                    /\ \A k \in 1..n : f[k] = f[k - 1] \o vals[k]
  BY <1>0, FlattenUnfolds
<1>4. \A k \in 0..n : f[k] \in Seq(S) /\ Len(f[k]) \in Nat
  OBVIOUS
<1>5. ASSUME NEW m \in 0..n, m < n
      PROVE  /\ m + 1 \in 1..n /\ m + 1 \in 0..n
             /\ Len(f[m + 1]) = Len(f[m]) + Len(vals[m + 1])
             /\ \A j \in 1..Len(f[m]) : f[m + 1][j] = f[m][j]
             /\ \A j \in 1..Len(vals[m + 1]) : f[m + 1][Len(f[m]) + j] = vals[m + 1][j]
  <2>0. m + 1 \in 1..n /\ m + 1 \in 0..n /\ (m + 1) - 1 = m
    BY <1>5
  <2>1. PICK a \in Seq(S), b \in Seq(S) : a = f[m] /\ b = vals[m + 1]
    BY <1>1, <2>0
  <2>2. PICK c : c = f[m + 1] /\ c = a \o b
    BY <1>3, <2>0, <2>1
  <2>3. PICK p \in Nat, q \in Nat : p = Len(a) /\ q = Len(b)
    OBVIOUS
  <2>4. Len(c) = p + q
    BY <2>2, <2>3, ConcatProperties
  <2>5. \A i \in 1..p + q : c[i] = IF i <= p THEN a[i] ELSE b[i - p]
    BY <2>2, <2>3, ConcatProperties
  <2>6. \A j \in 1..p : c[j] = a[j]
    <3> SUFFICES ASSUME NEW j \in 1..p PROVE c[j] = a[j]
      OBVIOUS
    <3>1. j \in 1..p + q /\ j <= p
      OBVIOUS
    <3> QED
      BY <2>5, <3>1
  <2>7. \A j \in 1..q : c[p + j] = b[j]
    <3> SUFFICES ASSUME NEW j \in 1..q PROVE c[p + j] = b[j]
      OBVIOUS
    <3>1. p + j \in 1..p + q /\ ~(p + j <= p) /\ (p + j) - p = j
      OBVIOUS
    <3> QED
      BY <2>5, <3>1
  <2>8. f[m + 1] = c /\ f[m] = a /\ vals[m + 1] = b
    BY <2>1, <2>2
  <2>9. Len(f[m + 1]) = Len(f[m]) + Len(vals[m + 1])
    BY <2>3, <2>4, <2>8
  <2>10. \A j \in 1..Len(f[m]) : f[m + 1][j] = f[m][j]
    BY <2>3, <2>6, <2>8
  <2>11. \A j \in 1..Len(vals[m + 1]) : f[m + 1][Len(f[m]) + j] = vals[m + 1][j]
    BY <2>3, <2>7, <2>8
  <2> QED
    BY <2>0, <2>9, <2>10, <2>11
<1> DEFINE Unfolds(g) == g = [i \in 0..n |-> IF i = 0 THEN 0 ELSE g[i - 1] + mn + r[i]]
<1>6. \E g : Unfolds(g)
  <2> DEFINE h == [i \in 0..n |-> Len(f[i])]
  <2>1. ASSUME NEW i \in 0..n PROVE h[i] = IF i = 0 THEN 0 ELSE h[i - 1] + mn + r[i]
    <3>1. CASE i = 0
      BY <1>3, <3>1, EmptySeq
    <3>2. CASE i # 0
      <4>1. PICK m \in 0..n : m < n /\ i = m + 1 /\ i - 1 = m /\ i \in 1..n
        <5>1. i - 1 \in 0..n /\ i - 1 < n /\ i = (i - 1) + 1 /\ i \in 1..n
          BY <3>2
        <5> QED
          BY <5>1
      <4>2. h[i] = Len(f[i]) /\ h[i - 1] = Len(f[m])
        BY <4>1
      <4>3. Len(f[i]) = Len(f[m]) + Len(vals[i]) /\ Len(vals[i]) = mn + r[i] /\ r[i] \in Int
        BY <1>2, <1>5, <4>1
      <4>4. PICK x \in Nat : x = Len(f[m])
        BY <1>4
      <4>5. x + (mn + r[i]) = x + mn + r[i]
        BY <4>3
      <4> HIDE DEF h
      <4> QED
        BY <3>2, <4>2, <4>3, <4>4, <4>5
    <3> QED
      BY <3>1, <3>2
  <2>2. Unfolds(h)
    BY <2>1
  <2> HIDE DEF Unfolds
  <2> QED
    BY <2>2
<1>7. PICK off : /\ off = (CHOOSE g : Unfolds(g))
                 /\ CutAt(f[n], mn, n, r) = [i \in 1..n |-> SubSeq(f[n], off[i - 1] + 1, off[i])]
  <2>1. CutAt(f[n], mn, n, r) =
          [i \in 1..n |-> SubSeq(f[n], (CHOOSE g : Unfolds(g))[i - 1] + 1, (CHOOSE g : Unfolds(g))[i])]
    BY DEF CutAt
  <2> HIDE DEF Unfolds
  <2> QED
    BY <2>1
<1>8. Unfolds(off)
  <2> HIDE DEF Unfolds
  <2> QED
    BY <1>6, <1>7
<1>9. off[0] = 0 /\ \A i \in 1..n : off[i] = off[i - 1] + mn + r[i]
  BY <1>8
<1> HIDE DEF Unfolds
<1>10. \A k \in 0..n : off[k] = Len(f[k])
  <2> DEFINE P == {k \in 0..n : off[k] = Len(f[k])}
  <2>1. 0 \in P
    BY <1>3, <1>9, EmptySeq
  <2>2. ASSUME NEW k \in 0..n, k \in P, k < n PROVE k + 1 \in P
    <3>1. k + 1 \in 1..n /\ (k + 1) - 1 = k /\ k + 1 \in 0..n
      BY <2>2
    <3>2. off[k + 1] = off[k] + mn + r[k + 1] /\ off[k] = Len(f[k]) /\ Len(f[k]) \in Nat
      BY <1>4, <1>9, <2>2, <3>1
    <3>3. Len(f[k + 1]) = Len(f[k]) + Len(vals[k + 1])
      BY <1>5, <2>2
    <3>4. Len(vals[k + 1]) = mn + r[k + 1] /\ r[k + 1] \in Int
      BY <1>2, <3>1
    <3>5. off[k + 1] = Len(f[k + 1])
      BY <3>2, <3>3, <3>4
    <3> QED
      BY <3>1, <3>5
  <2>3. 0..n \subseteq P
    <3> HIDE DEF P
    <3> QED
      BY <2>1, <2>2, UpToN
  <2> QED
    BY <2>3
<1>11. ASSUME NEW i \in 0..n
       PROVE  Len(f[i]) <= Len(f[n]) /\ \A j \in 1..Len(f[i]) : f[n][j] = f[i][j]
  <2> DEFINE Begins(k) == Len(f[i]) <= Len(f[k]) /\ \A j \in 1..Len(f[i]) : f[k][j] = f[i][j]
             P == {k \in 0..n : i <= k => Begins(k)}
  <2>1. Begins(i)
    BY <1>4
  <2>2. 0 \in P
    <3>1. i <= 0 => i = 0
      OBVIOUS
    <3> HIDE DEF Begins
    <3> QED
      BY <2>1, <3>1
  <2>3. ASSUME NEW k \in 0..n, k \in P, k < n PROVE k + 1 \in P
    <3>1. k + 1 \in 1..n /\ (k + 1) - 1 = k /\ k + 1 \in 0..n
      BY <2>3
    <3>2. CASE i <= k
      <4>1. Begins(k)
        BY <2>3, <3>2
      <4>2. /\ Len(f[k + 1]) = Len(f[k]) + Len(vals[k + 1])
            /\ \A j \in 1..Len(f[k]) : f[k + 1][j] = f[k][j]
        BY <1>5, <2>3
      <4>3. Len(f[i]) \in Nat /\ Len(f[k]) \in Nat /\ Len(vals[k + 1]) \in Nat /\ Len(f[k + 1]) \in Nat
        BY <1>1, <1>4, <3>1
      <4>4. \A j \in 1..Len(f[i]) : j \in 1..Len(f[k])
        BY <4>1, <4>3
      <4>5. Begins(k + 1)
        BY <4>1, <4>2, <4>3, <4>4
      <4> HIDE DEF Begins
      <4> QED
        BY <3>1, <4>5
    <3>3. CASE ~(i <= k)
      <4>1. i <= k + 1 => i = k + 1
        BY <3>3
      <4> HIDE DEF Begins
      <4> QED
        BY <2>1, <3>1, <4>1
    <3> HIDE DEF P
    <3> QED
      BY <3>2, <3>3
  <2>4. Begins(n)
    <3> HIDE DEF Begins
    <3>1. 0..n \subseteq P
      <4> HIDE DEF P
      <4> QED
        BY <2>2, <2>3, UpToN
    <3> QED
      BY <3>1
  <2> QED
    BY <2>4
<1>12. ASSUME NEW i \in 1..n PROVE SubSeq(f[n], off[i - 1] + 1, off[i]) = vals[i]
  <2>0. PICK m \in 0..n : m < n /\ i = m + 1 /\ i - 1 = m /\ i \in 0..n
    <3>1. i - 1 \in 0..n /\ i - 1 < n /\ i = (i - 1) + 1 /\ i \in 0..n
      OBVIOUS
    <3> QED
      BY <3>1
  <2>1. PICK p \in Nat, q \in Nat : p = Len(f[m]) /\ q = Len(vals[i])
    BY <1>1, <1>4
  <2>2. Len(f[i]) = p + q /\ \A j \in 1..q : f[i][p + j] = vals[i][j]
    BY <1>5, <2>0, <2>1
  <2>3. off[i - 1] = p /\ off[i] = p + q
    <3>1. off[m] = Len(f[m]) /\ off[i] = Len(f[i])
      BY <1>10, <2>0
    <3> QED
      BY <2>0, <2>1, <2>2, <3>1
  <2>4. PICK g \in Seq(S) : g = f[n] /\ p + q <= Len(g)
                            /\ \A j \in 1..p + q : g[j] = f[i][j]
    <3>1. Len(f[i]) <= Len(f[n]) /\ \A j \in 1..Len(f[i]) : f[n][j] = f[i][j]
      BY <1>11, <2>0
    <3>2. f[n] \in Seq(S)
      BY <1>4
    <3> QED
      BY <2>2, <3>1, <3>2
  <2>5. \A j \in 1..q : g[p + j] = vals[i][j]
    <3> SUFFICES ASSUME NEW j \in 1..q PROVE g[p + j] = vals[i][j]
      OBVIOUS
    <3>1. p + j \in 1..p + q
      OBVIOUS
    <3> QED
      BY <2>2, <2>4, <3>1
  <2>6. \A j \in p + 1..p + q : g[j] \in S
    <3>1. \A j \in p + 1..p + q : j \in 1..Len(g)
      BY <2>4
    <3> QED
      BY <3>1, ElementOfSeq
  <2>7. /\ SubSeq(g, p + 1, p + q) \in Seq(S)
        /\ Len(SubSeq(g, p + 1, p + q)) = IF p + 1 <= p + q THEN (p + q) - (p + 1) + 1 ELSE 0
        /\ \A j \in 1..(p + q) - (p + 1) + 1 : SubSeq(g, p + 1, p + q)[j] = g[(p + 1) + j - 1]
    <3>1. p + 1 \in Int /\ p + q \in Int
      OBVIOUS
    <3> QED
      BY <2>6, <3>1, SubSeqProperties
  <2>8. PICK s \in Seq(S) : /\ s = SubSeq(g, p + 1, p + q) /\ Len(s) = q
                            /\ \A j \in 1..q : s[j] = g[p + j]
    <3>1. PICK s : s = SubSeq(g, p + 1, p + q)
      OBVIOUS
    <3>2. s \in Seq(S) /\ Len(s) = IF p + 1 <= p + q THEN (p + q) - (p + 1) + 1 ELSE 0
      BY <2>7, <3>1
    <3>3. \A j \in 1..(p + q) - (p + 1) + 1 : s[j] = g[(p + 1) + j - 1]
      BY <2>7, <3>1
    <3>4. Len(s) = q
      BY <3>2
    <3>5. ASSUME NEW j \in 1..q PROVE s[j] = g[p + j]
      <4>1. j \in 1..(p + q) - (p + 1) + 1 /\ (p + 1) + j - 1 = p + j
        OBVIOUS
      <4> QED
        BY <3>3, <4>1
    <3>6. s \in Seq(S)
      BY <3>2
    <3> QED
      BY <3>1, <3>4, <3>5, <3>6
  <2>9. vals[i] \in Seq(S) /\ Len(vals[i]) = q /\ \A j \in 1..q : s[j] = vals[i][j]
    BY <1>1, <2>1, <2>5, <2>8
  <2>10. s = vals[i]
    BY <2>8, <2>9, SeqEqual
  <2> QED
    BY <2>3, <2>4, <2>8, <2>10
<1>13. vals = [i \in 1..n |-> vals[i]]
  BY <1>0
<1> QED
  BY <1>0, <1>3, <1>7, <1>12, <1>13

DlbaForm(c, n, mn, bw, ns) ==
    /\ c.type = "String" /\ c.vals \in Seq(Seq(Chars)) /\ n = Len(c.vals)
    /\ n \in Nat \ {0} /\ mn \in Nat /\ bw \in 1..WordBits
    /\ ns \in [1..n -> 0..Pow2[bw] - 1]
    /\ AreLengths(mn, ns, c.vals)
    /\ \E i, j \in 1..n : /\ Len(c.vals[i]) - Len(c.vals[j]) \in 0..2 * Half - 1
                         /\ bw = bits_for(Len(c.vals[i]) - Len(c.vals[j]))
    /\ try_dlba(c) = {[codec |-> "DLBA", cnt |-> n, mn |-> mn, bw |-> bw, bits |-> b,
                       blob |-> FlattenSeq(c.vals)] : b \in PackAll(ns, bw)}

LEMMA DlbaChunks ==
    ASSUME NEW c \in Columns, try_dlba(c) # {}
    PROVE  \E n, mn, bw, ns : DlbaForm(c, n, mn, bw, ns)
<1>1. c.type = "String" /\ c.vals # <<>>
  BY DEF try_dlba
<1>2. PICK vals \in Seq(Seq(Chars)) : /\ vals = c.vals
                                      /\ \A i \in 1..Len(vals) : Len(vals[i]) < 2 * Half
  BY <1>1, ColumnsAssumption
<1>3. PICK n \in Nat \ {0} : n = Len(vals)
  BY <1>1, <1>2, EmptySeq
<1>4. PICK h \in Nat \ {0} : h = Half
  BY Halves
<1> DEFINE lens == [i \in 1..Len(c.vals) |-> Len(c.vals[i])]
<1>5. lens = [i \in 1..n |-> Len(vals[i])]
  BY <1>2, <1>3
<1>6. \A i \in 1..n : Len(vals[i]) \in 0..2 * h - 1
  BY <1>2, <1>3, <1>4
<1>7. PICK ls \in Seq(0..2 * h - 1) : /\ ls = lens /\ Len(ls) = n
                                      /\ \A i \in 1..n : ls[i] = Len(vals[i]) /\ ls[i] \in Int
  <2>1. lens \in [1..n -> 0..2 * h - 1]
    BY <1>5, <1>6
  <2>2. lens \in Seq(0..2 * h - 1) /\ Len(lens) = n
    <3> HIDE DEF lens
    <3> QED
      BY <2>1, LenFromDomain
  <2>3. \A i \in 1..n : lens[i] = Len(vals[i]) /\ lens[i] \in Int
    <3> HIDE DEF lens
    <3> QED
      BY <1>5, <1>6
  <2> HIDE DEF lens
  <2> QED
    BY <2>2, <2>3
<1> HIDE DEF lens
<1>8. PICK mn \in Nat, mx \in Nat :
        /\ mn = Min(ToSet(ls)) /\ mx = Max(ToSet(ls)) /\ mn <= mx /\ mx <= 2 * h - 1
        /\ \A i \in 1..n : ls[i] - mn \in 0..mx - mn
        /\ (\E i \in 1..n : mn = ls[i]) /\ (\E i \in 1..n : mx = ls[i])
  <2>1. 0 \in Int /\ 2 * h - 1 \in Int /\ Len(ls) # 0
    BY <1>7
  <2>2. /\ Min(ToSet(ls)) \in 0..2 * h - 1 /\ Max(ToSet(ls)) \in 0..2 * h - 1
        /\ Min(ToSet(ls)) <= Max(ToSet(ls))
        /\ \A i \in 1..Len(ls) : ls[i] - Min(ToSet(ls)) \in 0..Max(ToSet(ls)) - Min(ToSet(ls))
        /\ \E i \in 1..Len(ls) : Min(ToSet(ls)) = ls[i]
        /\ \E i \in 1..Len(ls) : Max(ToSet(ls)) = ls[i]
    BY <2>1, SpreadOf
  <2>3. PICK mn \in Int, mx \in Int : mn = Min(ToSet(ls)) /\ mx = Max(ToSet(ls))
    BY <2>2
  <2>4. /\ mn \in 0..2 * h - 1 /\ mx \in 0..2 * h - 1 /\ mn <= mx
        /\ \A i \in 1..n : ls[i] - mn \in 0..mx - mn
        /\ (\E i \in 1..n : mn = ls[i]) /\ (\E i \in 1..n : mx = ls[i])
    BY <1>7, <2>2, <2>3
  <2>5. mn \in Nat /\ mx \in Nat /\ mx <= 2 * h - 1
    BY <2>4
  <2> QED
    BY <2>3, <2>4, <2>5
<1>9. PICK range \in 0..2 * h - 1 : range = mx - mn
  <2>1. mx - mn \in 0..2 * h - 1
    BY <1>8
  <2> QED
    BY <2>1
<1>10. PICK bw \in 1..WordBits : bw = bits_for(range) /\ range < Pow2[bw]
  BY <1>4, <1>9, BitsFor
<1> DEFINE ns == [i \in 1..n |-> ls[i] - mn]
<1>11. try_dlba(c) = {[codec |-> "DLBA", cnt |-> n, mn |-> mn, bw |-> bw, bits |-> b,
                       blob |-> FlattenSeq(c.vals)] : b \in PackAll(ns, bw)}
  <2> DEFINE mm == Min(ToSet(lens))
             ww == bits_for(Max(ToSet(lens)) - mm)
             nn == [i \in 1..Len(c.vals) |-> lens[i] - mm]
             all == {[codec |-> "DLBA", cnt |-> Len(c.vals), mn |-> mm, bw |-> ww, bits |-> b,
                      blob |-> FlattenSeq(c.vals)] : b \in PackAll(nn, ww)}
  <2>1. try_dlba(c) = all
    BY <1>1 DEF try_dlba, lens
  <2>2. mm = mn /\ ww = bw
    BY <1>7, <1>8, <1>9, <1>10
  <2>3. nn = ns
    <3> HIDE DEF mm
    <3> QED
      BY <1>2, <1>3, <1>7, <2>2
  <2> HIDE DEF ns, nn, mm, ww
  <2>4. all = {[codec |-> "DLBA", cnt |-> n, mn |-> mn, bw |-> bw, bits |-> b,
                blob |-> FlattenSeq(c.vals)] : b \in PackAll(ns, bw)}
    BY <1>2, <1>3, <2>2, <2>3
  <2> QED
    BY <2>1, <2>4
<1>12. \A i \in 1..n : ns[i] = ls[i] - mn /\ ns[i] \in 0..Pow2[bw] - 1
  <2> SUFFICES ASSUME NEW i \in 1..n PROVE ns[i] = ls[i] - mn /\ ns[i] \in 0..Pow2[bw] - 1
    OBVIOUS
  <2>1. PICK d \in 0..range : d = ls[i] - mn
    BY <1>8, <1>9
  <2>2. Pow2[bw] \in Nat
    BY Pow2Unfolds
  <2> QED
    BY <1>9, <1>10, <2>1, <2>2
<1>13. ns \in [1..n -> 0..Pow2[bw] - 1]
  <2>1. ns = [i \in 1..n |-> ns[i]]
    OBVIOUS
  <2> HIDE DEF ns
  <2> QED
    BY <1>12, <2>1
<1> HIDE DEF ns
<1>14. AreLengths(mn, ns, vals)
  <2> SUFFICES ASSUME NEW i \in 1..n PROVE ns[i] \in Int /\ mn + ns[i] = Len(vals[i])
    BY <1>3 DEF AreLengths
  <2>1. ns[i] = ls[i] - mn /\ ls[i] = Len(vals[i]) /\ ls[i] \in Int
    BY <1>7, <1>12
  <2> QED
    BY <2>1
<1>15. PICK i \in 1..n, j \in 1..n : mx = ls[i] /\ mn = ls[j]
  BY <1>8
<1>16. /\ Len(vals[i]) - Len(vals[j]) \in 0..2 * Half - 1
       /\ bw = bits_for(Len(vals[i]) - Len(vals[j]))
  BY <1>4, <1>7, <1>9, <1>10, <1>15
<1>17. DlbaForm(c, n, mn, bw, ns)
  BY <1>1, <1>2, <1>3, <1>10, <1>11, <1>13, <1>14, <1>16 DEF DlbaForm
<1> QED
  BY <1>17

LEMMA DlbaComesBack ==
    ASSUME NEW c \in Columns, NEW ch \in try_dlba(c), InWords(ch)
    PROVE  Decode(ch) = {Values(c.vals)}
<1>1. PICK n, mn, bw, ns : DlbaForm(c, n, mn, bw, ns)
  BY DlbaChunks
<1>2. PICK b \in PackAll(ns, bw) :
        ch = [codec |-> "DLBA", cnt |-> n, mn |-> mn, bw |-> bw, bits |-> b,
              blob |-> FlattenSeq(c.vals)]
  BY <1>1 DEF DlbaForm
<1>3. /\ ch.codec = "DLBA" /\ ch.cnt = n /\ ch.mn = mn /\ ch.bw = bw /\ ch.bits = b
      /\ ch.blob = FlattenSeq(c.vals)
  BY <1>2
<1>4. UnpackAll(b, n, bw) = {ns}
  <2>1. FitWords(n, bw)
    BY <1>3 DEF InWords, Numbers
  <2>2. n \in Nat /\ bw \in 0..WordBits /\ ns \in [1..n -> 0..Pow2[bw] - 1]
    <3>1. n \in Nat \ {0} /\ bw \in 1..WordBits /\ ns \in [1..n -> 0..Pow2[bw] - 1]
      BY <1>1, Zenon DEF DlbaForm
    <3> QED
      BY <3>1, BitsAssumption
  <2>3. Packable(n, bw, ns)
    BY <2>1, <2>2 DEF Packable
  <2> QED
    BY <2>3, PackableComesBack
<1>5. Decode(ch) = {Values(CutAt(FlattenSeq(c.vals), mn, n, r)) : r \in {ns}}
  <2>1. Decode(ch) = DecodeDlba(ch)
    BY <1>3 DEF Decode
  <2>2. DecodeDlba(ch) = {Values(CutAt(ch.blob, ch.mn, ch.cnt, r)) :
                            r \in UnpackAll(ch.bits, ch.cnt, ch.bw)}
    BY DEF DecodeDlba, CutAt
  <2> QED
    BY <1>3, <1>4, <2>1, <2>2
<1>6. CutAt(FlattenSeq(c.vals), mn, n, ns) = c.vals
  <2>1. PICK vals \in Seq(Seq(Chars)) : vals = c.vals /\ n = Len(vals)
    BY <1>1 DEF DlbaForm
  <2>2. AreLengths(mn, ns, vals) /\ mn \in Int
    BY <1>1, <2>1 DEF DlbaForm
  <2>3. CutAt(FlattenSeq(vals), mn, Len(vals), ns) = vals
    BY <2>2, CutIsTheColumn
  <2> QED
    BY <2>1, <2>3
<1> QED
  BY <1>5, <1>6

(* Every encoding, whether it wins or not, is decoded to what was encoded. *)
LEMMA TriesComeBack ==
    ASSUME NEW c \in Columns, NEW id \in CodecId, NEW ch \in Try(id, c), InWords(ch)
    PROVE  Decode(ch) = {Values(c.vals)}
<1>1. CASE id = "None"
  <2>1. ch = [codec |-> "None", vals |-> c.vals]
    BY <1>1 DEF Try, try_none
  <2>2. ch.codec = "None" /\ ch.vals = c.vals
    BY <2>1
  <2> QED
    BY <2>2 DEF Decode
<1>2. CASE id = "BitPack"
  <2>1. ch \in try_bitpack(c)
    BY <1>2 DEF Try
  <2> QED
    BY <2>1, BitPackComesBack
<1>3. CASE id = "DictString"
  <2>1. ch \in try_dict_string(c)
    BY <1>3 DEF Try
  <2> QED
    BY <2>1, DictComesBack
<1>4. CASE id = "RleInt64"
  <2>1. ch \in try_rle_int64(c)
    BY <1>4 DEF Try
  <2> QED
    BY <2>1, RleComesBack
<1>5. CASE id = "DeltaInt64"
  <2>1. ch \in try_delta_int64(c)
    BY <1>5 DEF Try
  <2> QED
    BY <2>1, DeltaComesBack
<1>6. CASE id = "DLBA"
  <2>1. ch \in try_dlba(c)
    BY <1>6 DEF Try
  <2> QED
    BY <2>1, DlbaComesBack
<1> QED
  BY <1>1, <1>2, <1>3, <1>4, <1>5, <1>6 DEF CodecId

-----------------------------------------------------------------------------
(* The chunks a codec may produce for a column are of one size: the spilled *)
(* bits change none of it.                                                  *)

LEMMA BytesOf ==
    /\ U64 \in Int /\ U32 \in Int
    /\ \A x \in Int : Bytes(x) \in Int
    /\ \A n \in Int, w \in Int : n * w \in Int
<1>1. U64 \in Int /\ U32 \in Int
  BY BitsAssumption DEF U64, U32
<1>2. ASSUME NEW x \in Int PROVE Bytes(x) \in Int
  BY BitsAssumption DEF Bytes
<1>3. \A n \in Int, w \in Int : n * w \in Int
  OBVIOUS
<1> QED
  BY <1>1, <1>2, <1>3

LEMMA StringBytesOf == ASSUME NEW S, NEW ss \in Seq(Seq(S)) PROVE StringBytes(ss) \in Int
<1>1. FlattenSeq(ss) \in Seq(S)
  <2>1. <<>> \in Seq(S)
    OBVIOUS
  <2> QED
    BY <2>1, FlattenAppend
<1>2. Len(FlattenSeq(ss)) \in Int /\ Len(ss) \in Int
  BY <1>1
<1>3. Len(ss) * U32 \in Int
  BY <1>2, BytesOf
<1> QED
  BY <1>2, <1>3 DEF StringBytes

LEMMA OneSize ==
    ASSUME NEW c \in Columns, NEW id \in CodecId
    PROVE  \E s \in Int : \A ch \in Try(id, c) : Size(c, ch) = s
<1>0. CASE Try(id, c) = {}
  BY <1>0
<1> USE BytesOf
<1>1. CASE id = "None"
  <2>1. \A ch \in Try(id, c) : ch = [codec |-> "None", vals |-> c.vals]
    BY <1>1 DEF Try, try_none
  <2>2. \A ch \in Try(id, c) : ch.codec = "None" /\ ch.vals = c.vals
    BY <2>1
  <2>3. CASE c.type = "String"
    <3>1. c.vals \in Seq(Seq(Chars))
      BY <2>3, ColumnsAssumption
    <3>2. StringBytes(c.vals) \in Int
      BY <3>1, StringBytesOf
    <3>3. \A ch \in Try(id, c) : Size(c, ch) = 1 + StringBytes(c.vals)
      BY <2>2, <2>3 DEF Size
    <3>4. 1 + StringBytes(c.vals) \in Int
      BY <3>2
    <3> QED
      BY <3>3, <3>4
  <2>4. CASE c.type # "String"
    <3>1. PICK T : c.vals \in Seq(T)
      BY <2>4, ColumnsAssumption
    <3>2. Len(c.vals) \in Int
      BY <3>1
    <3>3. PICK s \in Int : s = Len(c.vals) * U64
      BY <3>2
    <3>4. \A ch \in Try(id, c) : Size(c, ch) = 1 + s
      BY <2>2, <2>4, <3>3 DEF Size
    <3>5. 1 + s \in Int
      OBVIOUS
    <3> QED
      BY <3>4, <3>5
  <2> QED
    BY <2>3, <2>4
<1>2. CASE id = "BitPack" /\ Try(id, c) # {}
  <2>1. Try(id, c) = try_bitpack(c)
    BY <1>2 DEF Try
  <2>2. PICK n, mn, bw, ns : BitPackForm(c, n, mn, bw, ns)
    BY <1>2, <2>1, BitPackChunks
  <2>3. \A ch \in Try(id, c) : ch.codec = "BitPack" /\ ch.cnt = n /\ ch.bw = bw
    <3>1. Try(id, c) = {[codec |-> "BitPack", base |-> mn, bw |-> bw, cnt |-> n, bits |-> b] :
                          b \in PackAll(ns, bw)}
      BY <2>1, <2>2, Zenon DEF BitPackForm
    <3> QED
      BY <3>1
  <2>4. n \in Int /\ bw \in Int
    BY <2>2, BitsAssumption DEF BitPackForm
  <2>5. PICK p \in Int : p = Bytes(n * bw)
    BY <2>4
  <2>6. \A ch \in Try(id, c) : Size(c, ch) = 1 + (U64 + 1 + U64 + p)
    BY <2>3, <2>5 DEF Size
  <2>7. 1 + (U64 + 1 + U64 + p) \in Int
    OBVIOUS
  <2> QED
    BY <2>6, <2>7
<1>3. CASE id = "DictString" /\ Try(id, c) # {}
  <2>1. Try(id, c) = try_dict_string(c)
    BY <1>3 DEF Try
  <2>2. PICK n, dict, bw, ns : DictForm(c, n, dict, bw, ns)
    BY <1>3, <2>1, DictChunks
  <2>3. \A ch \in Try(id, c) : /\ ch.codec = "DictString" /\ ch.dict = dict
                               /\ ch.cnt = n /\ ch.bw = bw
    <3>1. Try(id, c) = {[codec |-> "DictString", dict |-> dict, cnt |-> n, bw |-> bw, bits |-> b] :
                          b \in PackAll(ns, bw)}
      BY <2>1, <2>2, Zenon DEF DictForm
    <3> QED
      BY <3>1
  <2>4. n \in Int /\ bw \in Int
    BY <2>2, BitsAssumption DEF DictForm
  <2>5. PICK p \in Int : p = Bytes(n * bw)
    BY <2>4
  <2>6. PICK q \in Int : q = StringBytes(dict)
    <3>1. dict \in Seq(Seq(Chars))
      BY <2>2 DEF DictForm
    <3> QED
      BY <3>1, StringBytesOf
  <2>7. \A ch \in Try(id, c) : Size(c, ch) = 1 + (U32 + q + U32 + 1 + p)
    BY <2>3, <2>5, <2>6 DEF Size
  <2>8. 1 + (U32 + q + U32 + 1 + p) \in Int
    OBVIOUS
  <2> QED
    BY <2>7, <2>8
<1>4. CASE id = "RleInt64" /\ Try(id, c) # {}
  <2>1. Try(id, c) = try_rle_int64(c)
    BY <1>4 DEF Try
  <2>2. c.type = "Int64" /\ Try(id, c) = {[codec |-> "RleInt64", runs |-> Runs(c.vals)]}
    BY <1>4, <2>1 DEF try_rle_int64
  <2>3. \A ch \in Try(id, c) : ch.codec = "RleInt64" /\ ch.runs = Runs(c.vals)
    BY <2>2
  <2>4. PICK l \in Int : l = Len(Runs(c.vals))
    <3>1. c.vals \in Seq(Int64s)
      BY <2>2, ColumnsAssumption
    <3>2. Runs(c.vals) \in Seq(Run)
      BY <3>1, RunsAreTheColumn
    <3> QED
      BY <3>2
  <2>5. PICK p \in Int : p = l * (U64 + U32)
    OBVIOUS
  <2>6. \A ch \in Try(id, c) : Size(c, ch) = 1 + (U32 + p)
    BY <2>3, <2>4, <2>5 DEF Size
  <2>7. 1 + (U32 + p) \in Int
    OBVIOUS
  <2> QED
    BY <2>6, <2>7
<1>5. CASE id = "DeltaInt64" /\ Try(id, c) # {}
  <2>1. Try(id, c) = try_delta_int64(c)
    BY <1>5 DEF Try
  <2>2. PICK n, mn, bw, ns : DeltaForm(c, n, mn, bw, ns)
    BY <1>5, <2>1, DeltaChunks
  <2>3. \A ch \in Try(id, c) : ch.codec = "DeltaInt64" /\ ch.cnt = n /\ ch.bw = bw
    <3>1. Try(id, c) = {[codec |-> "DeltaInt64", cnt |-> n, first |-> c.vals[1], mn |-> mn, bw |-> bw,
                          bits |-> b] :
                          b \in PackAll(ns, bw)}
      BY <2>1, <2>2, Zenon DEF DeltaForm
    <3> QED
      BY <3>1
  <2>4. n - 1 \in Int /\ bw \in Int
    BY <2>2, BitsAssumption DEF DeltaForm
  <2>5. PICK p \in Int : p = Bytes((n - 1) * bw)
    BY <2>4
  <2>6. \A ch \in Try(id, c) : Size(c, ch) = 1 + (U64 + U64 + U64 + 1 + p)
    BY <2>3, <2>5 DEF Size
  <2>7. 1 + (U64 + U64 + U64 + 1 + p) \in Int
    OBVIOUS
  <2> QED
    BY <2>6, <2>7
<1>6. CASE id = "DLBA" /\ Try(id, c) # {}
  <2>1. Try(id, c) = try_dlba(c)
    BY <1>6 DEF Try
  <2>2. PICK n, mn, bw, ns : DlbaForm(c, n, mn, bw, ns)
    BY <1>6, <2>1, DlbaChunks
  <2>3. \A ch \in Try(id, c) : /\ ch.codec = "DLBA" /\ ch.cnt = n /\ ch.bw = bw
                               /\ ch.blob = FlattenSeq(c.vals)
    <3>1. Try(id, c) = {[codec |-> "DLBA", cnt |-> n, mn |-> mn, bw |-> bw, bits |-> b,
                          blob |-> FlattenSeq(c.vals)] :
                          b \in PackAll(ns, bw)}
      BY <2>1, <2>2, Zenon DEF DlbaForm
    <3> QED
      BY <3>1
  <2>4. n \in Int /\ bw \in Int
    <3>1. n \in Nat \ {0} /\ bw \in 1..WordBits
      BY <2>2, Zenon DEF DlbaForm
    <3> QED
      BY <3>1, BitsAssumption
  <2>5. PICK p \in Int : p = Bytes(n * bw)
    BY <2>4
  <2>6. PICK q \in Int : q = Len(FlattenSeq(c.vals))
    <3>1. c.vals \in Seq(Seq(Chars)) /\ <<>> \in Seq(Chars)
      BY <2>2 DEF DlbaForm
    <3>2. FlattenSeq(c.vals) \in Seq(Chars)
      BY <3>1, FlattenAppend
    <3> QED
      BY <3>2
  <2>7. \A ch \in Try(id, c) : Size(c, ch) = 1 + (U32 + U32 + 1 + p + U64 + q)
    BY <2>3, <2>5, <2>6 DEF Size
  <2>8. 1 + (U32 + U32 + 1 + p + U64 + q) \in Int
    OBVIOUS
  <2> QED
    BY <2>7, <2>8
<1> QED
  BY <1>0, <1>1, <1>2, <1>3, <1>4, <1>5, <1>6 DEF CodecId

-----------------------------------------------------------------------------
(* The chunk written.                                                       *)

(* While encode_chunk runs, the best chunk so far is a chunk of some codec  *)
(* for this column, no longer than any chunk of a codec already tried.      *)
IsTry(ch, c)  == \E id \in CodecId : ch \in Try(id, c)
Shortest(ids) == \A id \in ids : \A ch \in Try(id, column) :
                                   Size(column, best) <= Size(column, ch)

CodecInv ==
    /\ column \in Columns /\ compress \in BOOLEAN
    /\ phase \in {"start", "consider", "written", "decoded"}
    /\ todo \in Seq(CodecId)
    /\ phase = "start" => candidate = <<>> /\ CodecId \ {"None"} \subseteq ToSet(todo)
    /\ phase # "start" => IsTry(best, column) /\ IsTry(candidate, column)
    /\ phase = "decoded" => decoded \in Decode(best)
    /\ phase = "consider" => Shortest(CodecId \ ToSet(todo))
    /\ phase \in {"written", "decoded"} /\ compress => Shortest(CodecId)

LEMMA InitCodec == Init => CodecInv
<1> SUFFICES ASSUME Init PROVE CodecInv
  OBVIOUS
<1>1. todo \in Seq(CodecId) /\ Len(todo) = 5
  BY DEF Init, CodecId
<1>2. CodecId \ {"None"} \subseteq ToSet(todo)
  <2>1. /\ todo[1] = "BitPack" /\ todo[2] = "DictString" /\ todo[3] = "RleInt64"
        /\ todo[4] = "DeltaInt64" /\ todo[5] = "DLBA"
    BY DEF Init
  <2>2. 1 \in DOMAIN todo /\ 2 \in DOMAIN todo /\ 3 \in DOMAIN todo
        /\ 4 \in DOMAIN todo /\ 5 \in DOMAIN todo
    BY <1>1
  <2> QED
    BY <2>1, <2>2 DEF CodecId, ToSet
<1> QED
  BY <1>1, <1>2 DEF Init, CodecInv

LEMMA StartEncodeCodec == CodecInv /\ StartEncode => CodecInv'
<1> SUFFICES ASSUME CodecInv, StartEncode PROVE CodecInv'
  OBVIOUS
<1>1. PICK ch : ch \in try_none(column) /\ best' = ch /\ candidate' = ch
  BY DEF StartEncode
<1>2. ch \in Try("None", column) /\ "None" \in CodecId
  BY <1>1 DEF Try, CodecId
<1>3. UNCHANGED <<column, compress, todo>>
  BY DEF StartEncode
<1>4. phase' \in {"consider", "written"} /\ (phase' = "written" => ~compress)
  BY DEF StartEncode
<1>5. (IsTry(best, column) /\ IsTry(candidate, column))'
  BY <1>1, <1>2, <1>3 DEF IsTry
<1>6. Shortest(CodecId \ ToSet(todo))'
  <2>1. PICK s \in Int : \A x \in Try("None", column) : Size(column, x) = s
    BY <1>2, OneSize DEF CodecInv
  <2>2. \A x \in Try("None", column) : Size(column, ch) <= Size(column, x)
    BY <1>2, <2>1
  <2>3. CodecId \ ToSet(todo) \subseteq {"None"}
    BY DEF CodecInv, StartEncode
  <2> QED
    BY <1>1, <1>3, <2>2, <2>3 DEF Shortest
<1> QED
  BY <1>3, <1>4, <1>5, <1>6 DEF CodecInv

LEMMA ConsiderCodec == CodecInv /\ Consider => CodecInv'
<1> SUFFICES ASSUME CodecInv, Consider PROVE CodecInv'
  OBVIOUS
<1>1. /\ column \in Columns /\ todo \in Seq(CodecId) /\ todo # <<>>
      /\ UNCHANGED <<column, compress, phase>> /\ phase = "consider"
      /\ todo' = Tail(todo)
  BY DEF CodecInv, Consider
<1>2. PICK id \in CodecId : id = Head(todo)
  BY <1>1
<1>3. todo' \in Seq(CodecId)
  BY <1>1
<1>4. \A other \in CodecId \ ToSet(todo') : other = id \/ other \in CodecId \ ToSet(todo)
  <2> SUFFICES ASSUME NEW other \in ToSet(todo), other # id PROVE other \in ToSet(Tail(todo))
    BY <1>1
  <2>1. PICK i \in 1..Len(todo) : other = todo[i]
    BY <1>1 DEF ToSet
  <2>2. i # 1
    BY <1>1, <1>2, <2>1
  <2>3. PICK k \in 1..Len(todo) - 1 : i = k + 1
    <3>1. Len(todo) \in Nat
      BY <1>1
    <3>2. i - 1 \in 1..Len(todo) - 1 /\ i = (i - 1) + 1
      BY <2>2, <3>1
    <3> QED
      BY <3>2
  <2>4. k \in DOMAIN Tail(todo) /\ Tail(todo)[k] = other
    BY <1>1, <2>1, <2>3
  <2> QED
    BY <2>4 DEF ToSet
<1>5. /\ IsTry(best, column) /\ IsTry(candidate, column)
      /\ Shortest(CodecId \ ToSet(todo))
  BY <1>1 DEF CodecInv
<1>6. PICK b \in Int : b = Size(column, best)
  BY <1>1, <1>5, OneSize DEF IsTry
<1>7. PICK s \in Int : \A x \in Try(id, column) : Size(column, x) = s
  BY <1>1, OneSize
<1>8. \A other \in CodecId \ ToSet(todo) : \A x \in Try(other, column) :
          Size(column, x) \in Int /\ b <= Size(column, x)
  <2> SUFFICES ASSUME NEW other \in CodecId \ ToSet(todo), NEW x \in Try(other, column)
               PROVE  Size(column, x) \in Int /\ b <= Size(column, x)
    OBVIOUS
  <2>1. b <= Size(column, x)
    BY <1>5, <1>6 DEF Shortest
  <2>2. PICK t \in Int : Size(column, x) = t
    BY <1>1, OneSize
  <2> QED
    BY <2>1, <2>2
<1>9. CASE Try(id, column) = {}
  <2>1. UNCHANGED <<best, candidate>>
    BY <1>2, <1>9 DEF Consider
  <2>2. (IsTry(best, column) /\ IsTry(candidate, column))'
    BY <1>1, <1>5, <2>1 DEF IsTry
  <2>3. Shortest(CodecId \ ToSet(todo))'
    BY <1>1, <1>4, <1>6, <1>8, <1>9, <2>1 DEF Shortest
  <2> QED
    BY <1>1, <1>3, <2>2, <2>3 DEF CodecInv
<1>10. CASE Try(id, column) # {}
  <2>1. PICK ch \in Try(id, column) :
          /\ candidate' = ch
          /\ best' = IF Size(column, ch) < Size(column, best) THEN ch ELSE best
    BY <1>2, <1>10 DEF Consider
  <2>2. (IsTry(best, column) /\ IsTry(candidate, column))'
    BY <1>1, <1>5, <2>1 DEF IsTry
  <2>3. PICK nb \in Int : nb = Size(column, best') /\ nb <= b /\ nb <= s
    <3>1. Size(column, ch) = s
      BY <1>7, <2>1
    <3>2. CASE s < b
      BY <1>6, <2>1, <3>1, <3>2
    <3>3. CASE ~(s < b)
      BY <1>6, <2>1, <3>1, <3>3
    <3> QED
      BY <3>2, <3>3
  <2>4. ASSUME NEW other \in CodecId \ ToSet(todo'), NEW x \in Try(other, column)
        PROVE  nb <= Size(column, x)
    <3>1. CASE other = id
      BY <1>7, <2>3, <3>1
    <3>2. CASE other \in CodecId \ ToSet(todo)
      BY <1>8, <2>3, <3>2
    <3> QED
      BY <1>4, <3>1, <3>2
  <2>5. Shortest(CodecId \ ToSet(todo))'
    BY <1>1, <2>3, <2>4 DEF Shortest
  <2> QED
    BY <1>1, <1>3, <2>2, <2>5 DEF CodecInv
<1> QED
  BY <1>9, <1>10

LEMMA WriteBestCodec == CodecInv /\ WriteBest => CodecInv'
<1> SUFFICES ASSUME CodecInv, WriteBest PROVE CodecInv'
  OBVIOUS
<1>1. Shortest(CodecId)'
  <2>1. ToSet(todo) = {}
    BY DEF WriteBest, ToSet
  <2>2. Shortest(CodecId)
    BY <2>1 DEF CodecInv, WriteBest
  <2> QED
    BY <2>2 DEF WriteBest, Shortest
<1> QED
  BY <1>1 DEF CodecInv, WriteBest, IsTry

LEMMA ReadBackCodec == CodecInv /\ ReadBack => CodecInv'
<1> SUFFICES ASSUME CodecInv, ReadBack PROVE CodecInv'
  OBVIOUS
<1>1. compress => Shortest(CodecId)'
  <2>1. compress => Shortest(CodecId)
    BY DEF CodecInv, ReadBack
  <2> QED
    BY <2>1 DEF ReadBack, Shortest
<1> QED
  BY <1>1 DEF CodecInv, ReadBack, IsTry

LEMMA CodecInvariant == Spec => []CodecInv
<1>1. CodecInv /\ [Next]_vars => CodecInv'
  <2> SUFFICES ASSUME CodecInv, [Next]_vars PROVE CodecInv'
    OBVIOUS
  <2>1. CASE UNCHANGED vars
    <3>1. compress => (phase \in {"written", "decoded"} => Shortest(CodecId)')
      BY <2>1 DEF CodecInv, vars, Shortest
    <3>2. phase = "consider" => Shortest(CodecId \ ToSet(todo))'
      BY <2>1 DEF CodecInv, vars, Shortest
    <3> QED
      BY <2>1, <3>1, <3>2 DEF CodecInv, vars, IsTry
  <2> QED
    BY <2>1, StartEncodeCodec, ConsiderCodec, WriteBestCodec, ReadBackCodec DEF Next
<1> QED
  BY <1>1, InitCodec, PTL DEF Spec

(* decode_chunk gives back what encode_chunk was given for each encoding    *)
(* that is tried, whichever chunk of those the bits allow, unless one of    *)
(* its packed numbers needs a ninth byte.                                   *)
THEOREM AllCandidatesAreExact == Spec => []CandidatesAreExact
<1>1. CodecInv => CandidatesAreExact
  <2> SUFFICES ASSUME CodecInv, candidate # <<>>, InWords(candidate)
               PROVE  Decode(candidate) = {Values(column.vals)}
    BY DEF CandidatesAreExact
  <2>1. column \in Columns /\ IsTry(candidate, column)
    BY DEF CodecInv
  <2> QED
    BY <2>1, TriesComeBack DEF IsTry
<1> QED
  BY <1>1, CodecInvariant, PTL

(* The chunk that encode_chunk writes with compression on is no longer than *)
(* any chunk that any codec has for the column.                             *)
THEOREM TheShortestIsWritten == Spec => []ShortestWins
<1>1. CodecInv => ShortestWins
  BY DEF CodecInv, ShortestWins, Shortest
<1> QED
  BY <1>1, CodecInvariant, PTL

(* Columns whose packed numbers stay below 2^57, with bytes of 8 bits and   *)
(* words of 64.  The differences between rows are packed as what they are   *)
(* above the smallest, which takes a bit more than the values.              *)
Room == WordBits - ByteBits
Narrow(c) ==
    /\ c.type = "Int64" => \A i, j \in 1..Len(c.vals) : c.vals[i] - c.vals[j] < Pow2[Room]
    /\ c.type = "String" => /\ Len(c.vals) <= Pow2[Room + 1]
                            /\ \A i \in 1..Len(c.vals) : Len(c.vals[i]) < Pow2[Room + 1]

LEMMA RoomIs ==
    /\ Room \in 0..WordBits /\ Room + 1 \in 1..WordBits
    /\ \E p \in Nat \ {0} : p = Pow2[Room] /\ Pow2[Room + 1] = 2 * p /\ p <= Half
<1>1. ByteBits \in Nat \ {0} /\ WordBits \in Nat \ {0} /\ ByteBits <= WordBits
  <2> SUFFICES ASSUME ByteBits > WordBits PROVE FALSE
    BY BitsAssumption
  <2>1. WordBits % ByteBits = WordBits
    BY BitsAssumption
  <2> QED
    BY <2>1, BitsAssumption
<1>2. PICK r \in 0..WordBits : r = Room /\ r + 1 \in 1..WordBits /\ (r + 1) - 1 = r
  BY <1>1 DEF Room
<1>3. Pow2[r + 1] = 2 * Pow2[r] /\ Pow2[r] \in Nat \ {0}
  BY <1>2, Pow2Unfolds
<1>4. Pow2[r] <= Half
  <2>1. WordBits - 1 \in 0..WordBits /\ r <= WordBits - 1
    BY <1>1, <1>2
  <2> QED
    BY <2>1, Pow2Grows DEF Half
<1> QED
  BY <1>2, <1>3, <1>4

LEMMA NarrowWidth ==
    ASSUME NEW range \in 0..2 * Half - 1, range < Pow2[Room + 1], NEW n \in Nat
    PROVE  FitWords(n, bits_for(range))
<1>1. PICK w \in 1..WordBits : w = bits_for(range) /\ w <= Room + 1
  BY BitsFor, RoomIs
<1>2. ByteBits \in Nat \ {0} /\ WordBits \in Nat \ {0} /\ w + ByteBits - 1 <= WordBits
  BY <1>1, BitsAssumption DEF Room
<1>3. ASSUME NEW i \in 1..n PROVE ~NinthByte(w, (i - 1) * w)
  <2>1. PICK p \in Int : p = (i - 1) * w
    BY <1>2
  <2>2. Shift(p) \in 0..ByteBits - 1
    BY <1>2 DEF Shift
  <2>3. ~NinthByte(w, p)
    BY <1>2, <2>2 DEF NinthByte
  <2> QED
    BY <2>1, <2>3
<1> QED
  BY <1>1, <1>3 DEF FitWords

LEMMA NarrowInWords ==
    ASSUME NEW c \in Columns, Narrow(c), NEW id \in CodecId, NEW ch \in Try(id, c)
    PROVE  InWords(ch)
<1>0. PICK p \in Nat \ {0} : p = Pow2[Room] /\ Pow2[Room + 1] = 2 * p /\ p <= Half
  BY RoomIs
<1>1. CASE id = "None"
  BY <1>1 DEF Try, try_none, InWords
<1>2. CASE id = "RleInt64"
  BY <1>2 DEF Try, try_rle_int64, InWords
<1>3. CASE id = "BitPack"
  <2>1. ch \in try_bitpack(c)
    BY <1>3 DEF Try
  <2>2. PICK n, mn, bw, ns : BitPackForm(c, n, mn, bw, ns)
    BY <2>1, BitPackChunks
  <2>3. ch.codec = "BitPack" /\ ch.cnt = n /\ ch.bw = bw
    <3>1. try_bitpack(c) = {[codec |-> "BitPack", base |-> mn, bw |-> bw, cnt |-> n,
                             bits |-> b] : b \in PackAll(ns, bw)}
      BY <2>2, Zenon DEF BitPackForm
    <3> QED
      BY <2>1, <3>1
  <2>4. PICK i \in 1..n, j \in 1..n, range \in 0..2 * Half - 1 :
          range = c.vals[i] - c.vals[j] /\ bw = bits_for(range)
    BY <2>2 DEF BitPackForm
  <2>5. n \in Nat /\ n = Len(c.vals) /\ c.type = "Int64"
    BY <2>2 DEF BitPackForm
  <2>6. range < p
    BY <1>0, <2>4, <2>5 DEF Narrow
  <2>7. range < Pow2[Room + 1]
    BY <1>0, <2>6, Halves
  <2>8. FitWords(n, bw)
    BY <2>4, <2>5, <2>7, NarrowWidth
  <2> QED
    BY <2>3, <2>8 DEF InWords, Numbers
<1>4. CASE id = "DictString"
  <2>1. ch \in try_dict_string(c)
    BY <1>4 DEF Try
  <2>2. PICK n, dict, bw, ns : DictForm(c, n, dict, bw, ns)
    BY <2>1, DictChunks
  <2>3. ch.codec = "DictString" /\ ch.cnt = n /\ ch.bw = bw
    <3>1. try_dict_string(c) = {[codec |-> "DictString", dict |-> dict, cnt |-> n, bw |-> bw,
                                 bits |-> b] : b \in PackAll(ns, bw)}
      BY <2>2, Zenon DEF DictForm
    <3> QED
      BY <2>1, <3>1
  <2>4. PICK range \in 0..2 * Half - 1 : range = Len(dict) - 1 /\ bw = bits_for(range)
    BY <2>2 DEF DictForm
  <2>5. n \in Nat /\ n = Len(c.vals) /\ c.type = "String" /\ Len(dict) \in 1..n
    BY <2>2 DEF DictForm
  <2>6. n <= 2 * p
    BY <1>0, <2>5 DEF Narrow
  <2>7. range < Pow2[Room + 1]
    BY <1>0, <2>4, <2>5, <2>6, Halves
  <2>8. FitWords(n, bw)
    BY <2>4, <2>5, <2>7, NarrowWidth
  <2> QED
    BY <2>3, <2>8 DEF InWords, Numbers
<1>5. CASE id = "DeltaInt64"
  <2>1. ch \in try_delta_int64(c)
    BY <1>5 DEF Try
  <2>2. PICK n, mn, bw, ns : DeltaForm(c, n, mn, bw, ns)
    BY <2>1, DeltaChunks
  <2>3. ch.codec = "DeltaInt64" /\ ch.cnt = n /\ ch.bw = bw
    <3>1. try_delta_int64(c) = {[codec |-> "DeltaInt64", cnt |-> n, first |-> c.vals[1],
                                 mn |-> mn, bw |-> bw, bits |-> b] : b \in PackAll(ns, bw)}
      BY <2>2, Zenon DEF DeltaForm
    <3> QED
      BY <2>1, <3>1
  <2>4. n \in Nat \ {0} /\ n = Len(c.vals) /\ c.type = "Int64" /\ c.vals \in Seq(Int64s)
    BY <2>2 DEF DeltaForm
  <2>5. PICK m \in Nat : m = n - 1
    BY <2>4
  <2>6. FitWords(m, bw)
    <3>1. CASE n = 1
      BY <2>5, <3>1 DEF FitWords
    <3>2. CASE n # 1
      <4>1. PICK i \in 1..n - 1, j \in 1..n - 1, range \in 0..2 * Half - 1 :
              /\ range = Wrapped(c.vals[i + 1] - c.vals[i]) - Wrapped(c.vals[j + 1] - c.vals[j])
              /\ bw = bits_for(range)
        BY <2>2, <3>2 DEF DeltaForm
      <4>2. \A k \in 1..n - 1 : \E d \in Int : /\ d = c.vals[k + 1] - c.vals[k]
                                             /\ Wrapped(d) = d /\ -p < d /\ d < p
        <5> SUFFICES ASSUME NEW k \in 1..n - 1
                     PROVE  \E d \in Int : /\ d = c.vals[k + 1] - c.vals[k]
                                           /\ Wrapped(d) = d /\ -p < d /\ d < p
          OBVIOUS
        <5>1. k \in 1..n /\ k + 1 \in 1..n
          BY <2>4
        <5>2. PICK x \in Int, y \in Int : x = c.vals[k] /\ y = c.vals[k + 1]
          <6>1. PICK vals \in Seq(Int64s) : vals = c.vals /\ n = Len(vals)
            BY <2>4
          <6>2. vals[k] \in Int64s /\ vals[k + 1] \in Int64s
            BY <5>1, <6>1
          <6> QED
            BY <6>1, <6>2, Halves
        <5>3. c.vals[k] - c.vals[k + 1] < Pow2[Room] /\ c.vals[k + 1] - c.vals[k] < Pow2[Room]
          BY <2>4, <5>1 DEF Narrow
        <5>4. PICK d \in Int : d = y - x /\ -p < d /\ d < p
          BY <1>0, <5>2, <5>3
        <5>5. Wrapped(d) = d
          <6>1. d \in Int64s
            BY <1>0, <5>4, Halves DEF Int64s
          <6> QED
            BY <6>1, Halves
        <5> QED
          BY <5>2, <5>4, <5>5
      <4>3. range < 2 * p
        BY <4>1, <4>2
      <4>4. range < Pow2[Room + 1]
        BY <1>0, <4>3
      <4> QED
        BY <4>1, <4>4, NarrowWidth
    <3> QED
      BY <3>1, <3>2
  <2> QED
    BY <2>3, <2>5, <2>6 DEF InWords, Numbers
<1>6. CASE id = "DLBA"
  <2>1. ch \in try_dlba(c)
    BY <1>6 DEF Try
  <2>2. PICK n, mn, bw, ns : DlbaForm(c, n, mn, bw, ns)
    BY <2>1, DlbaChunks
  <2>3. ch.codec = "DLBA" /\ ch.cnt = n /\ ch.bw = bw
    <3>1. try_dlba(c) = {[codec |-> "DLBA", cnt |-> n, mn |-> mn, bw |-> bw, bits |-> b,
                          blob |-> FlattenSeq(c.vals)] : b \in PackAll(ns, bw)}
      BY <2>2, Zenon DEF DlbaForm
    <3> QED
      BY <2>1, <3>1
  <2>4. PICK i \in 1..n, j \in 1..n, range \in 0..2 * Half - 1 :
          range = Len(c.vals[i]) - Len(c.vals[j]) /\ bw = bits_for(range)
    BY <2>2, Zenon DEF DlbaForm
  <2>5. n \in Nat /\ n = Len(c.vals) /\ c.type = "String" /\ c.vals \in Seq(Seq(Chars))
    <3>1. n \in Nat \ {0} /\ n = Len(c.vals) /\ c.type = "String" /\ c.vals \in Seq(Seq(Chars))
      BY <2>2, Zenon DEF DlbaForm
    <3> QED
      BY <3>1
  <2>6. PICK x \in Nat, y \in Nat : x = Len(c.vals[i]) /\ y = Len(c.vals[j])
    <3>1. PICK vals \in Seq(Seq(Chars)) : vals = c.vals /\ n = Len(vals)
      BY <2>5
    <3>2. vals[i] \in Seq(Chars) /\ vals[j] \in Seq(Chars)
      BY <3>1
    <3>3. Len(vals[i]) \in Nat /\ Len(vals[j]) \in Nat
      BY <3>2
    <3> QED
      BY <3>1, <3>3
  <2>7. x < 2 * p
    BY <1>0, <2>5, <2>6 DEF Narrow
  <2>8. range < Pow2[Room + 1]
    <3>1. range = x - y
      BY <2>4, <2>6
    <3> QED
      BY <1>0, <2>7, <3>1
  <2>9. FitWords(n, bw)
    BY <2>4, <2>5, <2>8, NarrowWidth
  <2> QED
    BY <2>3, <2>9 DEF InWords, Numbers
<1> QED
  BY <1>1, <1>2, <1>3, <1>4, <1>5, <1>6 DEF CodecId

(* A column is read back as it was written if no number of the chunk that   *)
(* won needs a ninth byte, whatever undefined behaviour does to others, and *)
(* so is every column whose numbers are narrow.                             *)
THEOREM ChunksInWordsComeBack ==
    Spec => [](InWords(best) \/ Narrow(column) => RoundTrip)
<1>1. CodecInv => (InWords(best) \/ Narrow(column) => RoundTrip)
  <2> SUFFICES ASSUME CodecInv, InWords(best) \/ Narrow(column), phase = "decoded"
               PROVE  decoded = Values(column.vals)
    BY DEF RoundTrip
  <2>1. column \in Columns /\ decoded \in Decode(best)
    BY DEF CodecInv
  <2>2. PICK id \in CodecId : best \in Try(id, column)
    BY DEF CodecInv, IsTry
  <2>3. InWords(best)
    BY <2>1, <2>2, NarrowInWords
  <2>4. Decode(best) = {Values(column.vals)}
    BY <2>1, <2>2, <2>3, TriesComeBack
  <2> QED
    BY <2>1, <2>4
<1> QED
  BY <1>1, CodecInvariant, PTL
=============================================================================
