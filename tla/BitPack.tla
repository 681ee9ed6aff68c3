-------------------------------- MODULE BitPack --------------------------------
(***************************************************************************)
(* bitpack_encode and bitpack_decode, one value per step: the values of a  *)
(* chunk are packed one behind the other, each in width bits, and read     *)
(* back from the buffer.                                                   *)
(***************************************************************************)
EXTENDS Bits, Sequences

CONSTANT Inputs         \* the sequences of words packed

ASSUME InputsAssumption == Inputs \subseteq Seq(Word)

VARIABLES
    values,             \* the words to pack
    width,              \* bit_width
    buf,                \* the packed buffer
    bit_pos,            \* where the loop stands in it
    count,              \* how many values it has dealt with
    stage,              \* "encode", "decode" or "done"
    unpacked            \* the words read back

packVars == <<values, width, buf, bit_pos, count, stage, unpacked>>

PackInit ==
    /\ values \in Inputs /\ width \in 0..WordBits
    /\ buf = {} /\ bit_pos = 0 /\ count = 0
    /\ stage = "encode" /\ unpacked = <<>>

(* One turn of the loop of bitpack_encode. *)
EncodeValue ==
    /\ stage = "encode"
    /\ count < Len(values)
    /\ \E spill \in Spills(values[count + 1], width, bit_pos) :
         buf' = buf \cup Stored(values[count + 1], width, bit_pos) \cup spill
    /\ bit_pos' = bit_pos + width
    /\ count' = count + 1
    /\ UNCHANGED <<values, width, stage, unpacked>>

EndEncode ==
    /\ stage = "encode"
    /\ count = Len(values)
    /\ stage' = "decode"
    /\ bit_pos' = 0 /\ count' = 0
    /\ UNCHANGED <<values, width, buf, unpacked>>

(* One turn of the loop of bitpack_decode. *)
DecodeValue ==
    /\ stage = "decode"
    /\ count < Len(values)
    /\ \E ghost \in Ghosts(buf, width, bit_pos) :
         unpacked' = Append(unpacked, Loaded(buf, width, bit_pos) \cup ghost)
    /\ bit_pos' = bit_pos + width
    /\ count' = count + 1
    /\ UNCHANGED <<values, width, buf, stage>>

EndDecode ==
    /\ stage = "decode"
    /\ count = Len(values)
    /\ stage' = "done"
    /\ UNCHANGED <<values, width, buf, bit_pos, count, unpacked>>

PackNext == EncodeValue \/ EndEncode \/ DecodeValue \/ EndDecode

PackSpec == PackInit /\ [][PackNext]_packVars

-----------------------------------------------------------------------------
TypeOK ==
    /\ values \in Seq(Word) /\ width \in 0..WordBits
    /\ buf \subseteq Nat
    /\ count \in 0..Len(values) /\ bit_pos = count * width
    /\ stage \in {"encode", "decode", "done"}
    /\ unpacked \in Seq(Word)

(* None of the first n values needs the ninth byte; none of the chunk does. *)
(* With bytes of 8 bits and words of 64, the latter holds for every width   *)
(* but 59, 61, 62 and 63.                                                   *)
FitUpTo(n) == \A m \in 0..n-1 : ~NinthByte(width, m * width)
Fits       == FitUpTo(Len(values))

(* bitpack_decode gives back the low width bits of each value: packed       *)
(* neighbours share bytes and never disturb each other.                     *)
UnpackedIsPacked ==
    stage = "done" /\ Fits =>
        unpacked = [n \in 1..Len(values) |-> values[n] \cap Mask(width)]

(* Bit k of value n, unless the shift pushes it out of the word.            *)
HasBit(n, k) == k \in values[n] /\ k + Shift((n - 1) * width) < WordBits

(* The inductive invariant behind it, for chunks that fit and chunks that   *)
(* do not.  Slot n of the buffer holds what the shift leaves of value n; an *)
(* undefined shift of an earlier value can only change its first ByteBits   *)
(* bits.                                                                    *)
SlotHolds(n) ==
    \A k \in 0..width-1 :
        FitUpTo(n - 1) \/ k >= ByteBits => ((n - 1) * width + k \in buf <=> HasBit(n, k))

(* So it is for the first n values, and there is nothing beyond them but    *)
(* what an undefined shift may have left.                                   *)
Packed(n) == /\ \A m \in 1..n : SlotHolds(m)
             /\ \A b \in buf : b < n * width + IF FitUpTo(n) THEN 0 ELSE ByteBits

(* What is read back of value n is what its slot holds, and where its own   *)
(* shift is undefined, only its first ByteBits bits are in doubt.           *)
ReadBits(n) ==
    /\ unpacked[n] \subseteq Mask(width)
    /\ \A k \in 0..width-1 :
          FitUpTo(n) \/ k >= ByteBits => (k \in unpacked[n] <=> HasBit(n, k))

PackInv ==
    /\ stage = "encode" => Packed(count) /\ unpacked = <<>>
    /\ stage # "encode" => Packed(Len(values)) /\ Len(unpacked) = count
    /\ stage = "done" => count = Len(values)
    /\ \A n \in 1..Len(unpacked) : ReadBits(n)
=============================================================================
