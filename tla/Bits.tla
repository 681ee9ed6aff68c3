--------------------------------- MODULE Bits ---------------------------------
(***************************************************************************)
(* Words and packed buffers of codec.cpp.  A word is the set of positions  *)
(* of its one bits, and so is a buffer: | is union, and a shift moves      *)
(* positions.  What leaves a word of WordBits bits is lost.                *)
(***************************************************************************)
EXTENDS Integers

CONSTANTS
    ByteBits,       \* bits of a byte, 8
    WordBits        \* bits of a uint64_t, 64

ASSUME BitsAssumption ==
    /\ ByteBits \in Nat \ {0} /\ WordBits \in Nat \ {0}
    /\ WordBits % ByteBits = 0

Word == SUBSET (0..WordBits-1)

(* The position p within its byte. *)
Shift(p) == p % ByteBits

(* The mask of both loops: the low w bits, all of them if w >= 64. *)
Mask(w) == 0..(IF w < WordBits THEN w ELSE WordBits)-1

(* Fault: v is not masked before it is stored. *)
StoredUnmasked(v, w, p) == {p + k : k \in {j \in v : j + Shift(p) < WordBits}}

(* What bitpack_encode sets for the value v of width w at bit position p:   *)
(* v << (p % 8), cut to a word, byte by byte.                               *)
Stored(v, w, p) == {p + k : k \in {j \in v \cap Mask(w) : j + Shift(p) < WordBits}}

(* The loops touch a ninth byte when the value does not end in the word     *)
(* that starts with its first byte.                                         *)
NinthByte(w, p) == Shift(p) + w > WordBits

(* There, `shifted >> 64' is undefined: nothing, or the first byte again.   *)
Spills(v, w, p) ==
    {{}} \cup IF NinthByte(w, p)
              THEN {{p + WordBits + k : k \in {j \in v \cap Mask(w) :
                                                 j + Shift(p) < ByteBits}}}
              ELSE {}

(* Fault: the position is rounded down to its byte and the rest of it lost. *)
LoadedByteAligned(buf, w, p) ==
    {k \in Mask(w) : k + Shift(p) < WordBits /\ (p - Shift(p)) + k \in buf}

(* What bitpack_decode makes of the bits at p. *)
Loaded(buf, w, p) == {k \in Mask(w) : k + Shift(p) < WordBits /\ p + k \in buf}

(* And of the ninth byte, whose `<< 64' is undefined: nothing, or the byte  *)
(* or-ed into the low bits of the word.                                     *)
Ghosts(buf, w, p) ==
    {{}} \cup IF NinthByte(w, p)
              THEN {{k \in Mask(w) : k + Shift(p) < ByteBits
                                     /\ p + WordBits + k \in buf}}
              ELSE {}
=============================================================================
