------------------------------- MODULE ZOrder -------------------------------
(***************************************************************************)
(* ZOrder2D: the cell of a point on the Z-shaped curve, made by spreading  *)
(* the low Half bits of both coordinates and interleaving them.  A word is *)
(* the set of the positions of its bits; the shifts and masks of           *)
(* expand_bits_32 are the case Half = 32.                                  *)
(***************************************************************************)
EXTENDS CxxInts, SequencesExt

CONSTANTS
    Half,           \* the bits of a uint32_t, a power of two
    Shifts          \* Half \div 2, Half \div 4, ..., 1

(* The shifts of expand_bits_32 halve the word down to its single bits. *)
ASSUME ZOrderAssumption ==
    LET n == Len(Shifts)
    IN  n \in Nat /\ Half = Power(2, n) /\ Shifts = [i \in 1..n |-> Power(2, n - i)]

Full == 0..2 * Half - 1

BitsOf(n) == {k \in Full : (n \div Power(2, k)) % 2 = 1}

(* The masks: of every two blocks of s bits the lower one. *)
Mask(s) == {b \in Full : (b \div s) % 2 = 0}
Spread(w, s) == (w \cup {b + s : b \in w}) \cap Mask(s)

expand_bits(n) ==
    LET x[i \in 0..Len(Shifts)] ==
          IF i = 0 THEN {b \in BitsOf(n) : b < Half} ELSE Spread(x[i - 1], Shifts[i])
    IN  x[Len(Shifts)]

(* The number that the low m bits of a word are. *)
LowNumber(w, m) ==
    LET sum[k \in 0..m] ==
          IF k = 0 THEN 0 ELSE sum[k - 1] + (IF k - 1 \in w THEN Power(2, k - 1) ELSE 0)
    IN  sum[m]

(* A word of 2 * Half bits as the int64_t it is pushed as. *)
SignedWord(w) == Wrapped(LowNumber(w, 2 * Half), 2 * Half)

(* Fault: the bits of y are not moved to the places between those of x. *)
CellUnshifted(a, b) == SignedWord(expand_bits(a) \cup expand_bits(b))

Cell(a, b) == SignedWord(expand_bits(a) \cup {k + 1 : k \in expand_bits(b)})
=============================================================================
