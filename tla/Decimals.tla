------------------------------ MODULE Decimals ------------------------------
(***************************************************************************)
(* Decimal numbers as integers of Scale digits after the point:            *)
(* ParseDecimal reads a text, FormatDecimal writes one and DecimalMul      *)
(* multiplies.  A text is a sequence of digits (the numbers below Base) and *)
(* of the three marks.                                                     *)
(***************************************************************************)
EXTENDS CxxInts, FiniteSets, SequencesExt

CONSTANTS
    Base,           \* 10
    Scale,          \* scale_
    DecimalBits     \* the bits of an int64_t

Minus == -1
Plus  == -2
Dot   == -3
Digit == 0..Base - 1
Numbers == Least(DecimalBits)..Greatest(DecimalBits)
Wrap(x) == Wrapped(x, DecimalBits)

Pow == Power(Base, Scale)       \* pow10_i64(scale_)

(* A power that an int64_t holds. *)
ASSUME DecimalsAssumption ==
    /\ Base \in Nat /\ Base >= 2 /\ Scale \in Nat /\ DecimalBits \in Nat \ {0}
    /\ Pow <= Greatest(DecimalBits)

-----------------------------------------------------------------------------
(* The digits from position i on, and the number they make. *)
DigitsFrom(s, i) ==
    LET end == Min({j \in i..Len(s) + 1 : j = Len(s) + 1 \/ s[j] \notin Digit})
    IN  SubSeq(s, i, end - 1)
ToNumber(digits) ==
    LET n[k \in 0..Len(digits)] == IF k = 0 THEN 0 ELSE Wrap(n[k - 1] * Base + digits[k])
    IN  n[Len(digits)]

(* Digits beyond the scale are passed over, missing ones are zeroes.        *)
Kept(frac)  == SubSeq(frac, 1, Min({Scale, Len(frac)}))
Pad(digits) == [k \in 1..Scale - Len(digits) |-> 0]

Signed(s) == s # <<>> /\ s[1] \in {Minus, Plus}

(* Fault: the sign is that of the whole part. *)
parse_sign_of_whole(s) ==
    LET start == IF Signed(s) THEN 2 ELSE 1
        sign  == IF Signed(s) /\ s[1] = Minus THEN -1 ELSE 1
        whole == DigitsFrom(s, start)
        point == start + Len(whole)
        frac  == IF point <= Len(s) /\ s[point] = Dot THEN DigitsFrom(s, point + 1) ELSE <<>>
    IN  Wrap(sign * Wrap(ToNumber(whole) * Pow) + ToNumber(Kept(frac) \o Pad(Kept(frac))))

(* What follows the number is not looked at.                                *)
parse(s) ==
    LET start == IF Signed(s) THEN 2 ELSE 1
        sign  == IF Signed(s) /\ s[1] = Minus THEN -1 ELSE 1
        whole == DigitsFrom(s, start)
        point == start + Len(whole)
        frac  == IF point <= Len(s) /\ s[point] = Dot THEN DigitsFrom(s, point + 1) ELSE <<>>
    IN  Wrap(sign * Wrap(Wrap(ToNumber(whole) * Pow) + ToNumber(Kept(frac) \o Pad(Kept(frac)))))

(* std::to_string. *)
Printed(n) ==
    LET digits[m \in 0..-Least(DecimalBits)] ==
          IF m < Base THEN <<m>> ELSE Append(digits[m \div Base], m % Base)
    IN  IF n < 0 THEN <<Minus>> \o digits[-n] ELSE digits[n]

(* std::abs leaves the least number negative. *)
format(n) ==
    LET a  == IF n < 0 THEN Wrap(-n) ELSE n
        fs == Printed(Remainder(a, Pow))
    IN  (IF n < 0 THEN <<Minus>> ELSE <<>>) \o Printed(Quotient(a, Pow)) \o
          (IF Scale = 0 THEN <<>>
           ELSE <<Dot>> \o Pad(fs) \o fs)

Mul(a, b) == Quotient(Wrap(a * b), Pow)
=============================================================================
