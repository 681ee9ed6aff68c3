------------------------------- MODULE CxxInts -------------------------------
(* The integers of C++: division towards zero, and w bits that wrap around, *)
(* which is what signed overflow does in the builds of this program.        *)
EXTENDS Integers

Magnitude(v) == IF v < 0 THEN -v ELSE v
Quotient(v, d) ==
    IF (v >= 0) = (d > 0) THEN Magnitude(v) \div Magnitude(d)
                          ELSE -(Magnitude(v) \div Magnitude(d))
Remainder(v, d) == v - d * Quotient(v, d)

Power(b, n) == LET p[k \in 0..n] == IF k = 0 THEN 1 ELSE b * p[k - 1] IN p[n]

Greatest(w) == Power(2, w - 1) - 1
Least(w)    == -Power(2, w - 1)
FitsIn(x, w)  == Least(w) <= x /\ x <= Greatest(w)
Wrapped(x, w) == ((x - Least(w)) % Power(2, w)) + Least(w)
=============================================================================
