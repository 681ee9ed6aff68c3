------------------------------- MODULE MCCodecs -------------------------------
(* Instances of Codecs for TLC: bytes of eight bits and words of sixteen.   *)
(* MCColumns holds numbers whose widths need no ninth byte, the wrap from   *)
(* one end of the range to the other, a ramp that DeltaInt64 wins, and      *)
(* strings with repetitions and without.  The column of MCWide spans 2^14,  *)
(* which takes 15 bits: in words of 64, that is 2^62 and 63 bits.  It is as *)
(* long as it takes for BitPack to win, and its other numbers have no bits  *)
(* that undefined behaviour could move.                                     *)
EXTENDS Codecs

Upto(n, S)    == UNION {[1..k -> S] : k \in 0..n}
Typed(t, S)   == {[type |-> t, vals |-> v] : v \in S}
MCChars       == {"a", "b"}
Letter(n)     == IF n % 2 = 0 THEN "a" ELSE "b"

MCStrings  == {<<>>, <<"a">>, <<"b">>, <<"a", "b", "a">>}
MCLong     == [i \in 1..8 |-> <<Letter(i), Letter(i \div 2), Letter(i \div 4)>>]

MCColumns ==
    Typed("Int64", Upto(5, {-1, 0, 4}) \cup Upto(4, {-32768, 32767})
                     \cup {[i \in 1..7 |-> 100 * i]})
      \cup Typed("Float64", Upto(2, {1, 2}))
      \cup Typed("String", Upto(4, MCStrings) \cup {MCLong})

MCWide == Typed("Int64", {[i \in 1..48 |-> IF i = 5 THEN 16384
                                          ELSE IF i % 2 = 0 THEN 0 ELSE 256]})
=============================================================================
