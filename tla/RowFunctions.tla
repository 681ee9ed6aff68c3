----------------------------- MODULE RowFunctions -----------------------------
(***************************************************************************)
(* The expressions that compute something of their own for each row: LIKE, *)
(* decimals, the z-order of two columns, and what looks into JSON objects  *)
(* and arrays.  A step evaluates one of them for a row; a text that was    *)
(* written can be read by the next, and a point follows another.           *)
(***************************************************************************)
EXTENDS Like, Decimals, ZOrder, TextFunctions

CONSTANTS
    Patterns, Subjects,     \* of LIKE
    DecimalTexts,           \* the texts of a column of decimals
    Coordinates,            \* the numbers in the columns of points
    Objects, Keys,          \* sequences of members, and the keys asked for
    Arrays, Elements        \* sequences of integers, as digits, and those asked for

(* Patterns and strings are of characters, and no character is a token.     *)
ASSUME CharactersAssumption ==
    \A t \in Patterns \cup Subjects :
      t \in Seq(Range(t)) /\ {"any", "anything"} \cap Range(t) = {}

(* A character of a decimal's text that is neither digit nor mark is another number. *)
ASSUME DecimalTextsAssumption == \A t \in DecimalTexts : t \in Seq(Int)

(* A coordinate is an int64_t; which of them it is does not matter. *)
ASSUME CoordinatesAssumption == Coordinates \subseteq Int

VARIABLE calls              \* what was evaluated: function, arguments, result

Call(f, in, out) == [f |-> f, in |-> in, out |-> out]
Evaluate(f, in, out) == calls' = Append(calls, Call(f, in, out))
Before(f) == Len(calls) = 1 /\ calls[1].f = f

NoCalls == calls = <<>>

EvalLike ==
    /\ calls = <<>>
    /\ \E p \in Patterns, s \in Subjects : Evaluate("like", <<p, s>>, Matches(s, compile(p)))

EvalFormat ==
    /\ calls = <<>>
    /\ \E n \in Numbers : Evaluate("format", n, format(n))

EvalParse ==
    \/ /\ calls = <<>>
       /\ \E t \in DecimalTexts : Evaluate("parse", t, parse(t))
    \/ /\ Before("format")
       /\ Evaluate("parse", calls[1].out, parse(calls[1].out))

EvalMul ==
    /\ calls = <<>>
    /\ \E a, b \in Numbers : Evaluate("mul", <<a, b>>, Mul(a, b))

EvalZOrder ==
    /\ calls = <<>> \/ Before("z")
    /\ \E x, y \in Coordinates : Evaluate("z", <<x, y>>, Cell(x, y))

EvalJson ==
    /\ calls = <<>>
    /\ \E o \in Objects, k \in Keys :
         Evaluate("json", <<o, k>>, json_extract_raw(ObjectText(o), k))

EvalArray ==
    /\ calls = <<>>
    /\ \E a \in Arrays, v \in Elements :
         \/ Evaluate("length", <<a, v>>, array_length(ArrayText(a)))
         \/ Evaluate("contains", <<a, v>>, array_contains_int(ArrayText(a), v))

EvalRow ==
    \/ EvalLike \/ EvalFormat \/ EvalParse \/ EvalMul \/ EvalZOrder \/ EvalJson \/ EvalArray

RowSpec == NoCalls /\ [][EvalRow]_calls

-----------------------------------------------------------------------------
Evaluated(f) == {calls[i] : i \in {j \in DOMAIN calls : calls[j].f = f}}

(* LIKE answers what SQL says, by whichever of the five ways compile chose. *)
(* But a regular expression misses strings with a line break (a CSV can     *)
(* hold them); it never accepts one that SQL would not, because what means  *)
(* something to an expression is escaped and the string must match from end *)
(* to end (LikeExpr::compile and LikeExpr::eval).                           *)
LikeIsSql ==
    \A c \in Evaluated("like") :
      LET p == c.in[1]
          s == c.in[2]
          misses == compile(p).mode = "Regex" /\ \E i \in DOMAIN s : s[i] = Break
      IN  /\ c.out => SqlLike(s, p)
          /\ ~misses /\ SqlLike(s, p) => c.out

(* A number that is written is read back as itself, -0.5 and the smallest   *)
(* fractions too; but the least number, which has no absolute value, comes  *)
(* back as 0 (FormatDecimal and ParseDecimal).                              *)
WrittenIsRead ==
    Len(calls) = 2 /\ calls[1].f = "format" =>
      calls[2].out = IF calls[1].in = Least(DecimalBits) THEN 0 ELSE calls[1].in

(* A text that is a decimal number is read as that number, cut off towards  *)
(* zero after Scale digits, if the result fits.                             *)
Exactly(digits) ==
    LET n[k \in 0..Len(digits)] == IF k = 0 THEN 0 ELSE n[k - 1] * Base + digits[k]
    IN  n[Len(digits)]
ReadsTheNumber ==
    \A c \in Evaluated("parse"), sign \in {<<>>, <<Minus>>, <<Plus>>} :
    \A i \in 0..Len(c.in) - Len(sign), j \in 0..Len(c.in) :
      LET whole == SubSeq(c.in, Len(sign) + 1, Len(sign) + i)
          frac  == SubSeq(c.in, Len(c.in) - j + 1, Len(c.in))
          size  == (Exactly(whole \o frac) * Pow) \div Power(Base, j)
      IN  /\ c.in = sign \o whole \o (IF j = 0 THEN <<>> ELSE <<Dot>> \o frac)
          /\ Range(whole \o frac) \subseteq Digit
          /\ size <= Greatest(DecimalBits)
          => c.out = IF sign = <<Minus>> THEN -size ELSE size

(* A product is cut off towards zero, whatever the signs, as long as the    *)
(* product of the two integers fits, which is Scale digits more than the    *)
(* result needs.                                                            *)
MulTruncates ==
    \A c \in Evaluated("mul") :
      FitsIn(c.in[1] * c.in[2], DecimalBits) =>
        LET product == c.in[1] * c.in[2]
            error   == product - c.out * Pow
        IN  /\ -Pow < error /\ error < Pow
            /\ product >= 0 => error >= 0
            /\ product <= 0 => error <= 0

(* Decimals keep their value, sign and fraction alike: written and read     *)
(* back, read from any text, multiplied.                                    *)
DecimalsAreRight == WrittenIsRead /\ ReadsTheNumber /\ MulTruncates

(* The cell of a point holds bit k of x at place 2k and bit k of y at place *)
(* 2k + 1; what a coordinate has beyond its low Half bits, a sign too, is   *)
(* lost.  So a point that is at least another in both coordinates does not  *)
(* come before it, and the cells of a box lie between those of its corners: *)
(* as long as y leaves its top bit, the sign of the cell, alone (ZOrder2D). *)
InBox(a, b) ==
    /\ 0 <= a[1] /\ a[1] <= b[1] /\ b[1] < Power(2, Half)
    /\ 0 <= a[2] /\ a[2] <= b[2] /\ b[2] < Power(2, Half - 1)
CellsKeepOrder ==
    /\ \A c \in Evaluated("z"), k \in 0..Half - 1 :
         /\ 2 * k \in BitsOf(c.out) <=> k \in BitsOf(c.in[1])
         /\ 2 * k + 1 \in BitsOf(c.out) <=> k \in BitsOf(c.in[2])
    /\ \A a, b \in Evaluated("z") : InBox(a.in, b.in) => a.out <= b.out

=============================================================================
