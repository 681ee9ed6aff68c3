----------------------------- MODULE Accumulators -----------------------------
(***************************************************************************)
(* What the aggregates make of a column of any type, batch by batch: the    *)
(* accumulators of GlobalAggregateOperator, which folds whole batches with  *)
(* the functions of aggregation.cpp, beside those of HashAggregateOperator, *)
(* which folds row by row, both fed the same batches of one group.          *)
(*                                                                         *)
(* A sum of Int64s that leaves their range wraps around: the overflow is   *)
(* undefined in C++, and wraps in every build of the program.  A double    *)
(* is an integer number of ticks, TicksPerMicro of them to the last of the *)
(* six decimals std::to_string prints; it neither rounds nor overflows     *)
(* here.  A string is its place in the order of strings, "" being 0.       *)
(***************************************************************************)
EXTENDS Integers, FiniteSets, Sequences

CONSTANTS
    IntMax,         \* INT64_MAX: 2^63 - 1
    TicksPerMicro,  \* ticks of a double in a unit of the last printed decimal
    Int64s,         \* the values of an Int64 column
    Float64s,       \* of a Float64 column
    Strings,        \* of a String column
    MaxBatch,       \* bound: rows of a batch
    MaxSeen         \* bound: rows in all

ASSUME BitsAssumption == IntMax \in Nat /\ TicksPerMicro \in Nat \ {0}

IntMin  == -IntMax - 1
IntSize == 2 * (IntMax + 1)     \* 2^64

ASSUME ValuesAssumption ==
    Int64s \subseteq IntMin..IntMax /\ Float64s \subseteq Int /\ Strings \subseteq Nat
ASSUME BatchAssumption == MaxBatch \in Nat /\ MaxSeen \in Nat

VARIABLES
    type,           \* the type of the column
    acc,            \* Acc of the global aggregate
    hash,           \* AggAcc of the one group of the hash aggregate
    distinct,       \* its set of texts, for CountDistinct
    threw,          \* the global aggregate has thrown
    seen            \* history: the values of the column so far

accVars == <<type, acc, hash, distinct, threw, seen>>

Values(t) == CASE t = "Int64" -> Int64s [] t = "Float64" -> Float64s [] t = "String" -> Strings

Wrap(v) == ((v - IntMin) % IntSize) + IntMin

(* Fault: one addend takes the sum past the end, and it stays there. *)
PlusSaturates(a, b) == IF a + b > IntMax THEN IntMax ELSE IF a + b < IntMin THEN IntMin ELSE a + b

(* The addition of two int64_t. *)
Plus(a, b) == Wrap(a + b)

Smaller(a, b) == IF b < a THEN b ELSE a
Greater(a, b) == IF a < b THEN b ELSE a

-----------------------------------------------------------------------------
(* aggregation.cpp, on the Int64 column of one batch. *)

ColumnSum(col) ==
    LET sum[k \in 0..Len(col)] == IF k = 0 THEN 0 ELSE Plus(sum[k - 1], col[k])
    IN  sum[Len(col)]
ColumnMin(col) ==
    LET min[k \in 0..Len(col)] == IF k = 0 THEN IntMax ELSE Smaller(min[k - 1], col[k])
    IN  min[Len(col)]
ColumnMax(col) ==
    LET max[k \in 0..Len(col)] == IF k = 0 THEN IntMin ELSE Greater(max[k - 1], col[k])
    IN  max[Len(col)]

(* A double to its sixth decimal; a tie goes away from zero.                *)
Printed(v) ==
    (IF v >= 0 THEN 1 ELSE -1)
      * ((2 * (IF v >= 0 THEN v ELSE -v) + TicksPerMicro) \div (2 * TicksPerMicro))

(* get_string of a cell, up to what tells texts apart.  Only a double loses *)
(* anything, what lies behind its sixth decimal; its sign stays, also that  *)
(* of -0.000000.                                                            *)
Text(t, v) == IF t = "Float64" THEN <<v < 0, Printed(v)>> ELSE v

-----------------------------------------------------------------------------
NoAcc == [count |-> 0, sum_i |-> 0, min_i |-> IntMax, max_i |-> IntMin]

(* Infinities are no number of ticks; no answer shows one. *)
NoAggAcc == [count |-> 0, sum_i |-> 0, min_i |-> IntMax, max_i |-> IntMin, sum_f |-> 0,
             min_s |-> 0, max_s |-> 0, has_str |-> FALSE, src_type |-> "Int64"]

(* Fault: a batch without rows resets the extremes. *)
AddBatchOfNone(a, col) ==
    [count |-> a.count + Len(col),
     sum_i |-> Plus(a.sum_i, ColumnSum(col)),
     min_i |-> IF col = <<>> THEN IntMax ELSE Smaller(a.min_i, ColumnMin(col)),
     max_i |-> Greater(a.max_i, ColumnMax(col))]

(* The Acc after a batch.  Min and Max throw for a column without values,   *)
(* so an empty batch is passed over.                                        *)
AddBatch(a, col) ==
    IF col = <<>> THEN a
    ELSE [count |-> a.count + Len(col),
          sum_i |-> Plus(a.sum_i, ColumnSum(col)),
          min_i |-> Smaller(a.min_i, ColumnMin(col)),
          max_i |-> Greater(a.max_i, ColumnMax(col))]

(* Fault: a first string is compared with the empty one. *)
AddRowWithoutFlag(t, a, v) ==
    CASE t = "String"  -> [a EXCEPT !.count = @ + 1, !.src_type = t, !.has_str = TRUE,
                                    !.min_s = Smaller(@, v), !.max_s = Greater(@, v)]
      [] t = "Float64" -> [a EXCEPT !.count = @ + 1, !.src_type = t, !.sum_f = @ + v]
      [] t = "Int64"   -> [a EXCEPT !.count = @ + 1, !.src_type = t, !.sum_i = Plus(@, v),
                                    !.min_i = Smaller(@, v), !.max_i = Greater(@, v)]

(* The AggAcc after one row.  min_f and max_f are left out: they are kept   *)
(* and never read.                                                          *)
AddRow(t, a, v) ==
    LET b == [a EXCEPT !.count = @ + 1, !.src_type = t]
    IN  CASE t = "String"  -> [b EXCEPT !.has_str = TRUE,
                                 !.min_s = IF a.has_str THEN Smaller(@, v) ELSE v,
                                 !.max_s = IF a.has_str THEN Greater(@, v) ELSE v]
          [] t = "Float64" -> [b EXCEPT !.sum_f = @ + v]
          [] t = "Int64"   -> [b EXCEPT !.sum_i = Plus(@, v),
                                        !.min_i = Smaller(@, v), !.max_i = Greater(@, v)]

(* And after the rows of a batch. *)
AddRows(t, a, col) ==
    LET after[k \in 0..Len(col)] == IF k = 0 THEN a ELSE AddRow(t, after[k - 1], col[k])
    IN  after[Len(col)]

AccInit ==
        /\ type \in {"Int64", "Float64", "String"}
        /\ acc = NoAcc /\ hash = NoAggAcc /\ distinct = {} /\ threw = FALSE /\ seen = <<>>

(* Both aggregates are handed a batch; the global one throws unless its    *)
(* column is an Int64 column, rows or no rows.                              *)
AggregateBatch(col) ==
    /\ Len(seen) + Len(col) <= MaxSeen
    /\ IF type = "Int64" THEN threw' = threw /\ acc' = AddBatch(acc, col)
                         ELSE threw' = TRUE /\ acc' = acc
    /\ hash' = AddRows(type, hash, col)
    /\ distinct' = distinct \cup {Text(type, col[i]) : i \in DOMAIN col}
    /\ seen' = seen \o col
    /\ UNCHANGED type

AccNext == \E n \in 0..MaxBatch : \E col \in [1..n -> Values(type)] : AggregateBatch(col)

AccSpec == AccInit /\ [][AccNext]_accVars

-----------------------------------------------------------------------------
(* The answers, if the child ended now.  An average is the pair of what is  *)
(* divided, in ticks for a Float64 column, and what it is divided by; 0 of  *)
(* 1 where there was no row.                                                *)

GlobalAnswer(kind) ==
    CASE kind = "Count" -> acc.count
      [] kind = "Sum"   -> acc.sum_i
      [] kind = "Avg"   -> IF acc.count = 0 THEN <<0, 1>> ELSE <<acc.sum_i, acc.count>>
      [] kind = "Min"   -> IF acc.count = 0 THEN 0 ELSE acc.min_i
      [] kind = "Max"   -> IF acc.count = 0 THEN 0 ELSE acc.max_i

HashAnswer(kind) ==
    CASE kind = "Count"         -> hash.count
      [] kind = "CountDistinct" -> Cardinality(distinct)
      [] kind = "Sum"           -> hash.sum_i
      [] kind = "Avg"           ->
           IF hash.count = 0 THEN <<0, 1>>
           ELSE <<IF hash.src_type = "Float64" THEN hash.sum_f ELSE hash.sum_i, hash.count>>
      [] kind \in {"Min", "Max"} ->
           IF hash.src_type = "String"
             THEN IF ~hash.has_str THEN 0 ELSE IF kind = "Min" THEN hash.min_s ELSE hash.max_s
             ELSE IF hash.count = 0 THEN 0 ELSE IF kind = "Min" THEN hash.min_i ELSE hash.max_i

-----------------------------------------------------------------------------
Seen  == {seen[i] : i \in DOMAIN seen}
Summed(s) ==
    LET sum[k \in 0..Len(s)] == IF k = 0 THEN 0 ELSE sum[k - 1] + s[k]
    IN  sum
Total == Summed(seen)[Len(seen)]

(* A query gets the same from both operators: queries.cpp uses the one for  *)
(* totals and the other for groups, and an answer must not depend on that.  *)
OperatorsAgree ==
    ~threw => \A kind \in {"Count", "Sum", "Avg", "Min", "Max"} :
                 GlobalAnswer(kind) = HashAnswer(kind)

(* A sum is right whenever it fits into an Int64, also when the sum of some *)
(* batches before it did not, and however the rows are cut into batches; so *)
(* is the average of integers.                                              *)
SumsThatFitAreRight ==
    type = "Int64" /\ Total \in IntMin..IntMax =>
        /\ HashAnswer("Sum") = Total
        /\ seen # <<>> => HashAnswer("Avg") = <<Total, Len(seen)>>

(* Extremes, averages and counts are those of the rows seen. *)
ExtremesAreSeen ==
    /\ HashAnswer("Min") \in Seen /\ \A v \in Seen : HashAnswer("Min") <= v
    /\ HashAnswer("Max") \in Seen /\ \A v \in Seen : HashAnswer("Max") >= v
    /\ HashAnswer("CountDistinct") = Cardinality(Seen)

(* What HashAggregateOperator answers for Sum, Min and Max of doubles comes *)
(* from the accumulators of the integers and says nothing of the data.      *)
DoublesHaveNoSumOrExtremes ==
    /\ HashAnswer("Sum") = 0
    /\ HashAnswer("Min") = IntMax /\ HashAnswer("Max") = IntMin

(* And distinct doubles count once for all that print alike: never more     *)
(* than there are, never two for one that is a whole number of the last     *)
(* decimal, and two at least if they are more than a decimal apart.         *)
DistinctDoublesByText ==
    /\ HashAnswer("CountDistinct") <= Cardinality(Seen)
    /\ (\A v \in Seen : v % TicksPerMicro = 0) =>
         HashAnswer("CountDistinct") = Cardinality(Seen)
    /\ \A v, w \in Seen :
         v < w /\ w - v > TicksPerMicro => HashAnswer("CountDistinct") >= 2

(* Over no rows, which only a query without group columns answers for,      *)
(* nothing of the accumulators' first values shows, whatever the type.      *)
NoRowsAnswerZero ==
    /\ \A kind \in {"Count", "CountDistinct", "Sum", "Min", "Max"} : HashAnswer(kind) = 0
    /\ HashAnswer("Avg") = <<0, 1>>

(* HashAggregateOperator answers for the rows seen, whatever the batches    *)
(* and also if there was none; but of doubles only their number and average *)
(* are those of the rows.                                                   *)
AnswersAreOfTheRows ==
    IF seen = <<>> THEN NoRowsAnswerZero
    ELSE /\ HashAnswer("Count") = Len(seen)
         /\ IF type = "Float64"
              THEN /\ HashAnswer("Avg") = <<Total, Len(seen)>>
                   /\ DoublesHaveNoSumOrExtremes /\ DistinctDoublesByText
              ELSE ExtremesAreSeen
=============================================================================
