------------------------------- MODULE Exprs -------------------------------
(***************************************************************************)
(* Expressions over the columns of a batch: every node is evaluated for    *)
(* every row, its operands first, and finds out what it was given by type()*)
(* where it asks at all; elsewhere a column is cast to the class it is     *)
(* taken for.  An expression is a sequence of nodes, operands before the   *)
(* nodes that use them, the columns it reads first.                        *)
(*                                                                         *)
(* A Float64 is its sign and its magnitude, a whole number here; its bits, *)
(* which is what is read when it is taken for an Int64, are those of the   *)
(* magnitude with the sign as top bit.  Strings are numbers in their order.*)
(***************************************************************************)
EXTENDS CxxInts, Sequences, FiniteSets

CONSTANTS
    Exprs,          \* the expressions evaluated
    Rows,           \* the rows they are evaluated for: a cell for each column
    IntMax          \* the greatest int64_t

IntMin  == -IntMax - 1
IntSize == 2 * (IntMax + 1)     \* 2^64
Int64s  == IntMin..IntMax
Fits(x)      == IntMin <= x /\ x <= IntMax
Wraparound(x) == ((x - IntMin) % IntSize) + IntMin

VARIABLES
    expr, row,
    cols,           \* the columns of the nodes evaluated, for that row
    outcome         \* "ok", "trap" or "undefined"

vars == <<expr, row, cols, outcome>>

(* A node has a comparison or an operation, integers (a column, a literal,  *)
(* the list of an IN) and operands.                                         *)
Node(f, op, k, kids) == [f |-> f, op |-> op, k |-> k, kids |-> kids]
Value(type, v)    == [type |-> type, v |-> v]
Double(neg, size) == [neg |-> neg, size |-> size]

Bits(d) == IF d.neg THEN d.size + IntMin ELSE d.size
CanBeInt(c) == c.type \in {"Int64", "Float64"}
CanBeStr(c) == c.type = "String"
(* Fault: a Float64 is converted. *)
as_int_converted(c) ==
    IF c.type = "Int64" THEN c.v ELSE IF c.v.neg THEN -c.v.size ELSE c.v.size

as_int(c)   == IF c.type = "Int64" THEN c.v ELSE Bits(c.v)
as_str(c)   == c.v

Truth(b) == IF b THEN 1 ELSE 0
CmpKinds == {"Eq", "Ne", "Lt", "Le", "Gt", "Ge"}
Compared(k, a, b) ==
    CASE k = "Eq" -> a = b [] k = "Ne" -> a # b [] k = "Lt" -> a < b
      [] k = "Le" -> a <= b [] k = "Gt" -> a > b [] k = "Ge" -> a >= b

Arith == {"Add", "Sub", "Mul", "Div", "Mod"}
(* In the integers, with 0 for a division by 0. *)
Exact(k, a, b) ==
    CASE k = "Add" -> a + b [] k = "Sub" -> a - b [] k = "Mul" -> a * b
      [] k = "Div" -> IF b = 0 THEN 0 ELSE Quotient(a, b)
      [] k = "Mod" -> IF b = 0 THEN 0 ELSE Remainder(a, b)

-----------------------------------------------------------------------------
(* The rows are of one table, and an expression is built by functions that  *)
(* take as many operands as the node has.                                   *)
Cells ==
    [type : {"Int64"}, v : Int64s] \cup [type : {"String"}, v : Int]
      \cup [type : {"Float64"}, v : [neg : BOOLEAN, size : 0..IntMax]]

IsNode(x, n) ==
    /\ x = Node(x.f, x.op, x.k, x.kids)
    /\ x.kids \in Seq(1..n - 1)
    /\ \/ x.f = "col" /\ \A r \in Rows : x.k[1] \in DOMAIN r
       \/ x.f = "int" /\ x.k[1] \in Int64s
       \/ x.f = "str" /\ x.k[1] \in Int
       \/ x.f = "cmp" /\ x.op \in CmpKinds /\ Len(x.kids) = 2
       \/ x.f \in {"and", "or"} /\ Len(x.kids) = 2
       \/ x.f = "not" /\ Len(x.kids) = 1
       \/ x.f = "arith" /\ x.op \in Arith /\ Len(x.kids) = 2
       \/ x.f = "in" /\ x.k \in Seq(Int64s) /\ Len(x.kids) = 1
       \/ x.f = "case" /\ Len(x.kids) = 3

ASSUME IntMaxAssumption == IntMax \in Nat \ {0}
ASSUME RowsAssumption == \A r \in Rows : r \in Seq(Cells)
ASSUME ExprsAssumption ==
    \A e \in Exprs : e = [n \in 1..Len(e) |-> e[n]] /\ \A n \in 1..Len(e) : IsNode(e[n], n)

-----------------------------------------------------------------------------
Init ==
    /\ expr \in Exprs /\ row \in Rows
    /\ cols = <<>> /\ outcome = "ok"

Me     == expr[Len(cols) + 1]
Kid(i) == cols[Me.kids[i]]
Running(f) == outcome = "ok" /\ Len(cols) < Len(expr) /\ Me.f \in f

Push(type, v) == cols' = Append(cols, Value(type, v)) /\ outcome' = outcome
Stop(how)     == cols' = cols /\ outcome' = how

EvalLeaf ==
    /\ Running({"col", "int", "str"})
    /\ CASE Me.f = "col" -> cols' = Append(cols, row[Me.k[1]]) /\ outcome' = outcome
         [] Me.f = "int" -> Push("Int64", Me.k[1])
         [] Me.f = "str" -> Push("String", Me.k[1])
    /\ UNCHANGED <<expr, row>>

(* Strings if both are; otherwise both are read as integers. *)
Compare ==
    /\ Running({"cmp"})
    /\ IF CanBeStr(Kid(1)) /\ CanBeStr(Kid(2))
         THEN Push("Int64", Truth(Compared(Me.op, as_str(Kid(1)), as_str(Kid(2)))))
       ELSE IF CanBeInt(Kid(1)) /\ CanBeInt(Kid(2))
         THEN Push("Int64", Truth(Compared(Me.op, as_int(Kid(1)), as_int(Kid(2)))))
       ELSE Stop("undefined")
    /\ UNCHANGED <<expr, row>>

(* Fault: AND is its second operand where the first holds. *)
BoolOfOperand ==
    /\ Running({"and", "or", "not"})
    /\ IF \A i \in DOMAIN Me.kids : CanBeInt(Kid(i))
         THEN LET holds(i) == as_int(Kid(i)) # 0
              IN  Push("Int64", CASE Me.f = "not" -> Truth(~holds(1))
                                  [] Me.f = "and" -> IF holds(1) THEN as_int(Kid(2)) ELSE 0
                                  [] Me.f = "or"  -> Truth(holds(1) \/ holds(2)))
         ELSE Stop("undefined")
    /\ UNCHANGED <<expr, row>>

(* Both operands have been evaluated already, whatever the first one says. *)
Bool ==
    /\ Running({"and", "or", "not"})
    /\ IF \A i \in DOMAIN Me.kids : CanBeInt(Kid(i))
         THEN LET holds(i) == as_int(Kid(i)) # 0
              IN  Push("Int64", Truth(CASE Me.f = "not" -> ~holds(1)
                                        [] Me.f = "and" -> holds(1) /\ holds(2)
                                        [] Me.f = "or"  -> holds(1) \/ holds(2)))
         ELSE Stop("undefined")
    /\ UNCHANGED <<expr, row>>

Overflows(k, a, b) == k \in {"Div", "Mod"} /\ a = IntMin /\ b = -1

(* The processor traps where the quotient of a division does not fit. *)
Arithmetic ==
    /\ Running({"arith"})
    /\ IF ~(CanBeInt(Kid(1)) /\ CanBeInt(Kid(2))) THEN Stop("undefined")
       ELSE LET a == as_int(Kid(1))
                b == as_int(Kid(2))
            IN  IF Overflows(Me.op, a, b) THEN Stop("trap")
                ELSE Push("Int64", Wraparound(Exact(Me.op, a, b)))
    /\ UNCHANGED <<expr, row>>

In ==
    /\ Running({"in"})
    /\ IF CanBeInt(Kid(1)) THEN Push("Int64", Truth(\E i \in DOMAIN Me.k : Me.k[i] = as_int(Kid(1))))
                           ELSE Stop("undefined")
    /\ UNCHANGED <<expr, row>>

(* Fault: every CASE is one of integers. *)
CaseOfInts ==
    /\ Running({"case"})
    /\ LET chosen == IF as_int(Kid(1)) # 0 THEN Kid(2) ELSE Kid(3)
       IN  IF CanBeInt(Kid(1)) /\ CanBeInt(chosen) THEN Push("Int64", as_int(chosen))
           ELSE Stop("undefined")
    /\ UNCHANGED <<expr, row>>

(* The THEN branch says what both branches are. *)
CaseWhen ==
    /\ Running({"case"})
    /\ IF ~CanBeInt(Kid(1)) THEN Stop("undefined")
       ELSE LET chosen == IF as_int(Kid(1)) # 0 THEN Kid(2) ELSE Kid(3)
            IN  IF CanBeStr(Kid(2))
                  THEN IF CanBeStr(chosen) THEN Push("String", as_str(chosen)) ELSE Stop("undefined")
                  ELSE IF CanBeInt(chosen) THEN Push("Int64", as_int(chosen)) ELSE Stop("undefined")
    /\ UNCHANGED <<expr, row>>

Next == EvalLeaf \/ Compare \/ Bool \/ Arithmetic \/ In \/ CaseWhen

Spec == Init /\ [][Next]_vars

-----------------------------------------------------------------------------
(* What an expression means: the type each node should have, "none" if its  *)
(* operands are not of the types it is for, and the value SQL gives it,     *)
(* which looks at the second operand of AND and OR and at the branches of   *)
(* CASE only where it needs them.                                           *)
TypeBy(x, types) ==
    LET of(i)   == types[x.kids[i]]
        all(t)  == \A i \in DOMAIN x.kids : of(i) = t
        int(ok) == IF ok THEN "Int64" ELSE "none"
    IN  CASE x.f = "col"  -> row[x.k[1]].type
          [] x.f = "int"  -> "Int64"
          [] x.f = "str"  -> "String"
          [] x.f = "cmp"  -> int(all("Int64") \/ all("String"))
          [] x.f = "case" -> IF of(1) = "Int64" /\ of(2) = of(3) /\ of(2) # "Float64"
                               THEN of(2) ELSE "none"
          [] OTHER        -> int(all("Int64"))

TypesOf(e) ==
    LET type[n \in 1..Len(e)] == TypeBy(e[n], type)
    IN  type

MeaningBy(x, of) ==
    LET kid(i) == of[x.kids[i]]
        yes(i) == kid(i).fits /\ kid(i).v # 0
        no(i)  == kid(i).fits /\ kid(i).v = 0
        is(fits, v) == [fits |-> fits, v |-> v]
        both   == kid(1).fits /\ kid(2).fits
    IN  CASE x.f = "col"   -> is(TRUE, row[x.k[1]].v)
          [] x.f \in {"int", "str"} -> is(TRUE, x.k[1])
          [] x.f = "cmp"   -> is(both, IF both THEN Truth(Compared(x.op, kid(1).v, kid(2).v)) ELSE 0)
          [] x.f = "not"   -> is(kid(1).fits, Truth(no(1)))
          [] x.f = "and"   -> is(no(1) \/ both, Truth(yes(1) /\ yes(2)))
          [] x.f = "or"    -> is(yes(1) \/ both, Truth(yes(1) \/ yes(2)))
          [] x.f = "arith" ->
               LET v == IF both THEN Exact(x.op, kid(1).v, kid(2).v) ELSE 0
               IN  is(both /\ Fits(v), v)
          [] x.f = "in"    -> is(kid(1).fits, Truth(kid(1).fits /\ \E i \in DOMAIN x.k : x.k[i] = kid(1).v))
          [] x.f = "case"  -> IF ~kid(1).fits THEN kid(1)
                              ELSE IF kid(1).v # 0 THEN kid(2) ELSE kid(3)

Meaning(e) ==
    LET value[n \in 1..Len(e)] == MeaningBy(e[n], value)
    IN  value

WellTyped(n) == TypesOf(expr)[n] # "none"

(* An expression whose operands have the types their nodes are for is never *)
(* read as something else: each node has the type the next one expects, and *)
(* no column is cast to a class it is not of.                               *)
TypesAreKept ==
    /\ outcome = "undefined" => ~WellTyped(Len(cols) + 1)
    /\ \A n \in DOMAIN cols : WellTyped(n) => cols[n].type = TypesOf(expr)[n]

(* The one thing that ends a query is the least number divided by -1.      *)
OnlyTheLeastTraps ==
    outcome = "trap" =>
      /\ Me.f = "arith" /\ Me.op \in {"Div", "Mod"}
      /\ as_int(Kid(1)) = IntMin /\ as_int(Kid(2)) = -1

(* Evaluating both sides of everything gives the value SQL does, wherever   *)
(* SQL needs no number that does not fit.  A number that does not fit in a  *)
(* branch not taken does no harm, unless the processor traps there: a CASE  *)
(* or an AND that asks first does not keep that from happening.             *)
EagerMeansLazy ==
    /\ \A n \in DOMAIN cols :
         WellTyped(n) /\ TypesOf(expr)[n] # "Float64" /\ Meaning(expr)[n].fits =>
           cols[n].v = Meaning(expr)[n].v
    /\ OnlyTheLeastTraps

(* Two Float64 columns are compared by their bits: rightly unless both are  *)
(* negative, when the order is the reverse, or zeroes of different signs.   *)
Number(d) == IF d.neg THEN -d.size ELSE d.size
DoublesCompared(k, a, b) ==
    IF a.neg /\ b.neg THEN Compared(k, Number(b), Number(a))
    ELSE IF a.size = 0 /\ b.size = 0 /\ a # b THEN Compared(k, Truth(b.neg), Truth(a.neg))
    ELSE Compared(k, Number(a), Number(b))
DoublesByBits ==
    \A n \in DOMAIN cols :
      expr[n].f = "cmp" =>
        LET a == cols[expr[n].kids[1]]
            b == cols[expr[n].kids[2]]
        IN  a.type = "Float64" /\ b.type = "Float64" =>
              cols[n].v = Truth(DoublesCompared(expr[n].op, a.v, b.v))

(* The inductive invariant: each column is what the three above say, given  *)
(* that the columns of its operands are.                                    *)
ExprTypeOK ==
    /\ expr \in Exprs /\ row \in Rows
    /\ cols \in Seq(Cells) /\ Len(cols) <= Len(expr)
    /\ outcome \in {"ok", "trap", "undefined"}
    /\ outcome # "ok" => Len(cols) < Len(expr)
ExprInv == ExprTypeOK /\ TypesAreKept /\ EagerMeansLazy /\ DoublesByBits
=============================================================================
