----------------------------- MODULE ExprProofs -----------------------------
(***************************************************************************)
(* What the evaluation of an expression promises, for expressions of any   *)
(* size and rows of any cells: the invariant of Exprs is inductive.  The   *)
(* type and the meaning of a node are recursive over its operands; that    *)
(* there are such functions is shown first, node by node.  Then, of the    *)
(* functions of RowFunctions, that LIKE answers what SQL says, that        *)
(* decimals keep their value and that cells keep the order of points.      *)
(***************************************************************************)
EXTENDS Exprs, RowFunctions, LoopTheorems

-----------------------------------------------------------------------------
(* Nodes and their operands. *)

LEMMA ExprNodes ==
    ASSUME NEW e \in Exprs, NEW n \in 1..Len(e)
    PROVE  /\ Len(e) \in Nat
           /\ IsNode(e[n], n)
BY ExprsAssumption

LEMMA Operands ==
    ASSUME NEW x, NEW n \in Nat, IsNode(x, n)
    PROVE  /\ \A i \in DOMAIN x.kids : x.kids[i] \in 1..n - 1
           /\ x.f = "cmp" \/ x.f \in {"and", "or"} \/ x.f = "arith" =>
                x.kids[1] \in 1..n - 1 /\ x.kids[2] \in 1..n - 1 /\ DOMAIN x.kids = 1..2
           /\ x.f = "not" \/ x.f = "in" => x.kids[1] \in 1..n - 1 /\ DOMAIN x.kids = 1..1
           /\ x.f = "case" =>
                /\ x.kids[1] \in 1..n - 1 /\ x.kids[2] \in 1..n - 1 /\ x.kids[3] \in 1..n - 1
                /\ DOMAIN x.kids = 1..3
           /\ x.f \in {"col", "int", "str", "cmp", "and", "or", "not", "arith", "in", "case"}
<1>1. x.kids \in Seq(1..n - 1)
  BY DEF IsNode
<1>2. /\ x.f \in {"col", "int", "str", "cmp", "and", "or", "not", "arith", "in", "case"}
      /\ x.f = "cmp" \/ x.f \in {"and", "or"} \/ x.f = "arith" => Len(x.kids) = 2
      /\ x.f = "not" \/ x.f = "in" => Len(x.kids) = 1
      /\ x.f = "case" => Len(x.kids) = 3
  BY DEF IsNode
<1>3. PICK kids : kids = x.kids
  OBVIOUS
<1>4. /\ kids \in Seq(1..n - 1) /\ DOMAIN kids = 1..Len(kids)
      /\ \A i \in DOMAIN kids : kids[i] \in 1..n - 1
  BY <1>1, <1>3
<1>5. /\ x.f = "cmp" \/ x.f \in {"and", "or"} \/ x.f = "arith" => Len(kids) = 2
      /\ x.f = "not" \/ x.f = "in" => Len(kids) = 1
      /\ x.f = "case" => Len(kids) = 3
  BY <1>2, <1>3
<1>6. /\ Len(kids) = 1 => kids[1] \in 1..n - 1
      /\ Len(kids) = 2 => kids[1] \in 1..n - 1 /\ kids[2] \in 1..n - 1
      /\ Len(kids) = 3 => kids[1] \in 1..n - 1 /\ kids[2] \in 1..n - 1 /\ kids[3] \in 1..n - 1
  BY <1>4
<1>7. /\ x.f = "cmp" \/ x.f \in {"and", "or"} \/ x.f = "arith" =>
           kids[1] \in 1..n - 1 /\ kids[2] \in 1..n - 1 /\ DOMAIN kids = 1..2
      /\ x.f = "not" \/ x.f = "in" => kids[1] \in 1..n - 1 /\ DOMAIN kids = 1..1
      /\ x.f = "case" =>
           /\ kids[1] \in 1..n - 1 /\ kids[2] \in 1..n - 1 /\ kids[3] \in 1..n - 1
           /\ DOMAIN kids = 1..3
  BY <1>4, <1>5, <1>6
<1> QED
  BY <1>2, <1>3, <1>4, <1>7

(* The type of a node depends on those of its operands only. *)
LEMMA TypeByOperands ==
    ASSUME NEW x, NEW n \in Nat, IsNode(x, n), NEW g, NEW h, \A m \in 1..n - 1 : g[m] = h[m]
    PROVE  TypeBy(x, g) = TypeBy(x, h)
<1>1. \A i \in DOMAIN x.kids : g[x.kids[i]] = h[x.kids[i]]
  BY Operands
<1>2. x.f = "case" => g[x.kids[1]] = h[x.kids[1]] /\ g[x.kids[2]] = h[x.kids[2]] /\ g[x.kids[3]] = h[x.kids[3]]
  BY Operands
<1> QED
  BY <1>1, <1>2 DEF TypeBy

LEMMA MeaningByOperands ==
    ASSUME NEW x, NEW n \in Nat, IsNode(x, n), NEW g, NEW h, \A m \in 1..n - 1 : g[m] = h[m]
    PROVE  MeaningBy(x, g) = MeaningBy(x, h)
<1>1. /\ x.f \in {"cmp", "and", "or", "arith", "not", "in", "case"} => g[x.kids[1]] = h[x.kids[1]]
      /\ x.f \in {"cmp", "and", "or", "arith", "case"} => g[x.kids[2]] = h[x.kids[2]]
      /\ x.f = "case" => g[x.kids[3]] = h[x.kids[3]]
      /\ x.f \in {"col", "int", "str", "cmp", "and", "or", "not", "arith", "in", "case"}
  BY Operands
<1>2. CASE x.f \in {"col", "int", "str"}
  BY <1>2 DEF MeaningBy
<1>3. CASE x.f = "cmp"
  BY <1>1, <1>3 DEF MeaningBy
<1>4. CASE x.f \in {"and", "or"}
  BY <1>1, <1>4 DEF MeaningBy
<1>5. CASE x.f \in {"not", "in"}
  BY <1>1, <1>5 DEF MeaningBy
<1>6. CASE x.f = "arith"
  BY <1>1, <1>6 DEF MeaningBy
<1>7. CASE x.f = "case"
  BY <1>1, <1>7 DEF MeaningBy
<1> QED
  BY <1>1, <1>2, <1>3, <1>4, <1>5, <1>6, <1>7

(* So there is a function that gives each node its type. *)
LEMMA TypesExist ==
    ASSUME NEW e \in Exprs
    PROVE  \E g : g = [n \in 1..Len(e) |-> TypeBy(e[n], g)]
<1>0. Len(e) \in Nat
  BY ExprsAssumption DEF ExprsAssumption
<1> DEFINE Good == {k \in 0..Len(e) : \E g : \A n \in 1..k : g[n] = TypeBy(e[n], g)}
<1>1. 0 \in Good
  BY <1>0
<1>2. ASSUME NEW k \in 0..Len(e), k \in Good, k < Len(e) PROVE k + 1 \in Good
  <2>1. PICK g : \A n \in 1..k : g[n] = TypeBy(e[n], g)
    BY <1>2
  <2> DEFINE h == [n \in 1..k + 1 |-> TypeBy(e[n], g)]
  <2>2. \A n \in 1..k : h[n] = g[n]
    BY <1>0, <2>1
  <2>3. ASSUME NEW n \in 1..k + 1 PROVE h[n] = TypeBy(e[n], h)
    <3>1. n \in 1..Len(e) /\ n \in Nat /\ \A m \in 1..n - 1 : m \in 1..k
      BY <1>0, <1>2
    <3>2. h[n] = TypeBy(e[n], g)
      OBVIOUS
    <3> HIDE DEF h
    <3>3. \A m \in 1..n - 1 : g[m] = h[m]
      BY <3>1, <2>2
    <3>4. IsNode(e[n], n)
      BY <3>1, ExprNodes
    <3> QED
      BY <3>1, <3>2, <3>3, <3>4, TypeByOperands
  <2> HIDE DEF h
  <2>4. k + 1 \in 0..Len(e)
    BY <1>0, <1>2
  <2> QED
    BY <2>3, <2>4
<1>3. Len(e) \in Good
  <2> HIDE DEF Good
  <2>1. 0..Len(e) \subseteq Good
    BY <1>0, <1>1, <1>2, UpToN
  <2> QED
    BY <1>0, <2>1
<1>4. PICK g : \A n \in 1..Len(e) : g[n] = TypeBy(e[n], g)
  BY <1>3
<1> DEFINE h == [n \in 1..Len(e) |-> TypeBy(e[n], g)]
<1>5. \A n \in 1..Len(e) : h[n] = g[n]
  BY <1>4
<1>6. ASSUME NEW n \in 1..Len(e) PROVE TypeBy(e[n], g) = TypeBy(e[n], h)
  <2>1. n \in Nat /\ \A m \in 1..n - 1 : m \in 1..Len(e)
    BY <1>0
  <2> HIDE DEF h
  <2> QED
    BY <2>1, <1>5, ExprNodes, TypeByOperands
<1>7. h = [n \in 1..Len(e) |-> TypeBy(e[n], h)]
  <2>1. PICK f : f = h
    OBVIOUS
  <2>2. \A n \in 1..Len(e) : TypeBy(e[n], g) = TypeBy(e[n], f)
    <3> HIDE DEF h
    <3> QED
      BY <1>6, <2>1
  <2>3. [n \in 1..Len(e) |-> TypeBy(e[n], g)] = [n \in 1..Len(e) |-> TypeBy(e[n], f)]
    BY <2>2
  <2> QED
    BY <2>1, <2>3
<1> HIDE DEF h
<1> QED
  BY <1>7

LEMMA TypesUnfold ==
    ASSUME NEW e \in Exprs, NEW n \in 1..Len(e)
    PROVE  TypesOf(e)[n] = TypeBy(e[n], TypesOf(e))
<1> DEFINE Unfolds(f) == f = [m \in 1..Len(e) |-> TypeBy(e[m], f)]
<1>1. \E f : Unfolds(f)
  BY TypesExist
<1>2. TypesOf(e) = CHOOSE f : Unfolds(f)
  BY DEF TypesOf
<1>3. Unfolds(TypesOf(e))
  <2> HIDE DEF Unfolds
  <2> QED
    BY <1>1, <1>2
<1> QED
  BY <1>3

(* The same of the values SQL gives them. *)
LEMMA MeaningExists ==
    ASSUME NEW e \in Exprs
    PROVE  \E g : g = [n \in 1..Len(e) |-> MeaningBy(e[n], g)]
<1>0. Len(e) \in Nat
  BY ExprsAssumption DEF ExprsAssumption
<1> DEFINE Good == {k \in 0..Len(e) : \E g : \A n \in 1..k : g[n] = MeaningBy(e[n], g)}
<1>1. 0 \in Good
  BY <1>0
<1>2. ASSUME NEW k \in 0..Len(e), k \in Good, k < Len(e) PROVE k + 1 \in Good
  <2>1. PICK g : \A n \in 1..k : g[n] = MeaningBy(e[n], g)
    BY <1>2
  <2> DEFINE h == [n \in 1..k + 1 |-> MeaningBy(e[n], g)]
  <2>2. \A n \in 1..k : h[n] = g[n]
    BY <1>0, <2>1
  <2>3. ASSUME NEW n \in 1..k + 1 PROVE h[n] = MeaningBy(e[n], h)
    <3>1. n \in 1..Len(e) /\ n \in Nat /\ \A m \in 1..n - 1 : m \in 1..k
      BY <1>0, <1>2
    <3>2. h[n] = MeaningBy(e[n], g)
      OBVIOUS
    <3> HIDE DEF h
    <3>3. \A m \in 1..n - 1 : g[m] = h[m]
      BY <3>1, <2>2
    <3>4. IsNode(e[n], n)
      BY <3>1, ExprNodes
    <3> QED
      BY <3>1, <3>2, <3>3, <3>4, MeaningByOperands
  <2> HIDE DEF h
  <2>4. k + 1 \in 0..Len(e)
    BY <1>0, <1>2
  <2> QED
    BY <2>3, <2>4
<1>3. Len(e) \in Good
  <2> HIDE DEF Good
  <2>1. 0..Len(e) \subseteq Good
    BY <1>0, <1>1, <1>2, UpToN
  <2> QED
    BY <1>0, <2>1
<1>4. PICK g : \A n \in 1..Len(e) : g[n] = MeaningBy(e[n], g)
  BY <1>3
<1> DEFINE h == [n \in 1..Len(e) |-> MeaningBy(e[n], g)]
<1>5. \A n \in 1..Len(e) : h[n] = g[n]
  BY <1>4
<1>6. ASSUME NEW n \in 1..Len(e) PROVE MeaningBy(e[n], g) = MeaningBy(e[n], h)
  <2>1. n \in Nat /\ \A m \in 1..n - 1 : m \in 1..Len(e)
    BY <1>0
  <2> HIDE DEF h
  <2> QED
    BY <2>1, <1>5, ExprNodes, MeaningByOperands
<1>7. h = [n \in 1..Len(e) |-> MeaningBy(e[n], h)]
  <2>1. PICK f : f = h
    OBVIOUS
  <2>2. \A n \in 1..Len(e) : MeaningBy(e[n], g) = MeaningBy(e[n], f)
    <3> HIDE DEF h
    <3> QED
      BY <1>6, <2>1
  <2>3. [n \in 1..Len(e) |-> MeaningBy(e[n], g)] = [n \in 1..Len(e) |-> MeaningBy(e[n], f)]
    BY <2>2
  <2> QED
    BY <2>1, <2>3
<1> HIDE DEF h
<1> QED
  BY <1>7

LEMMA MeaningUnfolds ==
    ASSUME NEW e \in Exprs, NEW n \in 1..Len(e)
    PROVE  Meaning(e)[n] = MeaningBy(e[n], Meaning(e))
<1> DEFINE Unfolds(f) == f = [m \in 1..Len(e) |-> MeaningBy(e[m], f)]
<1>1. \E f : Unfolds(f)
  BY MeaningExists
<1>2. Meaning(e) = CHOOSE f : Unfolds(f)
  BY DEF Meaning
<1>3. Unfolds(Meaning(e))
  <2> HIDE DEF Unfolds
  <2> QED
    BY <1>1, <1>2
<1> QED
  BY <1>3

-----------------------------------------------------------------------------
(* Words, cells and nodes. *)

LEMMA Words ==
    /\ IntMin \in Int /\ 0 \in Int64s /\ 1 \in Int64s /\ Int64s \subseteq Int
    /\ \A x \in Int : Wraparound(x) \in Int64s /\ (Fits(x) => Wraparound(x) = x)
<1>1. IntMax \in Nat \ {0} /\ IntMin = -IntMax - 1 /\ IntSize = 2 * (IntMax + 1)
  BY IntMaxAssumption DEF IntMin, IntSize
<1>2. ASSUME NEW x \in Int PROVE Wraparound(x) \in Int64s /\ (Fits(x) => Wraparound(x) = x)
  <2>1. IntSize \in Nat \ {0} /\ x - IntMin \in Int
    BY <1>1
  <2>2. (x - IntMin) % IntSize \in 0..IntSize - 1
    BY <2>1
  <2>3. Fits(x) => (x - IntMin) % IntSize = x - IntMin
    BY <1>1, <2>1 DEF Fits
  <2> QED
    BY <1>1, <2>2, <2>3 DEF Wraparound, Int64s
<1> QED
  BY <1>1, <1>2 DEF Int64s

LEMMA CellFacts ==
    ASSUME NEW c \in Cells
    PROVE  /\ c.type \in {"Int64", "Float64", "String"}
           /\ CanBeInt(c) \/ CanBeStr(c)
           /\ CanBeInt(c) => as_int(c) \in Int64s
           /\ c.type = "Int64" => as_int(c) = c.v
           /\ c.type = "String" => as_str(c) = c.v /\ c.v \in Int
           /\ c.type = "Float64" => c.v \in [neg : BOOLEAN, size : 0..IntMax] /\ as_int(c) = Bits(c.v)
<1>1. CASE c \in [type : {"Int64"}, v : Int64s]
  BY <1>1 DEF CanBeInt, CanBeStr, as_int, as_str
<1>2. CASE c \in [type : {"String"}, v : Int]
  BY <1>2 DEF CanBeInt, CanBeStr, as_int, as_str
<1>3. CASE c \in [type : {"Float64"}, v : [neg : BOOLEAN, size : 0..IntMax]]
  <2>1. Bits(c.v) \in Int64s
    BY <1>3, IntMaxAssumption DEF Bits, Int64s, IntMin
  <2> QED
    BY <1>3, <2>1 DEF CanBeInt, CanBeStr, as_int, as_str
<1> QED
  BY <1>1, <1>2, <1>3 DEF Cells

LEMMA NewCells ==
    /\ \A v \in Int64s : Value("Int64", v) \in Cells
    /\ \A v \in Int : Value("String", v) \in Cells
    /\ \A t, v : Value(t, v).type = t /\ Value(t, v).v = v
BY DEF Value, Cells

LEMMA Truths == \A b : Truth(b) \in Int64s
BY Words DEF Truth

LEMMA ExactIsInt ==
    ASSUME NEW k \in Arith, NEW a \in Int, NEW b \in Int
    PROVE  Exact(k, a, b) \in Int
<1>1. Magnitude(a) \in Int /\ Magnitude(b) \in Int /\ (b # 0 => Magnitude(b) > 0)
  BY DEF Magnitude
<1>2. b # 0 => Quotient(a, b) \in Int
  <2>1. ASSUME b # 0 PROVE Magnitude(a) \div Magnitude(b) \in Int
    BY <1>1, <2>1
  <2> QED
    BY <2>1 DEF Quotient
<1>3. b # 0 => Remainder(a, b) \in Int
  <2>1. ASSUME NEW q \in Int PROVE a - b * q \in Int
    OBVIOUS
  <2> QED
    BY <1>2, <2>1 DEF Remainder
<1> QED
  BY <1>2, <1>3 DEF Exact, Arith

(* A comparison depends on the order of what it compares only. *)
LEMMA OrderDecides ==
    ASSUME NEW k \in CmpKinds, NEW a \in Int, NEW b \in Int, NEW c \in Int, NEW d \in Int,
           a < b <=> c < d, b < a <=> d < c
    PROVE  Compared(k, a, b) <=> Compared(k, c, d)
BY DEF Compared, CmpKinds

(* The bits of two doubles are in the order of the numbers, but for the     *)
(* exceptions of DoublesByBits.                                             *)
LEMMA BitsOrder ==
    ASSUME NEW a \in [neg : BOOLEAN, size : 0..IntMax],
           NEW b \in [neg : BOOLEAN, size : 0..IntMax], NEW k \in CmpKinds
    PROVE  Compared(k, Bits(a), Bits(b)) <=> DoublesCompared(k, a, b)
<1>1. IntMax \in Nat /\ a.size \in 0..IntMax /\ b.size \in 0..IntMax
  BY IntMaxAssumption
<1>2. a = b <=> (a.neg <=> b.neg) /\ a.size = b.size
  OBVIOUS
<1>3. /\ Bits(a) \in Int /\ Bits(b) \in Int /\ Number(a) \in Int /\ Number(b) \in Int
      /\ Truth(a.neg) \in Int /\ Truth(b.neg) \in Int
  BY <1>1 DEF Bits, Number, IntMin, Truth
<1>4. CASE a.neg /\ b.neg
  <2>1. /\ Bits(a) < Bits(b) <=> Number(b) < Number(a)
        /\ Bits(b) < Bits(a) <=> Number(a) < Number(b)
    BY <1>1, <1>4 DEF Bits, Number, IntMin
  <2>2. Compared(k, Bits(a), Bits(b)) <=> Compared(k, Number(b), Number(a))
    BY <1>3, <2>1, OrderDecides
  <2> QED
    BY <1>4, <2>2 DEF DoublesCompared
<1>5. CASE a.size = 0 /\ b.size = 0 /\ a # b
  <2>1. ~(a.neg <=> b.neg)
    BY <1>2, <1>5
  <2>2. /\ Bits(a) < Bits(b) <=> Truth(b.neg) < Truth(a.neg)
        /\ Bits(b) < Bits(a) <=> Truth(a.neg) < Truth(b.neg)
    BY <1>1, <1>5, <2>1 DEF Bits, Truth, IntMin
  <2>3. Compared(k, Bits(a), Bits(b)) <=> Compared(k, Truth(b.neg), Truth(a.neg))
    BY <1>3, <2>2, OrderDecides
  <2> QED
    BY <1>5, <2>1, <2>3 DEF DoublesCompared
<1>6. CASE ~(a.neg /\ b.neg) /\ ~(a.size = 0 /\ b.size = 0 /\ a # b)
  <2>1. a.size = 0 /\ b.size = 0 => (a.neg <=> b.neg)
    BY <1>2, <1>6
  <2>2. /\ Bits(a) < Bits(b) <=> Number(a) < Number(b)
        /\ Bits(b) < Bits(a) <=> Number(b) < Number(a)
    BY <1>1, <1>6, <2>1 DEF Bits, Number, IntMin
  <2>3. Compared(k, Bits(a), Bits(b)) <=> Compared(k, Number(a), Number(b))
    BY <1>3, <2>2, OrderDecides
  <2> QED
    BY <1>6, <2>3 DEF DoublesCompared
<1> QED
  BY <1>4, <1>5, <1>6

(* What it takes for a node to have a type. *)
LEMMA TypeMeans ==
    ASSUME NEW e \in Exprs, NEW n \in 1..Len(e)
    PROVE  /\ e[n].f = "col" => TypesOf(e)[n] = row[e[n].k[1]].type
           /\ e[n].f = "int" => TypesOf(e)[n] = "Int64"
           /\ e[n].f = "str" => TypesOf(e)[n] = "String"
           /\ e[n].f = "cmp" /\ TypesOf(e)[n] # "none" =>
                /\ TypesOf(e)[n] = "Int64"
                /\ \/ TypesOf(e)[e[n].kids[1]] = "Int64" /\ TypesOf(e)[e[n].kids[2]] = "Int64"
                   \/ TypesOf(e)[e[n].kids[1]] = "String" /\ TypesOf(e)[e[n].kids[2]] = "String"
           /\ e[n].f = "case" /\ TypesOf(e)[n] # "none" =>
                /\ TypesOf(e)[e[n].kids[1]] = "Int64" /\ TypesOf(e)[n] # "Float64"
                /\ TypesOf(e)[e[n].kids[2]] = TypesOf(e)[n]
                /\ TypesOf(e)[e[n].kids[3]] = TypesOf(e)[n]
           /\ e[n].f \in {"and", "or", "not", "arith", "in"} /\ TypesOf(e)[n] # "none" =>
                /\ TypesOf(e)[n] = "Int64"
                /\ \A i \in DOMAIN e[n].kids : TypesOf(e)[e[n].kids[i]] = "Int64"
<1>1. PICK x, t : x = e[n] /\ t = TypesOf(e)
  OBVIOUS
<1>2. t[n] = TypeBy(x, t)
  BY <1>1, TypesUnfold
<1>3. IsNode(x, n) /\ n \in Nat
  BY <1>1, ExprNodes
<1>4. x.f = "cmp" => DOMAIN x.kids = 1..2
  BY <1>3, Operands
<1>5. CASE x.f \in {"col", "int", "str", "case"}
  BY <1>1, <1>2, <1>5 DEF TypeBy
<1>6. CASE x.f = "cmp"
  BY <1>1, <1>2, <1>4, <1>6 DEF TypeBy
<1>7. CASE x.f \in {"and", "or", "not", "arith", "in"}
  BY <1>1, <1>2, <1>7 DEF TypeBy
<1>8. x.f \in {"col", "int", "str", "cmp", "and", "or", "not", "arith", "in", "case"}
  BY <1>3, Operands
<1> QED
  BY <1>1, <1>5, <1>6, <1>7, <1>8

-----------------------------------------------------------------------------
(* A step adds a column or stops. *)

(* The columns of the operands of the next node are there, of the types     *)
(* those should have and with the values SQL gives them.                    *)
Known(c, n) ==
    /\ c \in Cells
    /\ WellTyped(n) => c.type = TypesOf(expr)[n]
    /\ WellTyped(n) /\ TypesOf(expr)[n] # "Float64" /\ Meaning(expr)[n].fits =>
         c.v = Meaning(expr)[n].v

LEMMA OperandsKnown ==
    ASSUME ExprInv, Len(cols) < Len(expr)
    PROVE  /\ expr \in Exprs /\ row \in Rows /\ Len(cols) + 1 \in 1..Len(expr)
           /\ IsNode(Me, Len(cols) + 1)
           /\ \A i \in DOMAIN Me.kids : Known(Kid(i), Me.kids[i])
           /\ Me.f = "cmp" \/ Me.f \in {"and", "or"} \/ Me.f = "arith" => DOMAIN Me.kids = 1..2
           /\ Me.f = "not" \/ Me.f = "in" => DOMAIN Me.kids = 1..1
           /\ Me.f = "case" => DOMAIN Me.kids = 1..3
<1>1. expr \in Exprs /\ row \in Rows /\ cols \in Seq(Cells)
  BY DEF ExprInv, ExprTypeOK
<1>2. Len(cols) + 1 \in 1..Len(expr) /\ Len(cols) \in Nat /\ Len(cols) + 1 \in Nat
  BY <1>1, ExprsAssumption DEF ExprsAssumption
<1>3. IsNode(Me, Len(cols) + 1)
  BY <1>1, <1>2, ExprNodes DEF Me
<1>4. ASSUME NEW n \in 1..Len(cols) PROVE Known(cols[n], n)
  <2>1. cols[n] \in Cells /\ n \in DOMAIN cols
    BY <1>1
  <2> QED
    BY <2>1 DEF Known, ExprInv, TypesAreKept, EagerMeansLazy
<1>5. \A i \in DOMAIN Me.kids : Me.kids[i] \in 1..Len(cols)
  BY <1>2, <1>3, Operands
<1> QED
  BY <1>1, <1>2, <1>3, <1>4, <1>5, Operands DEF Kid

LEMMA RowStays ==
    ASSUME row' = row, expr' = expr
    PROVE  /\ TypesOf(expr)' = TypesOf(expr) /\ Meaning(expr)' = Meaning(expr)
<1>1. TypesOf(expr)' = TypesOf(expr)
  BY DEF TypesOf, TypeBy
<1>2. Meaning(expr)' = Meaning(expr)
  BY DEF Meaning, MeaningBy
<1> QED
  BY <1>1, <1>2

(* The new column keeps the invariant if it is what the node promises. *)
LEMMA NewColumn ==
    ASSUME ExprInv, outcome = "ok", Len(cols) < Len(expr), NEW c,
           Known(c, Len(cols) + 1),
           Me.f = "cmp" /\ Kid(1).type = "Float64" /\ Kid(2).type = "Float64" =>
             c.v = Truth(DoublesCompared(Me.op, Kid(1).v, Kid(2).v)),
           cols' = Append(cols, c), outcome' = outcome, row' = row, expr' = expr
    PROVE  ExprInv'
<1>1. /\ expr \in Exprs /\ row \in Rows /\ cols \in Seq(Cells) /\ c \in Cells
      /\ Len(expr) \in Nat
  BY ExprsAssumption DEF ExprInv, ExprTypeOK, ExprsAssumption, Known
<1>2. /\ cols' \in Seq(Cells) /\ Len(cols') = Len(cols) + 1 /\ Len(cols) \in Nat
      /\ DOMAIN cols = 1..Len(cols) /\ DOMAIN cols' = 1..Len(cols) + 1
      /\ \A n \in 1..Len(cols) : cols'[n] = cols[n]
      /\ cols'[Len(cols) + 1] = c
  BY <1>1
<1>3. ExprTypeOK'
  BY <1>1, <1>2 DEF ExprTypeOK
<1>4. /\ TypesOf(expr)' = TypesOf(expr) /\ Meaning(expr)' = Meaning(expr)
  BY RowStays
<1>5. ASSUME NEW n \in 1..Len(cols) + 1 PROVE Known(cols'[n], n)
  <2>1. CASE n = Len(cols) + 1
    BY <1>2, <2>1
  <2>2. CASE n \in 1..Len(cols)
    <3>1. cols[n] \in Cells /\ n \in DOMAIN cols
      BY <1>1, <2>2
    <3> QED
      BY <1>2, <2>2, <3>1 DEF Known, ExprInv, TypesAreKept, EagerMeansLazy
  <2> QED
    BY <1>2, <2>1, <2>2
<1>6. TypesAreKept'
  BY <1>2, <1>4, <1>5 DEF TypesAreKept, Known, WellTyped
<1>7. EagerMeansLazy'
  BY <1>2, <1>4, <1>5 DEF EagerMeansLazy, OnlyTheLeastTraps, Known, WellTyped
<1>8. DoublesByBits'
  <2>1. SUFFICES ASSUME NEW n \in 1..Len(cols) + 1, expr[n].f = "cmp",
                        cols'[expr[n].kids[1]].type = "Float64",
                        cols'[expr[n].kids[2]].type = "Float64"
                 PROVE  cols'[n].v = Truth(DoublesCompared(expr[n].op, cols'[expr[n].kids[1]].v,
                                                           cols'[expr[n].kids[2]].v))
    BY <1>2 DEF DoublesByBits
  <2>2. n \in 1..Len(expr) /\ n \in Nat
    BY <1>1, <1>2
  <2>3. expr[n].kids[1] \in 1..n - 1 /\ expr[n].kids[2] \in 1..n - 1
    BY <1>1, <2>1, <2>2, ExprNodes, Operands
  <2>4. PICK i, j : i = expr[n].kids[1] /\ j = expr[n].kids[2]
    OBVIOUS
  <2>5. i \in 1..Len(cols) /\ j \in 1..Len(cols) /\ cols'[i] = cols[i] /\ cols'[j] = cols[j]
    BY <1>2, <2>1, <2>3, <2>4
  <2>6. CASE n = Len(cols) + 1
    <3>1. Me = expr[n] /\ Kid(1) = cols[i] /\ Kid(2) = cols[j]
      BY <2>4, <2>6 DEF Me, Kid
    <3> QED
      BY <1>2, <2>1, <2>4, <2>5, <2>6, <3>1
  <2>7. CASE n \in 1..Len(cols)
    <3>1. n \in DOMAIN cols /\ cols'[n] = cols[n]
      BY <1>2, <2>7
    <3>2. cols[i].type = "Float64" /\ cols[j].type = "Float64"
      BY <2>1, <2>4, <2>5
    <3>3. cols[n].v = Truth(DoublesCompared(expr[n].op, cols[i].v, cols[j].v))
      BY <2>1, <2>4, <3>1, <3>2 DEF ExprInv, DoublesByBits
    <3> QED
      BY <2>4, <2>5, <3>1, <3>3
  <2>8. n = Len(cols) + 1 \/ n \in 1..Len(cols)
    BY <1>2
  <2> QED
    BY <2>6, <2>7, <2>8
<1> QED
  BY <1>3, <1>6, <1>7, <1>8 DEF ExprInv

(* Stopping keeps it if the expression, or the numbers, are to blame. *)
LEMMA Stopped ==
    ASSUME ExprInv, outcome = "ok", Len(cols) < Len(expr),
           cols' = cols, row' = row, expr' = expr,
           \/ outcome' = "undefined" /\ ~WellTyped(Len(cols) + 1)
           \/ /\ outcome' = "trap" /\ Me.f = "arith" /\ Me.op \in {"Div", "Mod"}
              /\ as_int(Kid(1)) = IntMin /\ as_int(Kid(2)) = -1
    PROVE  ExprInv'
<1>1. /\ TypesOf(expr)' = TypesOf(expr) /\ Meaning(expr)' = Meaning(expr)
  BY RowStays
<1>2. ExprTypeOK'
  BY DEF ExprInv, ExprTypeOK
<1>3. TypesAreKept'
  BY <1>1 DEF ExprInv, TypesAreKept, WellTyped
<1>4. OnlyTheLeastTraps'
  BY DEF OnlyTheLeastTraps, Me, Kid
<1>5. EagerMeansLazy'
  BY <1>1, <1>4 DEF ExprInv, EagerMeansLazy, WellTyped
<1>6. DoublesByBits'
  BY DEF ExprInv, DoublesByBits
<1> QED
  BY <1>2, <1>3, <1>5, <1>6 DEF ExprInv

-----------------------------------------------------------------------------
(* The steps. *)

(* What is true of the next node, in one place. *)
LEMMA NextNode ==
    ASSUME ExprInv, Len(cols) < Len(expr)
    PROVE  /\ Me = expr[Len(cols) + 1] /\ expr \in Exprs /\ Len(cols) + 1 \in 1..Len(expr)
           /\ WellTyped(Len(cols) + 1) <=> TypesOf(expr)[Len(cols) + 1] # "none"
           /\ Meaning(expr)[Len(cols) + 1] = MeaningBy(Me, Meaning(expr))
BY OperandsKnown, MeaningUnfolds DEF Me, WellTyped

LEMMA EvalLeafInv ==
    ASSUME ExprInv, EvalLeaf
    PROVE  ExprInv'
<1>1. /\ outcome = "ok" /\ Len(cols) < Len(expr) /\ row' = row /\ expr' = expr
      /\ Me.f \in {"col", "int", "str"}
  BY DEF EvalLeaf, Running
<1>2. PICK n : n = Len(cols) + 1
  OBVIOUS
<1>3. /\ Me = expr[n] /\ expr \in Exprs /\ n \in 1..Len(expr) /\ IsNode(Me, n)
      /\ Meaning(expr)[n] = MeaningBy(Me, Meaning(expr)) /\ row \in Rows /\ row \in Seq(Cells)
  BY <1>1, <1>2, NextNode, OperandsKnown, RowsAssumption
<1>4. CASE Me.f = "col"
  <2>1. cols' = Append(cols, row[Me.k[1]]) /\ outcome' = outcome
    BY <1>4 DEF EvalLeaf
  <2>2. row[Me.k[1]] \in Cells
    <3>1. Me.k[1] \in DOMAIN row
      BY <1>3, <1>4 DEF IsNode
    <3> QED
      BY <1>3, <3>1
  <2>3. row[Me.k[1]].type = TypesOf(expr)[n]
    BY <1>3, <1>4, TypeMeans
  <2>4. Meaning(expr)[n].v = row[Me.k[1]].v
    BY <1>3, <1>4 DEF MeaningBy
  <2>5. Known(row[Me.k[1]], n)
    BY <2>2, <2>3, <2>4 DEF Known
  <2> QED
    BY <1>1, <1>2, <1>4, <2>1, <2>5, NewColumn
<1>5. CASE Me.f = "int"
  <2>1. cols' = Append(cols, Value("Int64", Me.k[1])) /\ outcome' = outcome
    BY <1>5 DEF EvalLeaf, Push
  <2>2. Me.k[1] \in Int64s
    BY <1>3, <1>5 DEF IsNode
  <2>3. TypesOf(expr)[n] = "Int64"
    BY <1>3, <1>5, TypeMeans
  <2>4. Meaning(expr)[n].v = Me.k[1]
    BY <1>3, <1>5 DEF MeaningBy
  <2>5. Known(Value("Int64", Me.k[1]), n)
    BY <2>2, <2>3, <2>4, NewCells DEF Known
  <2> QED
    BY <1>1, <1>2, <1>5, <2>1, <2>5, NewColumn
<1>6. CASE Me.f = "str"
  <2>1. cols' = Append(cols, Value("String", Me.k[1])) /\ outcome' = outcome
    BY <1>6 DEF EvalLeaf, Push
  <2>2. Me.k[1] \in Int
    BY <1>3, <1>6 DEF IsNode
  <2>3. TypesOf(expr)[n] = "String"
    BY <1>3, <1>6, TypeMeans
  <2>4. Meaning(expr)[n].v = Me.k[1]
    BY <1>3, <1>6 DEF MeaningBy
  <2>5. Known(Value("String", Me.k[1]), n)
    BY <2>2, <2>3, <2>4, NewCells DEF Known
  <2> QED
    BY <1>1, <1>2, <1>6, <2>1, <2>5, NewColumn
<1> QED
  BY <1>1, <1>4, <1>5, <1>6

(* What an operand should be, it is. *)
LEMMA AnOperand ==
    ASSUME ExprInv, Len(cols) < Len(expr), NEW i \in DOMAIN Me.kids
    PROVE  /\ Kid(i) \in Cells
           /\ TypesOf(expr)[Me.kids[i]] = "Int64" =>
                /\ CanBeInt(Kid(i)) /\ ~CanBeStr(Kid(i))
                /\ Meaning(expr)[Me.kids[i]].fits => as_int(Kid(i)) = Meaning(expr)[Me.kids[i]].v
           /\ TypesOf(expr)[Me.kids[i]] = "String" =>
                /\ CanBeStr(Kid(i)) /\ ~CanBeInt(Kid(i))
                /\ Meaning(expr)[Me.kids[i]].fits => as_str(Kid(i)) = Meaning(expr)[Me.kids[i]].v
<1>1. PICK c, m : c = Kid(i) /\ m = Me.kids[i]
  OBVIOUS
<1>2. Known(c, m)
  BY <1>1, OperandsKnown
<1>3. /\ c \in Cells
      /\ c.type = "Int64" => CanBeInt(c) /\ ~CanBeStr(c) /\ as_int(c) = c.v
      /\ c.type = "String" => CanBeStr(c) /\ ~CanBeInt(c) /\ as_str(c) = c.v
  BY <1>2, CellFacts DEF Known, CanBeInt, CanBeStr
<1>4. TypesOf(expr)[m] = "Int64" =>
        /\ c.type = "Int64"
        /\ Meaning(expr)[m].fits => c.v = Meaning(expr)[m].v
  BY <1>2 DEF Known, WellTyped
<1>5. TypesOf(expr)[m] = "String" =>
        /\ c.type = "String"
        /\ Meaning(expr)[m].fits => c.v = Meaning(expr)[m].v
  BY <1>2 DEF Known, WellTyped
<1> QED
  BY <1>1, <1>3, <1>4, <1>5

(* What SQL makes of a node, by its kind, from what it makes of the operands *)
(* a and b.                                                                 *)
Means(x, c, a, b) ==
    /\ x.f = "cmp" =>
         /\ c.fits <=> a.fits /\ b.fits
         /\ a.fits /\ b.fits => c.v = Truth(Compared(x.op, a.v, b.v))
    /\ x.f = "not" =>
         /\ c.fits <=> a.fits
         /\ a.fits => c.v = Truth(a.v = 0)
    /\ x.f = "and" =>
         /\ c.fits <=> (a.fits /\ a.v = 0) \/ (a.fits /\ b.fits)
         /\ a.fits /\ a.v = 0 => c.v = 0
         /\ a.fits /\ b.fits => c.v = Truth(a.v # 0 /\ b.v # 0)
    /\ x.f = "or" =>
         /\ c.fits <=> (a.fits /\ a.v # 0) \/ (a.fits /\ b.fits)
         /\ a.fits /\ a.v # 0 => c.v = 1
         /\ a.fits /\ b.fits => c.v = Truth(a.v # 0 \/ b.v # 0)
    /\ x.f = "arith" =>
         /\ c.fits => a.fits /\ b.fits /\ Fits(Exact(x.op, a.v, b.v))
         /\ a.fits /\ b.fits => c.v = Exact(x.op, a.v, b.v)
    /\ x.f = "in" =>
         /\ c.fits <=> a.fits
         /\ a.fits => c.v = Truth(\E i \in DOMAIN x.k : x.k[i] = a.v)

LEMMA MeaningMeans ==
    ASSUME NEW x, NEW of
    PROVE  Means(x, MeaningBy(x, of), of[x.kids[1]], of[x.kids[2]])
<1> USE DEF Means
<1>1. CASE x.f = "cmp"
  BY <1>1 DEF MeaningBy
<1>2. CASE x.f = "not"
  BY <1>2 DEF MeaningBy
<1>3. CASE x.f = "and"
  BY <1>3 DEF MeaningBy, Truth
<1>4. CASE x.f = "or"
  BY <1>4 DEF MeaningBy, Truth
<1>5. CASE x.f = "arith"
  BY <1>5 DEF MeaningBy
<1>6. CASE x.f = "in"
  BY <1>6 DEF MeaningBy
<1> QED
  BY <1>1, <1>2, <1>3, <1>4, <1>5, <1>6

LEMMA CompareInv ==
    ASSUME ExprInv, Compare
    PROVE  ExprInv'
<1>1. /\ outcome = "ok" /\ Len(cols) < Len(expr) /\ row' = row /\ expr' = expr
      /\ Me.f = "cmp"
  BY DEF Compare, Running
<1>2. PICK n : n = Len(cols) + 1
  OBVIOUS
<1>3. /\ Me = expr[n] /\ expr \in Exprs /\ n \in 1..Len(expr) /\ IsNode(Me, n)
      /\ Meaning(expr)[n] = MeaningBy(Me, Meaning(expr)) /\ DOMAIN Me.kids = 1..2
      /\ WellTyped(n) <=> TypesOf(expr)[n] # "none"
  BY <1>1, <1>2, NextNode, OperandsKnown
<1>4. 1 \in DOMAIN Me.kids /\ 2 \in DOMAIN Me.kids
  BY <1>3
<1>5. PICK a, b, ma, mb, ta, tb :
        /\ a = Kid(1) /\ b = Kid(2)
        /\ ma = Meaning(expr)[Me.kids[1]] /\ mb = Meaning(expr)[Me.kids[2]]
        /\ ta = TypesOf(expr)[Me.kids[1]] /\ tb = TypesOf(expr)[Me.kids[2]]
  OBVIOUS
<1>6. /\ a \in Cells /\ b \in Cells
      /\ ta = "Int64" => CanBeInt(a) /\ ~CanBeStr(a) /\ (ma.fits => as_int(a) = ma.v)
      /\ tb = "Int64" => CanBeInt(b) /\ ~CanBeStr(b) /\ (mb.fits => as_int(b) = mb.v)
      /\ ta = "String" => CanBeStr(a) /\ ~CanBeInt(a) /\ (ma.fits => as_str(a) = ma.v)
      /\ tb = "String" => CanBeStr(b) /\ ~CanBeInt(b) /\ (mb.fits => as_str(b) = mb.v)
  BY <1>1, <1>4, <1>5, AnOperand
<1>7. WellTyped(n) =>
        /\ TypesOf(expr)[n] = "Int64"
        /\ (ta = "Int64" /\ tb = "Int64") \/ (ta = "String" /\ tb = "String")
  BY <1>1, <1>3, <1>5, TypeMeans
<1>8. /\ Meaning(expr)[n].fits <=> ma.fits /\ mb.fits
      /\ ma.fits /\ mb.fits => Meaning(expr)[n].v = Truth(Compared(Me.op, ma.v, mb.v))
  <2>1. PICK of : of = Meaning(expr)
    OBVIOUS
  <2>2. Means(Me, Meaning(expr)[n], ma, mb)
    BY <1>3, <1>5, <2>1, MeaningMeans
  <2> QED
    BY <1>1, <2>2 DEF Means
<1>9. CASE CanBeStr(a) /\ CanBeStr(b)
  <2>1. cols' = Append(cols, Value("Int64", Truth(Compared(Me.op, as_str(a), as_str(b)))))
        /\ outcome' = outcome
    BY <1>5, <1>9 DEF Compare, Push
  <2>2. PICK v : v = Truth(Compared(Me.op, as_str(a), as_str(b)))
    OBVIOUS
  <2>3. WellTyped(n) /\ Meaning(expr)[n].fits => v = Meaning(expr)[n].v
    BY <1>6, <1>7, <1>8, <1>9, <2>2
  <2>4. Known(Value("Int64", v), n)
    BY <1>7, <2>2, <2>3, Truths, NewCells DEF Known
  <2>5. a.type # "Float64"
    BY <1>9 DEF CanBeStr
  <2> QED
    BY <1>1, <1>2, <1>5, <2>1, <2>2, <2>4, <2>5, NewColumn
<1>10. CASE ~(CanBeStr(a) /\ CanBeStr(b)) /\ CanBeInt(a) /\ CanBeInt(b)
  <2>1. cols' = Append(cols, Value("Int64", Truth(Compared(Me.op, as_int(a), as_int(b)))))
        /\ outcome' = outcome
    BY <1>5, <1>10 DEF Compare, Push
  <2>2. PICK v : v = Truth(Compared(Me.op, as_int(a), as_int(b)))
    OBVIOUS
  <2>3. WellTyped(n) /\ Meaning(expr)[n].fits => v = Meaning(expr)[n].v
    BY <1>6, <1>7, <1>8, <1>10, <2>2
  <2>4. Known(Value("Int64", v), n)
    BY <1>7, <2>2, <2>3, Truths, NewCells DEF Known
  <2>5. a.type = "Float64" /\ b.type = "Float64" => v = Truth(DoublesCompared(Me.op, a.v, b.v))
    <3>1. SUFFICES ASSUME a.type = "Float64", b.type = "Float64"
                   PROVE  Compared(Me.op, as_int(a), as_int(b)) <=> DoublesCompared(Me.op, a.v, b.v)
      BY <2>2 DEF Truth
    <3>2. /\ a.v \in [neg : BOOLEAN, size : 0..IntMax] /\ as_int(a) = Bits(a.v)
          /\ b.v \in [neg : BOOLEAN, size : 0..IntMax] /\ as_int(b) = Bits(b.v)
      BY <1>6, <3>1, CellFacts
    <3>3. Me.op \in CmpKinds
      BY <1>1, <1>3 DEF IsNode
    <3>4. Compared(Me.op, Bits(a.v), Bits(b.v)) <=> DoublesCompared(Me.op, a.v, b.v)
      BY <3>2, <3>3, BitsOrder
    <3> QED
      BY <3>2, <3>4
  <2>6. Value("Int64", v).v = v
    BY NewCells
  <2> QED
    BY <1>1, <1>2, <1>5, <2>1, <2>2, <2>4, <2>5, <2>6, NewColumn
<1>11. CASE ~(CanBeStr(a) /\ CanBeStr(b)) /\ ~(CanBeInt(a) /\ CanBeInt(b))
  <2>1. cols' = cols /\ outcome' = "undefined"
    BY <1>5, <1>11 DEF Compare, Stop
  <2>2. ~WellTyped(n)
    BY <1>6, <1>7, <1>11
  <2> QED
    BY <1>1, <1>2, <2>1, <2>2, Stopped
<1> QED
  BY <1>9, <1>10, <1>11

LEMMA BoolInv ==
    ASSUME ExprInv, Bool
    PROVE  ExprInv'
<1>1. /\ outcome = "ok" /\ Len(cols) < Len(expr) /\ row' = row /\ expr' = expr
      /\ Me.f \in {"and", "or", "not"}
  BY DEF Bool, Running
<1>2. PICK n : n = Len(cols) + 1
  OBVIOUS
<1>3. /\ Me = expr[n] /\ expr \in Exprs /\ n \in 1..Len(expr) /\ IsNode(Me, n)
      /\ Meaning(expr)[n] = MeaningBy(Me, Meaning(expr))
      /\ WellTyped(n) <=> TypesOf(expr)[n] # "none"
      /\ 1 \in DOMAIN Me.kids /\ (Me.f # "not" => 2 \in DOMAIN Me.kids)
  BY <1>1, <1>2, NextNode, OperandsKnown
<1>4. WellTyped(n) => TypesOf(expr)[n] = "Int64" /\ \A i \in DOMAIN Me.kids : TypesOf(expr)[Me.kids[i]] = "Int64"
  BY <1>1, <1>3, TypeMeans
<1>5. PICK a, b, ma, mb :
        /\ a = Kid(1) /\ b = Kid(2)
        /\ ma = Meaning(expr)[Me.kids[1]] /\ mb = Meaning(expr)[Me.kids[2]]
  OBVIOUS
<1>6. WellTyped(n) => /\ ma.fits => as_int(a) = ma.v
                      /\ Me.f # "not" /\ mb.fits => as_int(b) = mb.v
  BY <1>1, <1>3, <1>4, <1>5, AnOperand
<1>7. Means(Me, Meaning(expr)[n], ma, mb)
  <2>1. PICK of : of = Meaning(expr)
    OBVIOUS
  <2> QED
    BY <1>3, <1>5, <2>1, MeaningMeans
<1>8. CASE \A i \in DOMAIN Me.kids : CanBeInt(Kid(i))
  <2>1. PICK v : v = Truth(CASE Me.f = "not" -> ~(as_int(a) # 0)
                             [] Me.f = "and" -> as_int(a) # 0 /\ as_int(b) # 0
                             [] Me.f = "or"  -> as_int(a) # 0 \/ as_int(b) # 0)
    OBVIOUS
  <2>2. cols' = Append(cols, Value("Int64", v)) /\ outcome' = outcome
    BY <1>5, <1>8, <2>1 DEF Bool, Push
  <2>3. WellTyped(n) /\ Meaning(expr)[n].fits => v = Meaning(expr)[n].v
    <3>1. CASE Me.f = "not"
      BY <1>6, <1>7, <2>1, <3>1 DEF Means, Truth
    <3>2. CASE Me.f = "and"
      BY <1>6, <1>7, <2>1, <3>2 DEF Means, Truth
    <3>3. CASE Me.f = "or"
      BY <1>6, <1>7, <2>1, <3>3 DEF Means, Truth
    <3> QED
      BY <1>1, <3>1, <3>2, <3>3
  <2>4. v \in Int64s
    BY <2>1, Truths
  <2>5. Known(Value("Int64", v), n)
    BY <1>4, <2>3, <2>4, NewCells DEF Known
  <2> QED
    BY <1>1, <1>2, <2>2, <2>5, NewColumn
<1>9. CASE ~ \A i \in DOMAIN Me.kids : CanBeInt(Kid(i))
  <2>1. cols' = cols /\ outcome' = "undefined"
    BY <1>9 DEF Bool, Stop
  <2>2. ~WellTyped(n)
    BY <1>1, <1>4, <1>9, AnOperand
  <2> QED
    BY <1>1, <1>2, <2>1, <2>2, Stopped
<1> QED
  BY <1>8, <1>9

LEMMA ArithmeticInv ==
    ASSUME ExprInv, Arithmetic
    PROVE  ExprInv'
<1>1. /\ outcome = "ok" /\ Len(cols) < Len(expr) /\ row' = row /\ expr' = expr
      /\ Me.f = "arith"
  BY DEF Arithmetic, Running
<1>2. PICK n : n = Len(cols) + 1
  OBVIOUS
<1>3. /\ Me = expr[n] /\ expr \in Exprs /\ n \in 1..Len(expr) /\ IsNode(Me, n)
      /\ Meaning(expr)[n] = MeaningBy(Me, Meaning(expr))
      /\ WellTyped(n) <=> TypesOf(expr)[n] # "none"
      /\ 1 \in DOMAIN Me.kids /\ 2 \in DOMAIN Me.kids
  BY <1>1, <1>2, NextNode, OperandsKnown
<1>4. WellTyped(n) => TypesOf(expr)[n] = "Int64" /\ \A i \in DOMAIN Me.kids : TypesOf(expr)[Me.kids[i]] = "Int64"
  BY <1>1, <1>3, TypeMeans
<1>5. PICK a, b, ma, mb :
        /\ a = Kid(1) /\ b = Kid(2)
        /\ ma = Meaning(expr)[Me.kids[1]] /\ mb = Meaning(expr)[Me.kids[2]]
  OBVIOUS
<1>6. /\ a \in Cells /\ b \in Cells
      /\ WellTyped(n) => /\ CanBeInt(a) /\ (ma.fits => as_int(a) = ma.v)
                         /\ CanBeInt(b) /\ (mb.fits => as_int(b) = mb.v)
  BY <1>1, <1>3, <1>4, <1>5, AnOperand
<1>7. Means(Me, Meaning(expr)[n], ma, mb)
  <2>1. PICK of : of = Meaning(expr)
    OBVIOUS
  <2> QED
    BY <1>3, <1>5, <2>1, MeaningMeans
<1>8. CASE ~(CanBeInt(a) /\ CanBeInt(b))
  <2>1. cols' = cols /\ outcome' = "undefined"
    BY <1>5, <1>8 DEF Arithmetic, Stop
  <2>2. ~WellTyped(n)
    BY <1>6, <1>8
  <2> QED
    BY <1>1, <1>2, <2>1, <2>2, Stopped
<1>9. CASE CanBeInt(a) /\ CanBeInt(b) /\ Overflows(Me.op, as_int(a), as_int(b))
  <2>1. cols' = cols /\ outcome' = "trap"
    BY <1>5, <1>9 DEF Arithmetic, Stop
  <2>2. Me.op \in {"Div", "Mod"} /\ as_int(a) = IntMin /\ as_int(b) = -1
    BY <1>9 DEF Overflows
  <2> QED
    BY <1>1, <1>5, <2>1, <2>2, Stopped
<1>10. CASE CanBeInt(a) /\ CanBeInt(b) /\ ~Overflows(Me.op, as_int(a), as_int(b))
  <2>1. PICK x : x = Exact(Me.op, as_int(a), as_int(b))
    OBVIOUS
  <2>2. cols' = Append(cols, Value("Int64", Wraparound(x))) /\ outcome' = outcome
    BY <1>5, <1>10, <2>1 DEF Arithmetic, Push
  <2>3. x \in Int
    <3>1. Me.op \in Arith
      BY <1>1, <1>3 DEF IsNode
    <3>2. as_int(a) \in Int /\ as_int(b) \in Int
      BY <1>6, <1>10, CellFacts, Words
    <3> QED
      BY <2>1, <3>1, <3>2, ExactIsInt
  <2>4. Wraparound(x) \in Int64s /\ (Fits(x) => Wraparound(x) = x)
    BY <2>3, Words
  <2>5. WellTyped(n) /\ Meaning(expr)[n].fits => Wraparound(x) = Meaning(expr)[n].v
    BY <1>1, <1>6, <1>7, <2>1, <2>4 DEF Means
  <2>6. Known(Value("Int64", Wraparound(x)), n)
    BY <1>4, <2>4, <2>5, NewCells DEF Known
  <2> QED
    BY <1>1, <1>2, <2>2, <2>6, NewColumn
<1> QED
  BY <1>8, <1>9, <1>10

LEMMA InInv ==
    ASSUME ExprInv, In
    PROVE  ExprInv'
<1>1. /\ outcome = "ok" /\ Len(cols) < Len(expr) /\ row' = row /\ expr' = expr
      /\ Me.f = "in"
  BY DEF In, Running
<1>2. PICK n : n = Len(cols) + 1
  OBVIOUS
<1>3. /\ Me = expr[n] /\ expr \in Exprs /\ n \in 1..Len(expr)
      /\ Meaning(expr)[n] = MeaningBy(Me, Meaning(expr))
      /\ WellTyped(n) <=> TypesOf(expr)[n] # "none"
      /\ 1 \in DOMAIN Me.kids
  BY <1>1, <1>2, NextNode, OperandsKnown
<1>4. WellTyped(n) => TypesOf(expr)[n] = "Int64" /\ \A i \in DOMAIN Me.kids : TypesOf(expr)[Me.kids[i]] = "Int64"
  BY <1>1, <1>3, TypeMeans
<1>5. PICK a, ma : a = Kid(1) /\ ma = Meaning(expr)[Me.kids[1]]
  OBVIOUS
<1>6. WellTyped(n) => CanBeInt(a) /\ (ma.fits => as_int(a) = ma.v)
  BY <1>1, <1>3, <1>4, <1>5, AnOperand
<1>7. \E mb : Means(Me, Meaning(expr)[n], ma, mb)
  <2>1. PICK of : of = Meaning(expr)
    OBVIOUS
  <2> QED
    BY <1>3, <1>5, <2>1, MeaningMeans
<1>8. CASE CanBeInt(a)
  <2>1. PICK v : v = Truth(\E i \in DOMAIN Me.k : Me.k[i] = as_int(a))
    OBVIOUS
  <2>2. cols' = Append(cols, Value("Int64", v)) /\ outcome' = outcome
    BY <1>5, <1>8, <2>1 DEF In, Push
  <2>3. WellTyped(n) /\ Meaning(expr)[n].fits => v = Meaning(expr)[n].v
    BY <1>1, <1>6, <1>7, <2>1 DEF Means
  <2>4. v \in Int64s
    BY <2>1, Truths
  <2>5. Known(Value("Int64", v), n)
    BY <1>4, <2>3, <2>4, NewCells DEF Known
  <2> QED
    BY <1>1, <1>2, <2>2, <2>5, NewColumn
<1>9. CASE ~CanBeInt(a)
  <2>1. cols' = cols /\ outcome' = "undefined"
    BY <1>5, <1>9 DEF In, Stop
  <2> QED
    BY <1>1, <1>2, <1>6, <1>9, <2>1, Stopped
<1> QED
  BY <1>8, <1>9

LEMMA CaseWhenInv ==
    ASSUME ExprInv, CaseWhen
    PROVE  ExprInv'
<1>1. /\ outcome = "ok" /\ Len(cols) < Len(expr) /\ row' = row /\ expr' = expr
      /\ Me.f = "case"
  BY DEF CaseWhen, Running
<1>2. PICK n : n = Len(cols) + 1
  OBVIOUS
<1>3. /\ Me = expr[n] /\ expr \in Exprs /\ n \in 1..Len(expr)
      /\ Meaning(expr)[n] = MeaningBy(Me, Meaning(expr))
      /\ WellTyped(n) <=> TypesOf(expr)[n] # "none"
      /\ 1 \in DOMAIN Me.kids /\ 2 \in DOMAIN Me.kids /\ 3 \in DOMAIN Me.kids
  BY <1>1, <1>2, NextNode, OperandsKnown
<1>4. PICK a, b, c, ma, mb, mc, t, tb, tc :
        /\ a = Kid(1) /\ b = Kid(2) /\ c = Kid(3)
        /\ ma = Meaning(expr)[Me.kids[1]] /\ mb = Meaning(expr)[Me.kids[2]]
        /\ mc = Meaning(expr)[Me.kids[3]] /\ t = TypesOf(expr)[n]
        /\ tb = TypesOf(expr)[Me.kids[2]] /\ tc = TypesOf(expr)[Me.kids[3]]
  OBVIOUS
<1>5. /\ b \in Cells /\ c \in Cells
      /\ WellTyped(n) => CanBeInt(a) /\ (ma.fits => as_int(a) = ma.v)
      /\ tb = "Int64" => CanBeInt(b) /\ ~CanBeStr(b) /\ (mb.fits => as_int(b) = mb.v)
      /\ tc = "Int64" => CanBeInt(c) /\ (mc.fits => as_int(c) = mc.v)
      /\ tb = "String" => CanBeStr(b) /\ (mb.fits => as_str(b) = mb.v)
      /\ tc = "String" => CanBeStr(c) /\ (mc.fits => as_str(c) = mc.v)
  BY <1>1, <1>3, <1>4, AnOperand, TypeMeans
<1>6. Meaning(expr)[n].fits =>
        ma.fits /\ Meaning(expr)[n] = IF ma.v # 0 THEN mb ELSE mc
  <2>1. PICK x, of : x = Me /\ of = Meaning(expr)
    OBVIOUS
  <2>2. MeaningBy(x, of).fits =>
          /\ of[x.kids[1]].fits
          /\ MeaningBy(x, of) = IF of[x.kids[1]].v # 0 THEN of[x.kids[2]] ELSE of[x.kids[3]]
    BY <1>1, <2>1 DEF MeaningBy
  <2> QED
    BY <1>3, <1>4, <2>1, <2>2
<1>7. WellTyped(n) => tb = t /\ tc = t /\ t \in {"Int64", "String"}
  <2>1. WellTyped(n) => tb = t /\ tc = t /\ t # "Float64" /\ t # "none"
    BY <1>1, <1>3, <1>4, TypeMeans
  <2>2. WellTyped(n) => b.type = tb
    <3>1. WellTyped(n) => WellTyped(Me.kids[2])
      BY <1>4, <2>1 DEF WellTyped
    <3>2. Known(b, Me.kids[2])
      BY <1>1, <1>3, <1>4, OperandsKnown
    <3> QED
      BY <1>4, <3>1, <3>2 DEF Known
  <2>3. b.type \in {"Int64", "Float64", "String"}
    BY <1>5, CellFacts
  <2> QED
    BY <2>1, <2>2, <2>3
<1>8. PICK taken : taken = IF as_int(a) # 0 THEN b ELSE c
  OBVIOUS
<1>9. /\ taken \in Cells
      /\ WellTyped(n) /\ t = "Int64" => CanBeInt(taken) /\ ~CanBeStr(b)
      /\ WellTyped(n) /\ t = "String" => CanBeStr(taken) /\ CanBeStr(b)
  BY <1>5, <1>7, <1>8
<1>10. WellTyped(n) /\ Meaning(expr)[n].fits =>
         /\ t = "Int64" => as_int(taken) = Meaning(expr)[n].v
         /\ t = "String" => as_str(taken) = Meaning(expr)[n].v
  <2>1. SUFFICES ASSUME WellTyped(n), Meaning(expr)[n].fits
                 PROVE  /\ t = "Int64" => as_int(taken) = Meaning(expr)[n].v
                        /\ t = "String" => as_str(taken) = Meaning(expr)[n].v
    OBVIOUS
  <2>2. as_int(a) = ma.v
    BY <1>5, <1>6, <2>1
  <2>3. CASE ma.v # 0
    <3>1. taken = b /\ Meaning(expr)[n] = mb /\ mb.fits
      BY <1>6, <1>8, <2>1, <2>2, <2>3
    <3> QED
      BY <1>5, <1>7, <2>1, <3>1
  <2>4. CASE ma.v = 0
    <3>1. taken = c /\ Meaning(expr)[n] = mc /\ mc.fits
      BY <1>6, <1>8, <2>1, <2>2, <2>4
    <3> QED
      BY <1>5, <1>7, <2>1, <3>1
  <2> QED
    BY <2>3, <2>4
<1>11. CASE ~CanBeInt(a) \/ (CanBeStr(b) /\ ~CanBeStr(taken)) \/ (~CanBeStr(b) /\ ~CanBeInt(taken))
  <2>1. cols' = cols /\ outcome' = "undefined"
    BY <1>4, <1>8, <1>11 DEF CaseWhen, Stop
  <2>2. ~WellTyped(n)
    BY <1>5, <1>7, <1>9, <1>11
  <2> QED
    BY <1>1, <1>2, <2>1, <2>2, Stopped
<1>12. CASE CanBeInt(a) /\ CanBeStr(b) /\ CanBeStr(taken)
  <2>1. cols' = Append(cols, Value("String", as_str(taken))) /\ outcome' = outcome
    BY <1>4, <1>8, <1>12 DEF CaseWhen, Push
  <2>2. as_str(taken) \in Int
    BY <1>9, <1>12, CellFacts DEF CanBeStr
  <2>3. WellTyped(n) => t = "String"
    BY <1>7, <1>9, <1>12
  <2>4. Known(Value("String", as_str(taken)), n)
    BY <1>4, <1>10, <2>2, <2>3, NewCells DEF Known
  <2> QED
    BY <1>1, <1>2, <2>1, <2>4, NewColumn
<1>13. CASE CanBeInt(a) /\ ~CanBeStr(b) /\ CanBeInt(taken)
  <2>1. cols' = Append(cols, Value("Int64", as_int(taken))) /\ outcome' = outcome
    BY <1>4, <1>8, <1>13 DEF CaseWhen, Push
  <2>2. as_int(taken) \in Int64s
    BY <1>9, <1>13, CellFacts
  <2>3. WellTyped(n) => t = "Int64"
    BY <1>7, <1>9, <1>13
  <2>4. Known(Value("Int64", as_int(taken)), n)
    BY <1>4, <1>10, <2>2, <2>3, NewCells DEF Known
  <2> QED
    BY <1>1, <1>2, <2>1, <2>4, NewColumn
<1> QED
  BY <1>11, <1>12, <1>13

-----------------------------------------------------------------------------
(* Evaluation keeps the invariant: each column has the type and the value   *)
(* its node should have if its operands' columns do (Expr::eval of every    *)
(* class of expr.cpp).                                                      *)
THEOREM EvaluationIsRight == Spec => []ExprInv
<1>1. Init => ExprInv
  <2>1. SUFFICES ASSUME Init PROVE ExprInv
    OBVIOUS
  <2>2. /\ cols = <<>> /\ Len(cols) = 0 /\ DOMAIN cols = {} /\ cols \in Seq(Cells)
        /\ outcome = "ok" /\ expr \in Exprs /\ row \in Rows
    BY <2>1 DEF Init
  <2>3. Len(expr) \in Nat
    BY <2>2, ExprsAssumption
  <2> QED
    BY <2>2, <2>3 DEF ExprInv, ExprTypeOK, TypesAreKept, EagerMeansLazy, OnlyTheLeastTraps, DoublesByBits
<1>2. ExprInv /\ [Next]_vars => ExprInv'
  <2>1. SUFFICES ASSUME ExprInv, [Next]_vars PROVE ExprInv'
    OBVIOUS
  <2>2. CASE EvalLeaf
    BY <2>1, <2>2, EvalLeafInv
  <2>3. CASE Compare
    BY <2>1, <2>3, CompareInv
  <2>4. CASE Bool
    BY <2>1, <2>4, BoolInv
  <2>5. CASE Arithmetic
    BY <2>1, <2>5, ArithmeticInv
  <2>6. CASE In
    BY <2>1, <2>6, InInv
  <2>7. CASE CaseWhen
    BY <2>1, <2>7, CaseWhenInv
  <2>8. CASE UNCHANGED vars
    <3>1. expr' = expr /\ row' = row /\ cols' = cols /\ outcome' = outcome
      BY <2>8 DEF vars
    <3>2. /\ TypesOf(expr)' = TypesOf(expr) /\ Meaning(expr)' = Meaning(expr)
      BY <3>1, RowStays
    <3> QED
      BY <2>1, <3>1, <3>2 DEF ExprInv, ExprTypeOK, TypesAreKept, EagerMeansLazy, OnlyTheLeastTraps,
                              DoublesByBits, WellTyped, Me, Kid
  <2> QED
    BY <2>1, <2>2, <2>3, <2>4, <2>5, <2>6, <2>7, <2>8 DEF Next
<1> QED
  BY <1>1, <1>2, PTL DEF Spec

(* Whatever the expression, a node of the right operands is never read as   *)
(* something it is not: the static_casts of as_int and as_str are to the    *)
(* class the column is of.                                                  *)
THEOREM CastsAreRight == Spec => []TypesAreKept
BY EvaluationIsRight, PTL DEF ExprInv

(* Evaluating every operand of every node first gives what SQL, which does  *)
(* not, would give, and ends the program only where the least number is     *)
(* divided by -1 (BoolExpr, CaseExpr and ArithExpr).                         *)
THEOREM EagerEvaluationIsRight == Spec => []EagerMeansLazy
BY EvaluationIsRight, PTL DEF ExprInv

(* Comparing the bits of two doubles is comparing them, but for two         *)
(* negative ones and for the two zeroes (CmpExpr, which knows no Float64).  *)
THEOREM DoublesCompareByBits == Spec => []DoublesByBits
BY EvaluationIsRight, PTL DEF ExprInv

-----------------------------------------------------------------------------
(* LIKE.  The places of a string s between the characters are 0 to Len(s);  *)
(* a character of a pattern takes the span from one of them to another.     *)
SpanOK(c, s, a, b) ==
    /\ a <= b
    /\ c = "_" => b = a + 1
    /\ c \notin Special => b = a + 1 /\ s[b] = c

(* The first i characters of p take the first j of s, cut at the places at. *)
CutsTo(at, s, p, i, j) ==
    /\ at \in [0..i -> 0..Len(s)]
    /\ at[0] = 0 /\ at[i] = j
    /\ \A k \in 1..i : SpanOK(p[k], s, at[k - 1], at[k])

(* When a character takes a span. *)
LEMMA SpanHolds ==
    ASSUME NEW s, NEW a \in Int, NEW b \in Int, NEW c
    PROVE  /\ c = "%" /\ a <= b => SpanOK(c, s, a, b)
           /\ c \notin Special /\ b = a + 1 /\ s[b] = c => SpanOK(c, s, a, b)
<1>1. c = "%" /\ a <= b => SpanOK(c, s, a, b)
  BY DEF SpanOK, Special
<1>2. b = a + 1 => a <= b
  OBVIOUS
<1>3. c \notin Special /\ b = a + 1 /\ s[b] = c => SpanOK(c, s, a, b)
  BY <1>2, Zenon DEF SpanOK
<1>. QED BY <1>1, <1>3

(* A span of s is t where the characters are. *)
LEMMA OccursAt ==
    ASSUME NEW C, NEW s \in Seq(C), NEW t \in Seq(C), NEW a \in Int, NEW b \in Int,
           0 <= a, b = a + Len(t), b <= Len(s)
    PROVE  SubSeq(s, a + 1, b) = t <=> \A k \in 1..Len(t) : s[a + k] = t[k]
<1>1. PICK n \in Nat : n = Len(t)
  BY LenProperties
<1>. DEFINE u == SubSeq(s, a + 1, b)
<1>2. \A i \in a + 1..b : s[i] \in C
  BY LenProperties, ElementOfSeq
<1>3. /\ u \in Seq(C) /\ Len(u) = IF a + 1 <= b THEN b - (a + 1) + 1 ELSE 0
      /\ \A i \in 1..b - (a + 1) + 1 : u[i] = s[a + 1 + i - 1]
  BY <1>1, <1>2, SubSeqProperties
<1>. HIDE DEF u
<1>4. Len(u) = n
  BY <1>1, <1>3
<1>5. \A k \in 1..n : u[k] = s[a + k]
  BY <1>1, <1>3
<1>6. u = t <=> \A k \in 1..n : u[k] = t[k]
  BY <1>1, <1>3, <1>4, SeqEqual
<1>. QED BY <1>1, <1>5, <1>6 DEF u

(* A sequence of one character. *)
LEMMA OneCharacter ==
    ASSUME NEW C, NEW t \in Seq(C), NEW c
    PROVE  t = <<c>> <=> Len(t) = 1 /\ t[1] = c
<1>1. /\ <<c>> \in Seq(C \cup {c}) /\ Len(<<c>>) = 1 /\ <<c>>[1] = c
  OBVIOUS
<1>2. t \in Seq(C \cup {c})
  BY SeqMonotonic
<1>3. ASSUME Len(t) = 1, t[1] = c PROVE t = <<c>>
  BY <1>1, <1>2, <1>3, SeqEqual
<1>. QED BY <1>1, <1>3

(* What each character takes: so much of the string as its span is long. *)
LEMMA SpansAre ==
    ASSUME NEW C, NEW s \in Seq(C), NEW a \in 0..Len(s), NEW b \in 0..Len(s), NEW c
    PROVE  SpanOK(c, s, a, b) <=>
             /\ a <= b
             /\ c = "_" => Len(SubSeq(s, a + 1, b)) = 1
             /\ c \notin Special => SubSeq(s, a + 1, b) = <<c>>
<1>1. SUFFICES ASSUME a <= b
      PROVE  /\ Len(SubSeq(s, a + 1, b)) = 1 <=> b = a + 1
             /\ SubSeq(s, a + 1, b) = <<c>> <=> b = a + 1 /\ s[b] = c
  BY DEF SpanOK
<1>2. PICK t : t = SubSeq(s, a + 1, b)
  OBVIOUS
<1>3. a \in Int /\ b \in Int /\ Len(s) \in Nat
  BY LenProperties
<1>4. \A i \in a + 1..b : s[i] \in C
  BY <1>3, ElementOfSeq
<1>5. /\ t \in Seq(C) /\ Len(t) = IF a + 1 <= b THEN b - (a + 1) + 1 ELSE 0
      /\ \A i \in 1..b - (a + 1) + 1 : t[i] = s[a + 1 + i - 1]
  BY <1>2, <1>3, <1>4, SubSeqProperties
<1>6. Len(t) = 1 <=> b = a + 1
  BY <1>1, <1>3, <1>5
<1>7. b = a + 1 => t[1] = s[b]
  BY <1>3, <1>5
<1>8. t = <<c>> <=> Len(t) = 1 /\ t[1] = c
  BY <1>5, OneCharacter
<1>. QED BY <1>2, <1>6, <1>7, <1>8

(* SQL accepts a string that can be cut, a span for each character. *)
LEMMA SqlLikeCuts ==
    ASSUME NEW C, NEW s \in Seq(C), NEW p \in Seq(C)
    PROVE  SqlLike(s, p) <=> \E at : CutsTo(at, s, p, Len(p), Len(s))
<1>1. PICK m \in Nat, n \in Nat : m = Len(s) /\ n = Len(p)
  BY LenProperties
<1>2. CASE n = 0
  <2>1. p = <<>>
    BY <1>1, <1>2, EmptySeq
  <2>2. SqlLike(s, p) <=> m = 0
    BY <1>1, <2>1, EmptySeq DEF SqlLike
  <2>3. ASSUME m = 0 PROVE CutsTo([k \in 0..0 |-> 0], s, p, 0, 0)
    BY <1>1, <1>2, <2>3 DEF CutsTo
  <2>4. ASSUME NEW at, CutsTo(at, s, p, 0, m) PROVE m = 0
    BY <1>1, <1>2, <2>4 DEF CutsTo
  <2>. QED BY <1>1, <1>2, <2>2, <2>3, <2>4
<1>3. CASE n # 0
  <2>. DEFINE At(cut, i) == IF i = 0 THEN 0 ELSE IF i = Len(p) THEN Len(s) ELSE cut[i]
              Good(cut) == \A i \in 1..Len(p) :
                 /\ At(cut, i - 1) <= At(cut, i)
                 /\ p[i] = "_" => Len(SubSeq(s, At(cut, i - 1) + 1, At(cut, i))) = 1
                 /\ p[i] \notin Special => SubSeq(s, At(cut, i - 1) + 1, At(cut, i)) = <<p[i]>>
  <2>1. p # <<>>
    BY <1>1, <1>3, EmptySeq
  <2>2. SqlLike(s, p) <=> \E cut \in [1..Len(p) - 1 -> 0..Len(s)] : Good(cut)
    BY <2>1, Zenon DEF SqlLike
  <2>3. ASSUME NEW cut \in [1..n - 1 -> 0..m], Good(cut) PROVE \E at : CutsTo(at, s, p, n, m)
    <3>1. PICK at : at = [k \in 0..n |-> At(cut, k)]
      OBVIOUS
    <3>2. at \in [0..n -> 0..m] /\ at[0] = 0 /\ at[n] = m
      BY <1>1, <1>3, <3>1
    <3>3. ASSUME NEW i \in 1..n PROVE SpanOK(p[i], s, at[i - 1], at[i])
      <4>1. PICK a \in 0..m, b \in 0..m : a = at[i - 1] /\ b = at[i]
        BY <3>2
      <4>. HIDE DEF At
      <4>5. \A k \in 0..n : at[k] = At(cut, k)
        BY <3>1
      <4>6. i - 1 \in 0..n /\ i \in 0..n
        OBVIOUS
      <4>2. a = At(cut, i - 1) /\ b = At(cut, i)
        BY <4>1, <4>5, <4>6
      <4>3. /\ a <= b
            /\ p[i] = "_" => Len(SubSeq(s, a + 1, b)) = 1
            /\ p[i] \notin Special => SubSeq(s, a + 1, b) = <<p[i]>>
        BY <1>1, <2>3, <4>2
      <4>. QED BY <1>1, <4>1, <4>3, SpansAre
    <3>. QED BY <1>1, <3>2, <3>3 DEF CutsTo
  <2>4. ASSUME NEW at, CutsTo(at, s, p, n, m) PROVE \E cut \in [1..n - 1 -> 0..m] : Good(cut)
    <3>1. at \in [0..n -> 0..m] /\ at[0] = 0 /\ at[n] = m
      BY <1>1, <2>4 DEF CutsTo
    <3>. DEFINE cut == [k \in 1..n - 1 |-> at[k]]
    <3>2. cut \in [1..n - 1 -> 0..m]
      BY <3>1
    <3>3. ASSUME NEW i \in 0..n PROVE At(cut, i) = at[i]
      BY <1>1, <3>1
    <3>4. ASSUME NEW i \in 1..n
          PROVE  /\ At(cut, i - 1) <= At(cut, i)
                 /\ p[i] = "_" => Len(SubSeq(s, At(cut, i - 1) + 1, At(cut, i))) = 1
                 /\ p[i] \notin Special => SubSeq(s, At(cut, i - 1) + 1, At(cut, i)) = <<p[i]>>
      <4>1. PICK a \in 0..m, b \in 0..m : a = at[i - 1] /\ b = at[i]
        BY <3>1
      <4>2. At(cut, i - 1) = a /\ At(cut, i) = b
        <5>1. i - 1 \in 0..n /\ i \in 0..n
          OBVIOUS
        <5>. QED BY <3>3, <4>1, <5>1
      <4>. HIDE DEF At, cut
      <4>3. SpanOK(p[i], s, a, b)
        BY <1>1, <2>4, <4>1 DEF CutsTo
      <4>4. /\ a <= b
            /\ p[i] = "_" => Len(SubSeq(s, a + 1, b)) = 1
            /\ p[i] \notin Special => SubSeq(s, a + 1, b) = <<p[i]>>
        BY <1>1, <4>3, SpansAre
      <4>. QED BY <4>2, <4>4
    <3>. QED BY <1>1, <3>2, <3>4
  <2>. HIDE DEF Good
  <2>. QED BY <1>1, <2>2, <2>3, <2>4
<1>. QED BY <1>2, <1>3

(* Characters that take those of s one by one. *)
OneByOne(at, s, p, lo, hi) ==
    /\ lo \in Nat /\ hi \in Nat /\ lo <= hi /\ at[lo] \in Int
    /\ \A i \in lo + 1..hi : at[i] = at[i - 1] + 1 /\ s[at[i]] = p[i]
InOneRun(at, s, p, lo, hi) ==
    \A k \in 0..hi - lo : at[lo + k] = at[lo] + k /\ (k > 0 => s[at[lo] + k] = p[lo + k])

(* Characters that are not special take as many, the same ones. *)
LEMMA LiteralRun ==
    ASSUME NEW s, NEW p, NEW at, NEW lo, NEW hi, OneByOne(at, s, p, lo, hi)
    PROVE  InOneRun(at, s, p, lo, hi)
<1>0. /\ lo \in Nat /\ hi \in Nat /\ lo <= hi /\ at[lo] \in Int
      /\ \A i \in lo + 1..hi : at[i] = at[i - 1] + 1 /\ s[at[i]] = p[i]
  BY DEF OneByOne
<1>. DEFINE P == {k \in 0..hi - lo : at[lo + k] = at[lo] + k /\ (k > 0 => s[at[lo] + k] = p[lo + k])}
<1>1. hi - lo \in Nat
  BY <1>0
<1>2. 0 \in P
  BY <1>0, <1>1
<1>3. ASSUME NEW k \in 0..hi - lo, k \in P, k < hi - lo PROVE k + 1 \in P
  <2>1. PICK i \in lo + 1..hi : i = lo + k + 1
    BY <1>0, <1>1, <1>3
  <2>2. at[i] = at[i - 1] + 1 /\ s[at[i]] = p[i]
    BY <1>0
  <2>3. i - 1 = lo + k /\ i = lo + (k + 1) /\ at[lo + k] = at[lo] + k
    BY <1>0, <1>3, <2>1
  <2>. QED BY <1>0, <1>1, <1>3, <2>2, <2>3
<1>4. 0..hi - lo \subseteq P
  <2>. HIDE DEF P
  <2>. QED BY <1>1, <1>2, <1>3, UpToN
<1>. QED BY <1>4 DEF InOneRun

(* A pattern that is plain but for a "%" before or after: what SQL asks for *)
(* is the body, and that it starts where s does if no "%" is before, and    *)
(* ends where s does if none is after.                                      *)
PlainBut(p, before, behind, len) ==
    /\ before \in 0..1 /\ behind \in 0..1 /\ len \in Nat /\ Len(p) = before + len + behind
    /\ before = 1 => p[1] = "%"
    /\ behind = 1 => p[Len(p)] = "%"
    /\ \A i \in before + 1..before + len : p[i] \notin Special
HasBody(s, p, before, behind, len) ==
    \E i \in 0..Len(s) : /\ i + len <= Len(s)
                         /\ before = 0 => i = 0
                         /\ behind = 0 => i + len = Len(s)
                         /\ \A k \in 1..len : s[i + k] = p[before + k]

(* A pattern with percents at its ends only accepts what has its body there. *)
LEMMA PlainBody ==
    ASSUME NEW C, NEW s \in Seq(C), NEW p \in Seq(C), NEW before, NEW behind, NEW len,
           PlainBut(p, before, behind, len)
    PROVE  SqlLike(s, p) <=> HasBody(s, p, before, behind, len)
<1>0. /\ before \in 0..1 /\ behind \in 0..1 /\ len \in Nat /\ Len(p) = before + len + behind
      /\ before = 1 => p[1] = "%"
      /\ behind = 1 => p[Len(p)] = "%"
      /\ \A i \in before + 1..before + len : p[i] \notin Special
  BY DEF PlainBut
<1>1. PICK n \in Nat : n = Len(p)
  BY LenProperties
<1>2. PICK m \in Nat : m = Len(s)
  BY LenProperties
<1>3. before \in Int /\ behind \in Int /\ n = before + len + behind /\ before + len <= n
  BY <1>0, <1>1
<1>4. ASSUME NEW at, CutsTo(at, s, p, n, m)
      PROVE  \E i \in 0..m : /\ i + len <= m
                             /\ before = 0 => i = 0
                             /\ behind = 0 => i + len = m
                             /\ \A k \in 1..len : s[i + k] = p[before + k]
  <2>1. /\ at \in [0..n -> 0..m] /\ at[0] = 0 /\ at[n] = m
    BY <1>2, <1>4 DEF CutsTo
  <2>2. PICK i \in 0..m : i = at[before]
    BY <1>0, <1>3, <2>1
  <2>3. ASSUME NEW k \in 0..len
        PROVE  at[before + k] = at[before] + k /\ (k > 0 => s[at[before] + k] = p[before + k])
    <3>1. ASSUME NEW h \in before + 1..before + len PROVE at[h] = at[h - 1] + 1 /\ s[at[h]] = p[h]
      <4>1. SpanOK(p[h], s, at[h - 1], at[h]) /\ p[h] \notin Special
        BY <1>0, <1>3, <1>4 DEF CutsTo
      <4>. QED BY <4>1 DEF SpanOK
    <3>2. PICK hi \in Nat : hi = before + len
      BY <1>0, <1>3
    <3>3. before \in Nat /\ before <= hi /\ at[before] \in Int /\ hi - before = len
      BY <1>0, <1>3, <2>1, <3>2
    <3>4. OneByOne(at, s, p, before, hi)
      BY <3>1, <3>2, <3>3 DEF OneByOne
    <3>5. InOneRun(at, s, p, before, hi)
      BY <3>4, LiteralRun
    <3>. QED BY <3>3, <3>5 DEF InOneRun
  <2>4. at[before + len] = i + len /\ \A k \in 1..len : s[i + k] = p[before + k]
    <3>1. at[before + len] = i + len
      BY <1>0, <2>2, <2>3
    <3>2. ASSUME NEW k \in 1..len PROVE s[i + k] = p[before + k]
      <4>1. k \in 0..len /\ k > 0
        BY <1>0
      <4>. QED BY <1>0, <2>2, <2>3, <4>1
    <3>. QED BY <3>1, <3>2
  <2>5. i + len <= m
    BY <1>0, <1>3, <2>1, <2>4
  <2>6. (before = 0 => i = 0) /\ (behind = 0 => i + len = m)
    BY <1>0, <1>3, <2>1, <2>2, <2>4
  <2>. QED BY <2>4, <2>5, <2>6
<1>5. ASSUME NEW i \in 0..m, i + len <= m, before = 0 => i = 0, behind = 0 => i + len = m,
             \A k \in 1..len : s[i + k] = p[before + k]
      PROVE  \E at : CutsTo(at, s, p, n, m)
  <2>1. PICK at : at = [k \in 0..n |-> IF k < before THEN 0 ELSE IF k > before + len THEN m
                                       ELSE i + (k - before)]
    OBVIOUS
  <2>2. at \in [0..n -> 0..m] /\ at[0] = 0 /\ at[n] = m
    BY <1>0, <1>3, <1>5, <2>1
  <2>3. ASSUME NEW k \in 1..n PROVE SpanOK(p[k], s, at[k - 1], at[k])
    <3>1. PICK a \in 0..m, b \in 0..m : a = at[k - 1] /\ b = at[k]
      BY <2>2
    <3>. SUFFICES SpanOK(p[k], s, a, b)
      BY <3>1
    <3>0. a \in Int /\ b \in Int
      OBVIOUS
    <3>2. CASE k <= before
      <4>1. k = 1 /\ before = 1 /\ p[k] = "%" /\ a = 0 /\ a <= b
        BY <1>0, <1>3, <2>2, <3>1, <3>2
      <4>. QED BY <3>0, <4>1, SpanHolds
    <3>3. CASE before < k /\ k <= before + len
      <4>1. a = i + (k - 1 - before) /\ b = i + (k - before)
        BY <1>0, <1>3, <2>1, <3>1, <3>3
      <4>2. k - before \in 1..len /\ k = before + (k - before) /\ b = a + 1
        BY <1>0, <1>3, <3>3, <4>1
      <4>3. s[b] = p[k]
        BY <1>5, <4>1, <4>2
      <4>4. p[k] \notin Special
        BY <1>0, <1>3, <3>3
      <4>. QED BY <3>0, <4>2, <4>3, <4>4, SpanHolds
    <3>4. CASE k > before + len
      <4>1. k = n /\ behind = 1 /\ p[k] = "%" /\ b = m /\ a <= b
        BY <1>0, <1>1, <1>3, <2>2, <3>1, <3>4
      <4>. QED BY <3>0, <4>1, SpanHolds
    <3>. QED BY <1>0, <1>3, <3>2, <3>3, <3>4
  <2>. QED BY <1>2, <2>2, <2>3 DEF CutsTo
<1>6. SqlLike(s, p) <=> \E at : CutsTo(at, s, p, n, m)
  BY <1>1, <1>2, SqlLikeCuts
<1>. QED BY <1>2, <1>4, <1>5, <1>6 DEF HasBody

(* The whole of a pattern is a part of it and one more character. *)
LEMMA CutsStep ==
    ASSUME NEW C, NEW s \in Seq(C), NEW p \in Seq(C), NEW i \in 1..Len(p), NEW j \in 0..Len(s)
    PROVE  (\E at : CutsTo(at, s, p, i, j)) <=>
             \E h \in 0..Len(s) : SpanOK(p[i], s, h, j) /\ \E at : CutsTo(at, s, p, i - 1, h)
<1>1. i \in Int /\ i >= 1
  OBVIOUS
<1>2. ASSUME NEW at, CutsTo(at, s, p, i, j)
      PROVE  \E h \in 0..Len(s) : SpanOK(p[i], s, h, j) /\ \E to : CutsTo(to, s, p, i - 1, h)
  <2>1. /\ at \in [0..i -> 0..Len(s)] /\ at[0] = 0 /\ at[i] = j
        /\ \A k \in 1..i : SpanOK(p[k], s, at[k - 1], at[k])
    BY <1>2 DEF CutsTo
  <2>2. PICK to : to = [k \in 0..i - 1 |-> at[k]]
    OBVIOUS
  <2>3. to \in [0..i - 1 -> 0..Len(s)] /\ to[0] = 0 /\ to[i - 1] = at[i - 1] /\ at[i - 1] \in 0..Len(s)
    BY <1>1, <2>1, <2>2
  <2>4. ASSUME NEW k \in 1..i - 1 PROVE SpanOK(p[k], s, to[k - 1], to[k])
    <3>1. k \in 1..i /\ to[k] = at[k] /\ to[k - 1] = at[k - 1]
      BY <1>1, <2>2
    <3>. QED BY <2>1, <3>1
  <2>5. CutsTo(to, s, p, i - 1, at[i - 1])
    BY <2>3, <2>4 DEF CutsTo
  <2>6. SpanOK(p[i], s, at[i - 1], j)
    BY <2>1
  <2>. QED BY <2>3, <2>5, <2>6
<1>3. ASSUME NEW h \in 0..Len(s), SpanOK(p[i], s, h, j), NEW to, CutsTo(to, s, p, i - 1, h)
      PROVE  \E at : CutsTo(at, s, p, i, j)
  <2>1. /\ to \in [0..i - 1 -> 0..Len(s)] /\ to[0] = 0 /\ to[i - 1] = h
        /\ \A k \in 1..i - 1 : SpanOK(p[k], s, to[k - 1], to[k])
    BY <1>3 DEF CutsTo
  <2>2. PICK at : at = [k \in 0..i |-> IF k = i THEN j ELSE to[k]]
    OBVIOUS
  <2>3. at \in [0..i -> 0..Len(s)] /\ at[0] = 0 /\ at[i] = j /\ at[i - 1] = h
    BY <1>1, <2>1, <2>2
  <2>4. ASSUME NEW k \in 1..i PROVE SpanOK(p[k], s, at[k - 1], at[k])
    <3>1. CASE k = i
      BY <1>3, <2>3, <3>1
    <3>2. CASE k # i
      <4>1. k \in 1..i - 1 /\ at[k] = to[k] /\ at[k - 1] = to[k - 1]
        BY <1>1, <2>2, <3>2
      <4>. QED BY <2>1, <4>1
    <3>. QED BY <3>1, <3>2
  <2>. QED BY <2>3, <2>4 DEF CutsTo
<1>. QED BY <1>2, <1>3

Tokens == {"any", "anything"}

(* One token of an expression takes what the character of the pattern may   *)
(* take, as far as no line break is in the way.                             *)
LEMMA ReachIs ==
    ASSUME NEW C, NEW s \in Seq(C), NEW c, c \notin Tokens, NEW from \in SUBSET (0..Len(s))
    PROVE  /\ Reach(s, from, Token(c)) \subseteq {j \in 0..Len(s) : \E h \in from : SpanOK(c, s, h, j)}
           /\ (\A i \in DOMAIN s : NotBreak(s[i])) =>
                \A h \in from, j \in 0..Len(s) : SpanOK(c, s, h, j) => j \in Reach(s, from, Token(c))
<1>1. PICK m \in Nat : m = Len(s)
  BY LenProperties
<1>2. DOMAIN s = 1..m
  BY <1>1, LenProperties
<1>3. from \subseteq 0..m
  BY <1>1
<1>4. CASE c = "%"
  <2>1. Reach(s, from, Token(c)) = {i \in 0..m : \E j \in from : j <= i /\ \A k \in j + 1..i : NotBreak(s[k])}
    BY <1>1, <1>4 DEF Token, Reach
  <2>2. ASSUME NEW h \in from, NEW j \in 0..m PROVE SpanOK(c, s, h, j) <=> h <= j
    <3>1. h \in Int /\ j \in Int
      BY <1>3
    <3>2. h <= j => SpanOK(c, s, h, j)
      BY <1>4, <3>1, SpanHolds
    <3>. QED BY <3>2 DEF SpanOK
  <2>3. \A h \in from, j \in 0..m : \A k \in h + 1..j : k \in 1..m
    BY <1>3
  <2>. QED BY <1>1, <1>2, <1>3, <2>1, <2>2, <2>3
<1>5. CASE c # "%"
  <2>. DEFINE Follows(j) == IF c = "_" THEN NotBreak(s[j + 1]) ELSE s[j + 1] = c
  <2>1. Reach(s, from, Token(c)) = {i + 1 : i \in {j \in from : j < m /\ Follows(j)}}
    <3>1. CASE c = "_"
      BY <1>1, <1>5, <3>1 DEF Token, Reach
    <3>2. CASE c # "_"
      <4>1. Token(c) = c /\ c # "any" /\ c # "anything"
        BY <1>5, <3>2, Zenon DEF Token, Tokens
      <4>2. Reach(s, from, c) = {i + 1 : i \in {j \in from : j < Len(s) /\ s[j + 1] = c}}
        BY <4>1 DEF Reach
      <4>. QED BY <1>1, <3>2, <4>1, <4>2
    <3>. QED BY <3>1, <3>2
  <2>2. ASSUME NEW h \in from, NEW j \in 0..m
        PROVE  SpanOK(c, s, h, j) <=> j = h + 1 /\ (c # "_" => s[h + 1] = c)
    <3>1. c = "_" => c \in Special
      BY DEF Special
    <3>2. c # "_" => c \notin Special
      BY <1>5 DEF Special
    <3>3. h \in Int /\ j \in Int /\ (j = h + 1 => h <= j)
      BY <1>3
    <3>. QED BY <3>1, <3>2, <3>3 DEF SpanOK
  <2>3. ASSUME NEW h \in from, h < m PROVE h + 1 \in 0..m /\ h + 1 \in 1..m /\ h \in 0..m
    BY <1>3, <2>3
  <2>4. Reach(s, from, Token(c)) \subseteq {j \in 0..m : \E h \in from : SpanOK(c, s, h, j)}
    BY <2>1, <2>2, <2>3
  <2>5. ASSUME \A i \in 1..m : NotBreak(s[i]), NEW h \in from, NEW j \in 0..m, SpanOK(c, s, h, j)
        PROVE  j \in Reach(s, from, Token(c))
    <3>1. j = h + 1 /\ (c # "_" => s[h + 1] = c) /\ h \in 0..m
      BY <1>3, <2>2, <2>5
    <3>2. h < m /\ h + 1 \in 1..m
      <4>1. PICK x \in 0..m : x = h
        BY <3>1
      <4>2. j = x + 1
        BY <3>1, <4>1
      <4>. QED BY <4>1, <4>2
    <3>3. NotBreak(s[h + 1])
      BY <2>5, <3>2
    <3>. QED BY <2>1, <3>1, <3>2, <3>3
  <2>. HIDE DEF Follows
  <2>. QED BY <1>1, <1>2, <2>4, <2>5
<1>. QED BY <1>4, <1>5

(* The places after each token of an expression. *)
PlacesAfter(after, s, p) ==
    /\ after \in [0..Len(p) -> SUBSET (0..Len(s))]
    /\ RegexSearch(s, Expression(p)) <=> Len(s) \in after[Len(p)]
    /\ after[0] = {0}
    /\ \A t \in 1..Len(p) : after[t] = Reach(s, after[t - 1], Token(p[t]))

(* The places a search has come to, token by token. *)
LEMMA RegexUnfolds ==
    ASSUME NEW C, NEW s \in Seq(C), NEW p \in Seq(C), \A i \in DOMAIN p : p[i] \notin Tokens
    PROVE  \E after : PlacesAfter(after, s, p)
<1>1. PICK m \in Nat : m = Len(s)
  BY LenProperties
<1>2. PICK n \in Nat : n = Len(p) /\ DOMAIN p = 1..n
  BY LenProperties
<1>3. PICK tokens : tokens = Expression(p)
  OBVIOUS
<1>4. Len(tokens) = n /\ \A t \in 1..n : tokens[t] = Token(p[t])
  BY <1>2, <1>3 DEF Expression
<1>. DEFINE Places == SUBSET (0..m)
            Unfolds(f) == f = [t \in 0..Len(tokens) |->
                                 IF t = 0 THEN {0} ELSE Reach(s, f[t - 1], tokens[t])]
<1>5. PICK g \in [0..n -> Places] : Unfolds(g)
  <2>. DEFINE F == [t \in 1..n |-> [from \in Places |-> Reach(s, from, Token(p[t]))]]
  <2>1. ASSUME NEW t \in 1..n, NEW from \in Places PROVE Reach(s, from, Token(p[t])) \in Places
    <3>1. p[t] \notin Tokens /\ from \in SUBSET (0..Len(s))
      BY <1>1, <1>2
    <3>2. Reach(s, from, Token(p[t])) \subseteq {j \in 0..Len(s) : \E h \in from : SpanOK(p[t], s, h, j)}
      BY <3>1, ReachIs
    <3>. QED BY <1>1, <3>2
  <2>2. F \in [1..n -> [Places -> Places]] /\ {0} \in Places
    <3>1. {0} \in Places
      BY <1>1
    <3>. HIDE DEF Places
    <3>. QED BY <2>1, <3>1
  <2>3. \A t \in 1..n : \A from \in Places : F[t][from] = Reach(s, from, Token(p[t]))
    OBVIOUS
  <2>. HIDE DEF F, Places
  <2>4. PICK g \in [0..n -> Places] : Rounds(g, n, {0}, F)
    BY <2>2, RoundsExist
  <2>5. ASSUME NEW t \in 1..n PROVE g[t] = Reach(s, g[t - 1], tokens[t])
    <3>1. g[t - 1] \in Places
      BY <1>2
    <3>. QED BY <1>4, <2>3, <2>4, <3>1 DEF Rounds
  <2>6. ASSUME NEW t \in 0..n PROVE g[t] = IF t = 0 THEN {0} ELSE Reach(s, g[t - 1], tokens[t])
    <3>1. t = 0 \/ t \in 1..n
      OBVIOUS
    <3>. QED BY <2>4, <2>5, <3>1 DEF Rounds
  <2>7. Unfolds(g)
    BY <1>4, <2>6
  <2>. QED BY <2>7
<1>. DEFINE after == CHOOSE f : Unfolds(f)
<1>6. RegexSearch(s, tokens) <=> Len(s) \in after[Len(tokens)]
  BY DEF RegexSearch
<1>7. Unfolds(after)
  <2>. HIDE DEF Unfolds
  <2>. QED BY <1>5
<1>8. PICK a : a = after
  OBVIOUS
<1>9. a = [t \in 0..n |-> IF t = 0 THEN {0} ELSE Reach(s, a[t - 1], tokens[t])]
  BY <1>4, <1>7, <1>8
<1>10. g = [t \in 0..n |-> IF t = 0 THEN {0} ELSE Reach(s, g[t - 1], tokens[t])]
  BY <1>4, <1>5
<1>. HIDE DEF after, Unfolds
<1>11. a[0] = {0} /\ \A t \in 1..n : a[t] = Reach(s, a[t - 1], Token(p[t]))
  <2>1. a[0] = {0}
    BY <1>2, <1>9
  <2>2. ASSUME NEW t \in 1..n PROVE a[t] = Reach(s, a[t - 1], Token(p[t]))
    <3>1. t \in 0..n /\ t # 0
      BY <1>2
    <3>. QED BY <1>4, <1>9, <3>1
  <2>. QED BY <2>1, <2>2
<1>12. ASSUME NEW t \in 1..n, a[t - 1] \in Places PROVE a[t] \in Places
  <2>1. p[t] \notin Tokens /\ a[t - 1] \in SUBSET (0..Len(s))
    BY <1>1, <1>2, <1>12
  <2>2. Reach(s, a[t - 1], Token(p[t])) \subseteq {j \in 0..Len(s) : \E h \in a[t - 1] : SpanOK(p[t], s, h, j)}
    BY <2>1, ReachIs
  <2>. QED BY <1>1, <1>11, <2>2
<1>13. a[0] \in Places
  BY <1>11
<1>14. \A t \in 0..n : a[t] \in Places
  <2>. HIDE DEF Places
  <2>. QED BY <1>12, <1>13, EveryRound
<1>15. a \in [0..n -> Places]
  BY <1>9, <1>14
<1>. QED BY <1>1, <1>2, <1>3, <1>4, <1>6, <1>8, <1>11, <1>15 DEF PlacesAfter

(* An expression finds no string that SQL does not, and every one without a *)
(* line break that SQL does.                                                *)
LEMMA RegexIsSql ==
    ASSUME NEW C, NEW s \in Seq(C), NEW p \in Seq(C), \A i \in DOMAIN p : p[i] \notin Tokens
    PROVE  LET found == RegexSearch(s, Expression(p))
           IN  /\ found => SqlLike(s, p)
               /\ (\A i \in DOMAIN s : NotBreak(s[i])) /\ SqlLike(s, p) => found
<1>1. PICK m \in Nat : m = Len(s)
  BY LenProperties
<1>2. PICK n \in Nat : n = Len(p) /\ DOMAIN p = 1..n
  BY LenProperties
<1>. DEFINE found == RegexSearch(s, Expression(p))
<1>3. PICK after \in [0..n -> SUBSET (0..m)] :
        /\ found <=> m \in after[n]
        /\ after[0] = {0}
        /\ \A t \in 1..n : after[t] = Reach(s, after[t - 1], Token(p[t]))
  <2>1. PICK after : PlacesAfter(after, s, p)
    BY RegexUnfolds
  <2>. QED BY <1>1, <1>2, <2>1 DEF PlacesAfter
<1>. HIDE DEF found
<1>. DEFINE Cut(t, j) == \E at : CutsTo(at, s, p, t, j)
            Within(t) == \A j \in after[t] : Cut(t, j)
            All(t) == \A j \in 0..m : Cut(t, j) => j \in after[t]
<1>4. \A j \in 0..m : Cut(0, j) <=> j = 0
  <2>1. ASSUME NEW j \in 0..m, NEW at, CutsTo(at, s, p, 0, j) PROVE j = 0
    BY <2>1 DEF CutsTo
  <2>2. CutsTo([k \in 0..0 |-> 0], s, p, 0, 0)
    BY <1>1 DEF CutsTo
  <2>. QED BY <2>1, <2>2
<1>5. ASSUME NEW t \in 1..n, NEW j \in 0..m
      PROVE  Cut(t, j) <=> \E h \in 0..m : SpanOK(p[t], s, h, j) /\ Cut(t - 1, h)
  BY <1>1, <1>2, CutsStep
<1>6. ASSUME NEW t \in 1..n
      PROVE  /\ after[t] \subseteq {j \in 0..m : \E h \in after[t - 1] : SpanOK(p[t], s, h, j)}
             /\ (\A i \in DOMAIN s : NotBreak(s[i])) =>
                  \A h \in after[t - 1], j \in 0..m : SpanOK(p[t], s, h, j) => j \in after[t]
             /\ after[t - 1] \in SUBSET (0..m)
  <2>1. PICK from : from = after[t - 1]
    OBVIOUS
  <2>2. from \in SUBSET (0..Len(s)) /\ p[t] \notin Tokens /\ after[t] = Reach(s, from, Token(p[t]))
    BY <1>1, <1>2, <1>3, <2>1
  <2>3. /\ Reach(s, from, Token(p[t])) \subseteq {j \in 0..Len(s) : \E h \in from : SpanOK(p[t], s, h, j)}
        /\ (\A i \in DOMAIN s : NotBreak(s[i])) =>
             \A h \in from, j \in 0..Len(s) : SpanOK(p[t], s, h, j) => j \in Reach(s, from, Token(p[t]))
    BY <2>2, ReachIs
  <2>. QED BY <1>1, <2>1, <2>2, <2>3
<1>. HIDE DEF Cut
<1>7. Within(n)
  <2>. DEFINE P == {t \in 0..n : Within(t)}
  <2>1. 0 \in P
    BY <1>1, <1>3, <1>4
  <2>2. ASSUME NEW k \in 0..n, k \in P, k < n PROVE k + 1 \in P
    <3>1. PICK t \in 1..n : t = k + 1 /\ t - 1 = k
      BY <2>2
    <3>2. ASSUME NEW j \in after[t] PROVE Cut(t, j)
      <4>1. j \in 0..m /\ \E h \in after[t - 1] : SpanOK(p[t], s, h, j)
        BY <1>6
      <4>2. \A h \in after[t - 1] : h \in 0..m /\ Cut(t - 1, h)
        BY <1>6, <2>2, <3>1
      <4>. QED BY <1>5, <4>1, <4>2
    <3>. QED BY <3>1, <3>2
  <2>3. 0..n \subseteq P
    <3>. HIDE DEF P
    <3>. QED BY <2>1, <2>2, UpToN
  <2>. QED BY <2>3
<1>8. ASSUME \A i \in DOMAIN s : NotBreak(s[i]) PROVE All(n)
  <2>. DEFINE P == {t \in 0..n : All(t)}
  <2>1. 0 \in P
    BY <1>1, <1>3, <1>4
  <2>2. ASSUME NEW k \in 0..n, k \in P, k < n PROVE k + 1 \in P
    <3>1. PICK t \in 1..n : t = k + 1 /\ t - 1 = k
      BY <2>2
    <3>2. ASSUME NEW j \in 0..m, Cut(t, j) PROVE j \in after[t]
      <4>1. PICK h \in 0..m : SpanOK(p[t], s, h, j) /\ Cut(t - 1, h)
        BY <1>5, <3>2
      <4>2. h \in after[t - 1]
        BY <2>2, <3>1, <4>1
      <4>. QED BY <1>6, <1>8, <4>1, <4>2
    <3>. QED BY <3>1, <3>2
  <2>3. 0..n \subseteq P
    <3>. HIDE DEF P
    <3>. QED BY <2>1, <2>2, UpToN
  <2>. QED BY <2>3
<1>9. SqlLike(s, p) <=> Cut(n, m)
  BY <1>1, <1>2, SqlLikeCuts DEF Cut
<1>. QED BY <1>3, <1>7, <1>8, <1>9 DEF found

(* A prefix and a suffix, character by character. *)
Begins(t, s) == Len(t) <= Len(s) /\ \A k \in 1..Len(t) : s[k] = t[k]
Ends(t, s)   == Len(t) <= Len(s) /\ \A k \in 1..Len(t) : s[Len(s) - Len(t) + k] = t[k]

(* IsPrefix and IsSuffix of the library compare sequences. *)
LEMMA PrefixIs ==
    ASSUME NEW C, NEW s \in Seq(C), NEW t \in Seq(C)
    PROVE  IsPrefix(t, s) <=> Begins(t, s)
<1>1. PICK n \in Nat : n = Len(t)
  BY LenProperties
<1>2. SubSeq(t, 1, n) = t
  BY <1>1, SubSeqFull
<1>3. n <= Len(s) => (SubSeq(s, 1, n) = t <=> \A k \in 1..n : s[k] = t[k])
  <2>. SUFFICES ASSUME n <= Len(s) PROVE SubSeq(s, 1, n) = t <=> \A k \in 1..n : s[k] = t[k]
    OBVIOUS
  <2>1. SubSeq(s, 0 + 1, n) = t <=> \A k \in 1..Len(t) : s[0 + k] = t[k]
    BY <1>1, OccursAt
  <2>. QED BY <1>1, <2>1
<1>4. IsPrefix(t, s) <=> n <= Len(s) /\ t = SubSeq(s, 1, n)
  BY <1>1, <1>2 DEF IsPrefix
<1>. QED BY <1>1, <1>3, <1>4 DEF Begins

(* A suffix is a prefix of the reverse. *)
LEMMA SuffixIs ==
    ASSUME NEW C, NEW s \in Seq(C), NEW t \in Seq(C)
    PROVE  IsSuffix(t, s) <=> Ends(t, s)
<1>1. PICK n \in Nat : n = Len(t)
  BY LenProperties
<1>2. PICK m \in Nat : m = Len(s)
  BY LenProperties
<1>3. PICK st : st = Reverse(s)
  OBVIOUS
<1>4. PICK tt : tt = Reverse(t)
  OBVIOUS
<1>5. st = [i \in 1..m |-> s[m - i + 1]] /\ tt = [i \in 1..n |-> t[n - i + 1]]
  BY <1>1, <1>2, <1>3, <1>4 DEF Reverse
<1>6. /\ \A i \in 1..m : s[m - i + 1] \in C
      /\ \A i \in 1..n : t[n - i + 1] \in C
  <2>1. \A i \in 1..m : m - i + 1 \in 1..m
    OBVIOUS
  <2>2. \A i \in 1..n : n - i + 1 \in 1..n
    OBVIOUS
  <2>. QED BY <1>1, <1>2, <2>1, <2>2, ElementOfSeq
<1>7. /\ st \in Seq(C) /\ tt \in Seq(C) /\ Len(st) = m /\ Len(tt) = n
      /\ \A i \in 1..m : st[i] = s[m - i + 1]
      /\ \A i \in 1..n : tt[i] = t[n - i + 1]
  <2>1. st \in Seq(C) /\ Len(st) = m
    <3>1. st \in [1..m -> C]
      BY <1>5, <1>6
    <3>. QED BY <3>1
  <2>2. tt \in Seq(C) /\ Len(tt) = n
    <3>1. tt \in [1..n -> C]
      BY <1>5, <1>6
    <3>. QED BY <3>1
  <2>3. \A i \in 1..m : st[i] = s[m - i + 1]
    BY <1>5
  <2>4. \A i \in 1..n : tt[i] = t[n - i + 1]
    BY <1>5
  <2>. QED BY <2>1, <2>2, <2>3, <2>4
<1>8. IsSuffix(t, s) <=> n <= m /\ \A k \in 1..n : st[k] = tt[k]
  <2>1. IsPrefix(tt, st) <=> Begins(tt, st)
    BY <1>7, PrefixIs
  <2>. QED BY <1>3, <1>4, <1>7, <2>1 DEF IsSuffix, Begins
<1>9. ASSUME n <= m
      PROVE  (\A k \in 1..n : st[k] = tt[k]) <=> \A k \in 1..n : s[m - n + k] = t[k]
  <2>1. ASSUME NEW k \in 1..n
        PROVE  n - k + 1 \in 1..n /\ (st[n - k + 1] = tt[n - k + 1] <=> s[m - n + k] = t[k])
    <3>1. PICK j \in 1..n : j = n - k + 1
      OBVIOUS
    <3>2. j \in 1..m /\ m - j + 1 = m - n + k /\ n - j + 1 = k
      BY <1>9, <3>1
    <3>. QED BY <1>7, <3>1, <3>2
  <2>2. ASSUME NEW j \in 1..n PROVE \E k \in 1..n : j = n - k + 1
    <3>1. n - j + 1 \in 1..n /\ j = n - (n - j + 1) + 1
      OBVIOUS
    <3>. QED BY <3>1
  <2>. QED BY <2>1, <2>2
<1>. QED BY <1>1, <1>2, <1>8, <1>9 DEF Ends

(* The part of a pattern between its percents. *)
LEMMA BodyIs ==
    ASSUME NEW C, NEW p \in Seq(C), NEW before \in 0..1, NEW behind \in 0..1, NEW len \in Nat,
           Len(p) = before + len + behind
    PROVE  /\ SubSeq(p, before + 1, before + len) \in Seq(C)
           /\ Len(SubSeq(p, before + 1, before + len)) = len
           /\ \A k \in 1..len : SubSeq(p, before + 1, before + len)[k] = p[before + k]
<1>1. before + 1 \in Int /\ before + len \in Int /\ before \in Int
  OBVIOUS
<1>2. \A i \in before + 1..before + len : p[i] \in C
  <2>1. \A i \in before + 1..before + len : i \in 1..Len(p)
    BY <1>1
  <2>. QED BY <2>1, ElementOfSeq
<1>. DEFINE b == SubSeq(p, before + 1, before + len)
<1>3. /\ b \in Seq(C)
      /\ Len(b) = IF before + 1 <= before + len THEN before + len - (before + 1) + 1 ELSE 0
      /\ \A i \in 1..before + len - (before + 1) + 1 : b[i] = p[before + 1 + i - 1]
  BY <1>1, <1>2, SubSeqProperties
<1>. HIDE DEF b
<1>4. Len(b) = len
  BY <1>1, <1>3
<1>5. ASSUME NEW k \in 1..len PROVE b[k] = p[before + k]
  <2>1. k \in 1..before + len - (before + 1) + 1 /\ before + 1 + k - 1 = before + k
    BY <1>1
  <2>. QED BY <1>3, <2>1
<1>. QED BY <1>3, <1>4, <1>5 DEF b

(* The five ways a pattern is compiled, and what the pattern is like then. *)
LEMMA PlanOf ==
    ASSUME NEW C, NEW p \in Seq(C)
    PROVE  LET n == Len(p)
               Plain(lo, hi) == \A i \in lo..hi : p[i] \notin Special
           IN  \/ /\ compile(p) = Plan("Contains", SubSeq(p, 2, n - 1))
                  /\ n > 1 /\ p[1] = "%" /\ p[n] = "%" /\ Plain(2, n - 1)
               \/ /\ compile(p) = Plan("Suffix", Tail(p))
                  /\ n > 0 /\ p[1] = "%" /\ Plain(2, n)
               \/ /\ compile(p) = Plan("Prefix", Front(p))
                  /\ n > 0 /\ p[n] = "%" /\ Plain(1, n - 1)
               \/ compile(p) = Plan("Equal", p) /\ Plain(1, n)
               \/ compile(p) = Plan("Regex", Expression(p))
<1>1. PICK n \in Nat : n = Len(p) /\ DOMAIN p = 1..n
  BY LenProperties
<1>. DEFINE Plain(lo, hi) == \A i \in lo..hi : p[i] \notin Special
<1>2. ASSUME BodyClean(p), NEW i \in 1..n, i \notin Percents(p) PROVE p[i] \notin Special
  BY <1>1, <1>2 DEF BodyClean, Percents, Special
<1>3. \A i : i \in Percents(p) <=> i \in 1..n /\ p[i] = "%"
  BY <1>1 DEF Percents
<1>4. CASE BodyClean(p) /\ Percents(p) = {1, n} /\ n > 1
  <2>1. compile(p) = Plan("Contains", SubSeq(p, 2, n - 1))
    BY <1>1, <1>4 DEF compile
  <2>2. Plain(2, n - 1)
    BY <1>2, <1>4
  <2>3. p[1] = "%" /\ p[n] = "%"
    BY <1>3, <1>4
  <2>. QED BY <1>1, <1>4, <2>1, <2>2, <2>3
<1>5. CASE ~(BodyClean(p) /\ Percents(p) = {1, n} /\ n > 1) /\ BodyClean(p) /\ Percents(p) = {1}
  <2>1. compile(p) = Plan("Suffix", Tail(p))
    BY <1>1, <1>5 DEF compile
  <2>2. Plain(2, n)
    BY <1>2, <1>5
  <2>3. p[1] = "%" /\ 1 \in 1..n
    BY <1>3, <1>5
  <2>. QED BY <1>1, <2>1, <2>2, <2>3
<1>6. CASE /\ ~(BodyClean(p) /\ Percents(p) = {1, n} /\ n > 1) /\ ~(BodyClean(p) /\ Percents(p) = {1})
           /\ BodyClean(p) /\ Percents(p) = {n}
  <2>1. compile(p) = Plan("Prefix", Front(p))
    BY <1>1, <1>6 DEF compile
  <2>2. Plain(1, n - 1)
    BY <1>2, <1>6
  <2>3. p[n] = "%" /\ n \in 1..n
    BY <1>3, <1>6
  <2>. QED BY <1>1, <2>1, <2>2, <2>3
<1>7. CASE /\ ~(BodyClean(p) /\ Percents(p) = {1, n} /\ n > 1) /\ ~(BodyClean(p) /\ Percents(p) = {1})
           /\ ~(BodyClean(p) /\ Percents(p) = {n}) /\ Plain(1, n)
  BY <1>1, <1>7 DEF compile
<1>8. CASE /\ ~(BodyClean(p) /\ Percents(p) = {1, n} /\ n > 1) /\ ~(BodyClean(p) /\ Percents(p) = {1})
           /\ ~(BodyClean(p) /\ Percents(p) = {n}) /\ ~Plain(1, n)
  BY <1>1, <1>8 DEF compile
<1>. QED BY <1>4, <1>5, <1>6, <1>7, <1>8

(* What a pattern was compiled to answers as SQL would; only an expression  *)
(* can miss a string, one with a line break.                                *)
LEMMA MatchesAreSql ==
    ASSUME NEW C, NEW s \in Seq(C), NEW p \in Seq(C), \A i \in DOMAIN p : p[i] \notin Tokens
    PROVE  /\ Matches(s, compile(p)) => SqlLike(s, p)
           /\ ~(compile(p).mode = "Regex" /\ \E i \in DOMAIN s : s[i] = Break) /\ SqlLike(s, p) =>
                Matches(s, compile(p))
<1>1. PICK n \in Nat : n = Len(p)
  BY LenProperties
<1>2. PICK m \in Nat : m = Len(s)
  BY LenProperties
<1>. DEFINE Plain(lo, hi) == \A i \in lo..hi : p[i] \notin Special
<1>3. CASE /\ compile(p) = Plan("Contains", SubSeq(p, 2, n - 1))
           /\ n > 1 /\ p[1] = "%" /\ p[n] = "%" /\ Plain(2, n - 1)
  <2>1. PICK len \in Nat : len = n - 2
    BY <1>3
  <2>2. Len(p) = 1 + len + 1 /\ 1 \in 0..1 /\ PlainBut(p, 1, 1, len)
    BY <1>1, <1>3, <2>1 DEF PlainBut
  <2>3. PICK body : body = SubSeq(p, 1 + 1, 1 + len)
    OBVIOUS
  <2>4. body \in Seq(C) /\ Len(body) = len /\ \A k \in 1..len : body[k] = p[1 + k]
    BY <2>2, <2>3, BodyIs
  <2>5. SqlLike(s, p) <=> \E i \in 0..m - len : \A k \in 1..len : s[i + k] = body[k]
    <3>1. SqlLike(s, p) <=> HasBody(s, p, 1, 1, len)
      BY <2>2, PlainBody
    <3>2. ASSUME HasBody(s, p, 1, 1, len)
          PROVE  \E i \in 0..m - len : \A k \in 1..len : s[i + k] = body[k]
      <4>1. PICK i \in 0..m : i + len <= m /\ \A k \in 1..len : s[i + k] = p[1 + k]
        BY <1>2, <3>2 DEF HasBody
      <4>2. i \in 0..m - len
        BY <4>1
      <4>. QED BY <2>4, <4>1, <4>2
    <3>3. ASSUME NEW i \in 0..m - len, \A k \in 1..len : s[i + k] = body[k]
          PROVE  HasBody(s, p, 1, 1, len)
      <4>1. PICK j \in 0..m : j = i /\ j + len <= m
        OBVIOUS
      <4>2. \A k \in 1..len : s[j + k] = p[1 + k]
        BY <2>4, <3>3, <4>1
      <4>. QED BY <1>2, <4>1, <4>2 DEF HasBody
    <3>. QED BY <3>1, <3>2, <3>3
  <2>6. ASSUME NEW i \in 0..m - len
        PROVE  SubSeq(s, i + 1, i + len) = body <=> \A k \in 1..len : s[i + k] = body[k]
    BY <1>2, <2>4, OccursAt
  <2>7. Found(s, body) <=> \E i \in 0..m - len : SubSeq(s, i + 1, i + len) = body
    BY <1>2, <2>4 DEF Found
  <2>8. Matches(s, compile(p)) <=> Found(s, body)
    <3>1. compile(p) = [mode |-> "Contains", needle |-> body]
      BY <1>3, <2>1, <2>3 DEF Plan
    <3>. QED BY <3>1 DEF Matches
  <2>. QED BY <1>3, <2>5, <2>6, <2>7, <2>8 DEF Plan
<1>4. CASE compile(p) = Plan("Suffix", Tail(p)) /\ n > 0 /\ p[1] = "%" /\ Plain(2, n)
  <2>1. PICK len \in Nat : len = n - 1
    BY <1>4
  <2>2. PlainBut(p, 1, 0, len)
    BY <1>1, <1>4, <2>1 DEF PlainBut
  <2>3. PICK body : body = Tail(p)
    OBVIOUS
  <2>4. body \in Seq(C) /\ Len(body) = len /\ \A k \in 1..len : body[k] = p[1 + k]
    BY <1>1, <1>4, <2>1, <2>3
  <2>5. SqlLike(s, p) <=> len <= m /\ \A k \in 1..len : s[m - len + k] = body[k]
    <3>1. SqlLike(s, p) <=> HasBody(s, p, 1, 0, len)
      BY <2>2, PlainBody
    <3>2. ASSUME HasBody(s, p, 1, 0, len)
          PROVE  len <= m /\ \A k \in 1..len : s[m - len + k] = body[k]
      <4>1. PICK i \in 0..m : i + len = m /\ \A k \in 1..len : s[i + k] = p[1 + k]
        BY <1>2, <3>2 DEF HasBody
      <4>2. i = m - len /\ len <= m
        BY <4>1
      <4>. QED BY <2>4, <4>1, <4>2
    <3>3. ASSUME len <= m, \A k \in 1..len : s[m - len + k] = body[k]
          PROVE  HasBody(s, p, 1, 0, len)
      <4>1. PICK i \in 0..m : i = m - len
        BY <3>3
      <4>2. i + len = m
        BY <4>1
      <4>3. ASSUME NEW k \in 1..len PROVE s[i + k] = p[1 + k]
        <5>1. s[m - len + k] = body[k] /\ body[k] = p[1 + k]
          BY <2>4, <3>3
        <5>. QED BY <4>1, <5>1
      <4>. QED BY <1>2, <4>2, <4>3 DEF HasBody
    <3>. QED BY <3>1, <3>2, <3>3
  <2>6. IsSuffix(body, s) <=> len <= m /\ \A k \in 1..len : s[m - len + k] = body[k]
    <3>1. IsSuffix(body, s) <=> Ends(body, s)
      BY <2>4, SuffixIs
    <3>. QED BY <1>2, <2>4, <3>1 DEF Ends
  <2>7. Matches(s, compile(p)) <=> IsSuffix(body, s)
    <3>1. compile(p) = [mode |-> "Suffix", needle |-> body]
      BY <1>4, <2>3 DEF Plan
    <3>. QED BY <3>1 DEF Matches
  <2>. QED BY <1>4, <2>5, <2>6, <2>7 DEF Plan
<1>5. CASE compile(p) = Plan("Prefix", Front(p)) /\ n > 0 /\ p[n] = "%" /\ Plain(1, n - 1)
  <2>1. PICK len \in Nat : len = n - 1
    BY <1>5
  <2>2. Len(p) = 0 + len + 1 /\ 1 \in 0..1 /\ 0 \in 0..1 /\ PlainBut(p, 0, 1, len)
    BY <1>1, <1>5, <2>1 DEF PlainBut
  <2>3. PICK body : body = SubSeq(p, 0 + 1, 0 + len)
    OBVIOUS
  <2>4. body \in Seq(C) /\ Len(body) = len /\ \A k \in 1..len : body[k] = p[0 + k]
    BY <2>2, <2>3, BodyIs
  <2>5. SqlLike(s, p) <=> len <= m /\ \A k \in 1..len : s[k] = body[k]
    <3>1. SqlLike(s, p) <=> HasBody(s, p, 0, 1, len)
      BY <2>2, PlainBody
    <3>. QED BY <1>2, <2>4, <3>1 DEF HasBody
  <2>6. IsPrefix(body, s) <=> len <= m /\ \A k \in 1..len : s[k] = body[k]
    BY <1>2, <2>4, PrefixIs DEF Begins
  <2>7. Matches(s, compile(p)) <=> IsPrefix(body, s)
    <3>1. compile(p) = [mode |-> "Prefix", needle |-> body]
      BY <1>1, <1>5, <2>1, <2>3 DEF Plan, Front
    <3>. QED BY <3>1 DEF Matches
  <2>. QED BY <1>5, <2>5, <2>6, <2>7 DEF Plan
<1>6. CASE compile(p) = Plan("Equal", p) /\ Plain(1, n)
  <2>1. PlainBut(p, 0, 0, n)
    BY <1>1, <1>6 DEF PlainBut
  <2>2. SqlLike(s, p) <=> m = n /\ \A k \in 1..n : s[k] = p[k]
    <3>1. SqlLike(s, p) <=> HasBody(s, p, 0, 0, n)
      BY <2>1, PlainBody
    <3>2. \A k \in 1..n : 0 + k = k
      OBVIOUS
    <3>3. ASSUME HasBody(s, p, 0, 0, n) PROVE m = n /\ \A k \in 1..n : s[k] = p[k]
      <4>1. m = n /\ \A k \in 1..n : s[0 + k] = p[0 + k]
        BY <1>2, <3>3 DEF HasBody
      <4>. QED BY <3>2, <4>1
    <3>4. ASSUME m = n, \A k \in 1..n : s[k] = p[k] PROVE HasBody(s, p, 0, 0, n)
      <4>1. \A k \in 1..n : s[0 + k] = p[0 + k]
        BY <3>2, <3>4
      <4>2. 0 \in 0..Len(s) /\ 0 + n = Len(s) /\ 0 + n <= Len(s)
        BY <1>2, <3>4
      <4>. QED BY <4>1, <4>2 DEF HasBody
    <3>. QED BY <3>1, <3>3, <3>4
  <2>3. s = p <=> m = n /\ \A k \in 1..n : s[k] = p[k]
    BY <1>1, <1>2, SeqEqual
  <2>4. Matches(s, compile(p)) <=> s = p
    <3>1. compile(p) = [mode |-> "Equal", needle |-> p]
      BY <1>6 DEF Plan
    <3>. QED BY <3>1 DEF Matches
  <2>. QED BY <2>2, <2>3, <2>4
<1>7. CASE compile(p) = Plan("Regex", Expression(p))
  <2>1. compile(p) = [mode |-> "Regex", needle |-> Expression(p)]
    BY <1>7 DEF Plan
  <2>2. compile(p).mode = "Regex" /\ (Matches(s, compile(p)) <=> RegexSearch(s, Expression(p)))
    BY <2>1 DEF Matches
  <2>3. (\A i \in DOMAIN s : NotBreak(s[i])) <=> ~\E i \in DOMAIN s : s[i] = Break
    BY DEF NotBreak
  <2>4. /\ RegexSearch(s, Expression(p)) => SqlLike(s, p)
        /\ (\A i \in DOMAIN s : NotBreak(s[i])) /\ SqlLike(s, p) => RegexSearch(s, Expression(p))
    BY RegexIsSql
  <2>. QED BY <2>2, <2>3, <2>4
<1>8. \/ /\ compile(p) = Plan("Contains", SubSeq(p, 2, n - 1))
         /\ n > 1 /\ p[1] = "%" /\ p[n] = "%" /\ Plain(2, n - 1)
      \/ compile(p) = Plan("Suffix", Tail(p)) /\ n > 0 /\ p[1] = "%" /\ Plain(2, n)
      \/ compile(p) = Plan("Prefix", Front(p)) /\ n > 0 /\ p[n] = "%" /\ Plain(1, n - 1)
      \/ compile(p) = Plan("Equal", p) /\ Plain(1, n)
      \/ compile(p) = Plan("Regex", Expression(p))
  BY <1>1, PlanOf
<1>. HIDE DEF Plain
<1>. QED BY <1>3, <1>4, <1>5, <1>6, <1>7, <1>8

-----------------------------------------------------------------------------
(* The functions of rows.  What was evaluated is a call of one of them, or  *)
(* two: what was written and then read, or two points.                      *)
IsCall(c) ==
    \/ \E p \in Patterns, s \in Subjects : c = Call("like", <<p, s>>, Matches(s, compile(p)))
    \/ \E n \in Numbers : c = Call("format", n, format(n))
    \/ \E t \in DecimalTexts : c = Call("parse", t, parse(t))
    \/ \E a, b \in Numbers : c = Call("mul", <<a, b>>, Mul(a, b))
    \/ \E x, y \in Coordinates : c = Call("z", <<x, y>>, Cell(x, y))
    \/ \E o \in Objects, k \in Keys : c = Call("json", <<o, k>>, json_extract_raw(ObjectText(o), k))
    \/ \E a \in Arrays, v \in Elements :
         \/ c = Call("length", <<a, v>>, array_length(ArrayText(a)))
         \/ c = Call("contains", <<a, v>>, array_contains_int(ArrayText(a), v))

ReadAgain(c, d) == c.f = "format" /\ d = Call("parse", c.out, parse(c.out))
TwoPoints(c, d) == c.f = "z" /\ d.f = "z" /\ IsCall(d)

CallsInv ==
    \/ calls = <<>>
    \/ \E c : IsCall(c) /\ calls = <<c>>
    \/ \E c, d : IsCall(c) /\ (ReadAgain(c, d) \/ TwoPoints(c, d)) /\ calls = <<c, d>>

(* Every step adds a call, and keeps to these. *)
LEMMA CallsInductive ==
    /\ NoCalls => CallsInv
    /\ CallsInv /\ [EvalRow]_calls => CallsInv'
<1>1. NoCalls => CallsInv
  BY DEF NoCalls, CallsInv
<1>2. ASSUME CallsInv, EvalRow PROVE CallsInv'
  <2>1. \A f, in, out : Evaluate(f, in, out) /\ calls = <<>> => calls' = <<Call(f, in, out)>>
    BY DEF Evaluate
  <2>2. ASSUME NEW f, NEW in, NEW out, NEW c, Evaluate(f, in, out), calls = <<c>>
        PROVE  calls' = <<c, Call(f, in, out)>>
    <3>1. PICK d : d = Call(f, in, out)
      OBVIOUS
    <3>2. calls' = Append(<<c>>, d)
      BY <2>2, <3>1 DEF Evaluate
    <3>3. Append(<<c>>, d) = <<c, d>>
      <4>1. <<c>> \in Seq({c, d}) /\ Len(<<c>>) = 1 /\ <<c>>[1] = c
        OBVIOUS
      <4>2. /\ Append(<<c>>, d) \in Seq({c, d}) /\ Len(Append(<<c>>, d)) = 2
            /\ Append(<<c>>, d)[1] = c /\ Append(<<c>>, d)[2] = d
        BY <4>1, AppendProperties
      <4>3. /\ <<c, d>> \in Seq({c, d}) /\ Len(<<c, d>>) = 2 /\ <<c, d>>[1] = c /\ <<c, d>>[2] = d
        OBVIOUS
      <4>4. PICK u : u = Append(<<c>>, d)
        OBVIOUS
      <4>5. PICK v : v = <<c, d>>
        OBVIOUS
      <4>6. u \in Seq({c, d}) /\ v \in Seq({c, d}) /\ Len(u) = Len(v) /\ \A i \in 1..Len(u) : u[i] = v[i]
        BY <4>2, <4>3, <4>4, <4>5
      <4>7. u = v
        BY <4>6, SeqEqual
      <4>. QED BY <4>4, <4>5, <4>7
    <3>. QED BY <3>1, <3>2, <3>3
  <2>3. ASSUME NEW c, IsCall(c), calls' = <<c>> PROVE CallsInv'
    BY <2>3 DEF CallsInv
  <2>4. ASSUME NEW f, Before(f) PROVE \E c : IsCall(c) /\ calls = <<c>> /\ c.f = f
    <3>1. calls # <<>>
      BY <2>4 DEF Before
    <3>2. \A c, d : calls # <<c, d>>
      BY <2>4 DEF Before
    <3>. QED BY <1>2, <2>4, <3>1, <3>2 DEF CallsInv, Before
  <2>5. CASE EvalLike
    BY <2>1, <2>3, <2>5 DEF EvalLike, IsCall
  <2>6. CASE EvalFormat
    BY <2>1, <2>3, <2>6 DEF EvalFormat, IsCall
  <2>7. CASE EvalParse
    <3>1. CASE calls = <<>> /\ \E t \in DecimalTexts : Evaluate("parse", t, parse(t))
      BY <2>1, <2>3, <3>1 DEF IsCall
    <3>2. CASE Before("format") /\ Evaluate("parse", calls[1].out, parse(calls[1].out))
      <4>1. PICK c : IsCall(c) /\ calls = <<c>> /\ c.f = "format"
        BY <2>4, <3>2
      <4>2. calls[1] = c
        BY <4>1
      <4>3. calls' = <<c, Call("parse", c.out, parse(c.out))>>
        BY <2>2, <3>2, <4>1, <4>2
      <4>. QED BY <4>1, <4>3 DEF CallsInv, ReadAgain
    <3>. QED BY <2>7, <3>1, <3>2 DEF EvalParse
  <2>8. CASE EvalMul
    BY <2>1, <2>3, <2>8 DEF EvalMul, IsCall
  <2>9. CASE EvalZOrder
    <3>1. PICK x \in Coordinates, y \in Coordinates : Evaluate("z", <<x, y>>, Cell(x, y))
      BY <2>9 DEF EvalZOrder
    <3>2. PICK d : d = Call("z", <<x, y>>, Cell(x, y))
      OBVIOUS
    <3>3. IsCall(d) /\ d.f = "z"
      BY <3>2 DEF IsCall, Call
    <3>4. CASE calls = <<>>
      BY <2>1, <2>3, <3>1, <3>2, <3>3, <3>4
    <3>5. CASE Before("z")
      <4>1. PICK c : IsCall(c) /\ calls = <<c>> /\ c.f = "z"
        BY <2>4, <3>5
      <4>2. calls' = <<c, d>>
        BY <2>2, <3>1, <3>2, <4>1
      <4>. QED BY <3>3, <4>1, <4>2 DEF CallsInv, TwoPoints
    <3>. QED BY <2>9, <3>4, <3>5 DEF EvalZOrder
  <2>10. CASE EvalJson
    BY <2>1, <2>3, <2>10 DEF EvalJson, IsCall
  <2>11. CASE EvalArray
    BY <2>1, <2>3, <2>11 DEF EvalArray, IsCall
  <2>. QED BY <1>2, <2>5, <2>6, <2>7, <2>8, <2>9, <2>10, <2>11 DEF EvalRow
<1>3. CallsInv /\ UNCHANGED calls => CallsInv'
  BY DEF CallsInv
<1>. QED BY <1>1, <1>2, <1>3

(* So it is in every run. *)
LEMMA CallsAlways == RowSpec => []CallsInv
<1>. QED BY CallsInductive, PTL DEF RowSpec

(* What was evaluated is one of the calls. *)
LEMMA EvaluatedIs ==
    ASSUME CallsInv, NEW f, NEW c \in Evaluated(f)
    PROVE  c.f = f /\ (IsCall(c) \/ \E b : IsCall(b) /\ ReadAgain(b, c) /\ calls = <<b, c>>)
<1>1. PICK i \in DOMAIN calls : c = calls[i] /\ c.f = f
  BY DEF Evaluated
<1>2. CASE calls = <<>>
  BY <1>1, <1>2
<1>3. ASSUME NEW a, IsCall(a), calls = <<a>> PROVE c = a
  BY <1>1, <1>3
<1>4. ASSUME NEW a, NEW b, calls = <<a, b>> PROVE c = a \/ c = b
  BY <1>1, <1>4
<1>. QED BY <1>1, <1>2, <1>3, <1>4 DEF CallsInv, TwoPoints

(* A call of LIKE is of a pattern and a string. *)
LEMMA LikeHolds == CallsInv => LikeIsSql
<1>. SUFFICES ASSUME CallsInv, NEW c \in Evaluated("like")
     PROVE  LET p == c.in[1]
                s == c.in[2]
                misses == compile(p).mode = "Regex" /\ \E i \in DOMAIN s : s[i] = Break
            IN  /\ c.out => SqlLike(s, p)
                /\ ~misses /\ SqlLike(s, p) => c.out
  BY DEF LikeIsSql
<1>1. c.f = "like" /\ (IsCall(c) \/ \E b : ReadAgain(b, c))
  BY EvaluatedIs
<1>2. PICK p \in Patterns, s \in Subjects : c = Call("like", <<p, s>>, Matches(s, compile(p)))
  BY <1>1 DEF IsCall, ReadAgain, Call
<1>3. c.in[1] = p /\ c.in[2] = s /\ c.out = Matches(s, compile(p))
  BY <1>2 DEF Call
<1>4. p \in Seq(Range(p) \cup Range(s)) /\ s \in Seq(Range(p) \cup Range(s))
  BY CharactersAssumption, SeqMonotonic
<1>5. \A i \in DOMAIN p : p[i] \notin Tokens
  BY CharactersAssumption DEF Tokens, Range
<1>6. /\ Matches(s, compile(p)) => SqlLike(s, p)
      /\ ~(compile(p).mode = "Regex" /\ \E i \in DOMAIN s : s[i] = Break) /\ SqlLike(s, p) =>
           Matches(s, compile(p))
  BY <1>4, <1>5, MatchesAreSql
<1>. QED BY <1>3, <1>6

(* LIKE answers what SQL says for patterns and strings of any characters    *)
(* and any length, by whichever of the five ways compile chose, but that an *)
(* expression misses strings with a line break (LikeExpr::compile, eval).   *)
THEOREM LikeAnswersSql == RowSpec => []LikeIsSql
<1>. QED BY CallsAlways, LikeHolds, PTL

-----------------------------------------------------------------------------
-----------------------------------------------------------------------------
(* Induction over sequences, as one over a set of them. *)
LEMMA SequencesByAppending ==
    ASSUME NEW S, NEW P, <<>> \in P, \A s \in Seq(S), x \in S : s \in P => Append(s, x) \in P
    PROVE  Seq(S) \subseteq P
<1>. SUFFICES ASSUME NEW t \in Seq(S) PROVE t \in P
  OBVIOUS
<1>1. PICK n \in Nat : n = Len(t)
  BY LenProperties
<1>. DEFINE Q == {k \in 0..n : \A s \in Seq(S) : Len(s) = k => s \in P}
<1>2. 0 \in Q
  BY EmptySeq
<1>3. ASSUME NEW k \in 0..n, k \in Q, k < n PROVE k + 1 \in Q
  <2>6. k + 1 \in 0..n
    BY <1>3
  <2>. SUFFICES ASSUME NEW s \in Seq(S), Len(s) = k + 1 PROVE s \in P
    BY <2>6
  <2>1. s # <<>>
    BY EmptySeq
  <2>2. PICK f \in Seq(S), x \in S : s = Append(f, x)
    BY <2>1, SequenceEmptyOrAppend
  <2>3. Len(f) \in Nat /\ Len(s) = Len(f) + 1
    BY <2>2, AppendProperties, LenProperties
  <2>4. Len(f) = k
    BY <2>3
  <2>5. f \in P
    BY <1>3, <2>4
  <2>. QED BY <2>2, <2>5
<1>4. 0..n \subseteq Q
  <2>. HIDE DEF Q
  <2>. QED BY <1>2, <1>3, UpToN
<1>5. n \in Q
  <2>. HIDE DEF Q
  <2>. QED BY <1>4
<1>. QED BY <1>1, <1>5

-----------------------------------------------------------------------------
(* Powers: the steps of the fold that one is. *)
LEMMA PowerUnfolds ==
    ASSUME NEW b \in Int, NEW n \in Nat
    PROVE  \E p \in [0..n -> Int] :
             p[n] = Power(b, n) /\ p[0] = 1 /\ \A k \in 1..n : p[k] = b * p[k - 1]
<1>. DEFINE Unfolds(f) == f = [k \in 0..n |-> IF k = 0 THEN 1 ELSE b * f[k - 1]]
<1>1. PICK g \in [0..n -> Int] : g[0] = 1 /\ \A k \in 1..n : g[k] = b * g[k - 1]
  <2>. DEFINE F == [k \in 1..n |-> [x \in Int |-> b * x]]
  <2>1. F \in [1..n -> [Int -> Int]] /\ 1 \in Int
    OBVIOUS
  <2>2. \A k \in 1..n : \A x \in Int : F[k][x] = b * x
    OBVIOUS
  <2>. HIDE DEF F
  <2>3. PICK g \in [0..n -> Int] : Rounds(g, n, 1, F)
    BY <2>1, RoundsExist
  <2>4. \A k \in 1..n : k - 1 \in 0..n /\ g[k - 1] \in Int
    OBVIOUS
  <2>. QED BY <2>2, <2>3, <2>4 DEF Rounds
<1>2. Unfolds(g)
  BY <1>1
<1>3. PICK f : f = (CHOOSE x : Unfolds(x)) /\ Power(b, n) = f[n]
  BY DEF Power
<1>4. Unfolds(f)
  <2>. HIDE DEF Unfolds
  <2>. QED BY <1>2, <1>3
<1>5. f[0] = 1 /\ \A k \in 1..n : f[k] = b * f[k - 1]
  BY <1>4
<1>6. f \in [0..n -> Int]
  <2>1. DOMAIN f = 0..n /\ f = [k \in 0..n |-> f[k]]
    BY <1>4
  <2>2. \A k \in 1..n : f[k - 1] \in Int => f[k] \in Int
    BY <1>5
  <2>4. f[0] \in Int
    BY <1>5
  <2>3. \A k \in 0..n : f[k] \in Int
    BY <2>2, <2>4, EveryRound
  <2>. QED BY <2>1, <2>3
<1>. QED BY <1>3, <1>5, <1>6

(* A power is the one before it, once more multiplied. *)
LEMMA PowerSteps ==
    ASSUME NEW b \in Int, NEW n \in Nat
    PROVE  Power(b, n) \in Int /\ Power(b, 0) = 1 /\ Power(b, n + 1) = b * Power(b, n)
<1>1. PICK p \in [0..n -> Int] : p[n] = Power(b, n) /\ p[0] = 1 /\ \A k \in 1..n : p[k] = b * p[k - 1]
  BY PowerUnfolds
<1>2. PICK z \in [0..0 -> Int] : z[0] = Power(b, 0) /\ z[0] = 1
  BY PowerUnfolds
<1>3. PICK q \in [0..n + 1 -> Int] : /\ q[n + 1] = Power(b, n + 1) /\ q[0] = 1
                                     /\ \A k \in 1..n + 1 : q[k] = b * q[k - 1]
  BY PowerUnfolds, n + 1 \in Nat
<1>. DEFINE P == {k \in 0..n : p[k] = q[k]}
<1>4. 0 \in P
  BY <1>1, <1>3
<1>5. ASSUME NEW k \in 0..n, k \in P, k < n PROVE k + 1 \in P
  <2>1. k + 1 \in 1..n /\ k + 1 \in 1..n + 1 /\ (k + 1) - 1 = k
    BY <1>5
  <2>2. p[k + 1] = b * p[k] /\ q[k + 1] = b * q[k]
    BY <1>1, <1>3, <2>1
  <2>. QED BY <1>5, <2>1, <2>2
<1>6. n \in P
  <2>1. 0..n \subseteq P
    <3>. HIDE DEF P
    <3>. QED BY <1>4, <1>5, UpToN
  <2>. QED BY <2>1
<1>7. p[n] = q[n]
  BY <1>6
<1>8. q[n + 1] = b * q[n]
  <2>1. n + 1 \in 1..n + 1 /\ (n + 1) - 1 = n
    OBVIOUS
  <2>. QED BY <1>3, <2>1
<1>. QED BY <1>1, <1>2, <1>3, <1>7, <1>8

(* Powers of a positive number are positive, *)
LEMMA PowerPositive ==
    ASSUME NEW b \in Nat \ {0}, NEW n \in Nat
    PROVE  Power(b, n) \in Nat \ {0}
<1>1. PICK p \in [0..n -> Int] : p[n] = Power(b, n) /\ p[0] = 1 /\ \A k \in 1..n : p[k] = b * p[k - 1]
  BY PowerUnfolds, b \in Int
<1>2. \A x \in Nat \ {0} : b * x \in Nat \ {0}
  OBVIOUS
<1>3. \A k \in 1..n : p[k - 1] \in Nat \ {0} => p[k] \in Nat \ {0}
  BY <1>1, <1>2
<1>4. p[0] \in Nat \ {0}
  BY <1>1
<1>5. \A k \in 0..n : p[k] \in Nat \ {0}
  BY <1>3, <1>4, EveryRound
<1>6. p[n] \in Nat \ {0}
  BY <1>5
<1>. QED BY <1>1, <1>6

(* (products are reordered by this) *)
LEMMA Associates ==
    ASSUME NEW a \in Int, NEW b \in Int, NEW c \in Int
    PROVE  a * b \in Int /\ a * (b * c) = b * (a * c) /\ a * b = b * a /\ (a * b) * c = a * (b * c)
OBVIOUS

(* the exponents of a product of powers add up, *)
LEMMA PowerAdds ==
    ASSUME NEW b \in Int, NEW m \in Nat, NEW n \in Nat
    PROVE  Power(b, m + n) = Power(b, m) * Power(b, n)
<1>. DEFINE P == {k \in 0..n : Power(b, m + k) = Power(b, m) * Power(b, k)}
<1>1. 0 \in P
  <2>1. PICK x \in Int : x = Power(b, m)
    BY PowerSteps
  <2>2. Power(b, 0) = 1 /\ m + 0 = m
    BY PowerSteps
  <2>. QED BY <2>1, <2>2
<1>2. ASSUME NEW k \in 0..n, k \in P, k < n PROVE k + 1 \in P
  <2>1. PICK x \in Int, y \in Int : x = Power(b, m) /\ y = Power(b, k)
    BY PowerSteps, k \in Nat
  <2>2. Power(b, k + 1) = b * y
    BY <2>1, PowerSteps, k \in Nat
  <2>3. Power(b, (m + k) + 1) = b * Power(b, m + k)
    BY PowerSteps, m + k \in Nat
  <2>4. Power(b, m + k) = x * y
    BY <1>2, <2>1
  <2>5. m + (k + 1) = (m + k) + 1
    OBVIOUS
  <2>6. Power(b, m + (k + 1)) = b * (x * y)
    BY <2>3, <2>4, <2>5
  <2>7. b * (x * y) = x * (b * y)
    BY Associates
  <2>. QED BY <1>2, <2>1, <2>2, <2>6, <2>7
<1>3. 0..n \subseteq P
  <2>. HIDE DEF P
  <2>. QED BY <1>1, <1>2, UpToN
<1>4. n \in P
  <2>. HIDE DEF P
  <2>. QED BY <1>3
<1>. QED BY <1>4

(* and a higher exponent makes no smaller power. *)
LEMMA PowerGrows ==
    ASSUME NEW b \in Nat \ {0}, NEW m \in Nat, NEW n \in Nat, m <= n
    PROVE  Power(b, m) <= Power(b, n)
<1>1. PICK k \in Nat : k = n - m /\ n = m + k
  <2>1. n - m \in Nat /\ n = m + (n - m)
    OBVIOUS
  <2>. QED BY <2>1
<1>2. PICK x \in Nat \ {0}, y \in Nat \ {0} : x = Power(b, m) /\ y = Power(b, k)
  BY PowerPositive
<1>3. Power(b, n) = x * y
  BY <1>1, <1>2, PowerAdds
<1>4. x <= x * y
  <2>1. PICK z \in Nat : y = z + 1
    <3>1. y - 1 \in Nat /\ y = (y - 1) + 1
      OBVIOUS
    <3>. QED BY <3>1
  <2>2. x * (z + 1) = x * z + x /\ x * z \in Nat
    OBVIOUS
  <2>. QED BY <2>1, <2>2
<1>. QED BY <1>2, <1>3, <1>4

-----------------------------------------------------------------------------
(* The base, the power of the scale and the width are what DecimalsAssumption says. *)
LEMMA Bases ==
    /\ Base \in Nat \ {0} /\ Base >= 2 /\ Scale \in Nat /\ Pow \in Nat \ {0}
    /\ Greatest(DecimalBits) \in Nat /\ Least(DecimalBits) = -Greatest(DecimalBits) - 1
    /\ Power(2, DecimalBits) = 2 * (Greatest(DecimalBits) + 1) /\ Pow <= Greatest(DecimalBits)
<1>1. Base \in Nat \ {0} /\ Base >= 2 /\ Scale \in Nat /\ DecimalBits \in Nat \ {0} /\ Pow <= Greatest(DecimalBits)
  BY DecimalsAssumption
<1>2. Pow \in Nat \ {0}
  BY <1>1, PowerPositive DEF Pow
<1>3. PICK b \in Nat : b = DecimalBits - 1 /\ DecimalBits = b + 1
  <2>1. DecimalBits - 1 \in Nat /\ DecimalBits = (DecimalBits - 1) + 1
    BY <1>1
  <2>. QED BY <2>1
<1>4. PICK p \in Nat \ {0} : p = Power(2, b)
  BY PowerPositive, 2 \in Nat \ {0}
<1>5. Power(2, DecimalBits) = 2 * p
  BY <1>3, <1>4, PowerSteps, 2 \in Int
<1>6. Greatest(DecimalBits) = p - 1 /\ Least(DecimalBits) = -p
  BY <1>3, <1>4 DEF Greatest, Least
<1>. QED BY <1>1, <1>2, <1>5, <1>6

(* Wrap leaves what fits alone, and gives nothing else.                     *)
LEMMA WrapFits ==
    ASSUME NEW x \in Int
    PROVE  /\ Least(DecimalBits) <= x /\ x <= Greatest(DecimalBits) => Wrap(x) = x
           /\ Wrap(x) \in Numbers /\ Wrap(x) \in Int
<1>1. PICK g \in Nat, p \in Nat \ {0} : /\ g = Greatest(DecimalBits) /\ Least(DecimalBits) = -g - 1
                                       /\ p = Power(2, DecimalBits) /\ p = 2 * (g + 1)
  <2>1. 2 * (Greatest(DecimalBits) + 1) \in Nat \ {0}
    BY Bases
  <2>. QED BY <2>1, Bases
<1>2. Wrap(x) = ((x + g + 1) % p) + (-g - 1)
  <2>1. x - (-g - 1) = x + g + 1
    OBVIOUS
  <2>. QED BY <1>1, <2>1 DEF Wrap, Wrapped
<1>3. (x + g + 1) % p \in 0..p - 1
  BY <1>1
<1>4. ASSUME -g - 1 <= x, x <= g PROVE (x + g + 1) % p = x + g + 1
  <2>1. x + g + 1 \in 0..p - 1
    BY <1>1, <1>4
  <2>2. PICK r \in 0..p - 1 : r = x + g + 1
    BY <2>1
  <2>3. (0 * p + r) % p = r /\ 0 * p + r = r
    BY DivMod
  <2>. QED BY <2>2, <2>3
<1>5. Least(DecimalBits) <= x /\ x <= Greatest(DecimalBits) => Wrap(x) = x
  BY <1>1, <1>2, <1>4
<1>6. Wrap(x) \in -g - 1..g
  <2>1. PICK r \in 0..p - 1 : r = (x + g + 1) % p
    BY <1>3
  <2>2. Wrap(x) = r + (-g - 1)
    BY <1>2, <2>1
  <2>. QED BY <1>1, <2>2
<1>7. Wrap(x) \in Numbers
  BY <1>1, <1>6 DEF Numbers
<1>. QED BY <1>5, <1>6, <1>7

(* The steps of the fold over the digits, without wrapping around:          *)
LEMMA ExactlyUnfolds ==
    ASSUME NEW d \in Seq(Int)
    PROVE  \E f \in [0..Len(d) -> Int] :
             f[Len(d)] = Exactly(d) /\ f[0] = 0 /\ \A k \in 1..Len(d) : f[k] = f[k - 1] * Base + d[k]
<1>. DEFINE Unfolds(n) == n = [k \in 0..Len(d) |-> IF k = 0 THEN 0 ELSE n[k - 1] * Base + d[k]]
<1>0. /\ Len(d) \in Nat /\ Base \in Int
      /\ \A k \in 1..Len(d) : d[k] \in Int
      /\ \A k \in 1..Len(d), x \in Int : x * Base + d[k] \in Int
  <2>1. Len(d) \in Nat /\ Base \in Int /\ \A k \in 1..Len(d) : d[k] \in Int
    BY Bases, LenProperties, ElementOfSeq
  <2>2. \A k \in 1..Len(d), x \in Int : x * Base + d[k] \in Int
    BY <2>1
  <2>. QED BY <2>1, <2>2
<1>1. PICK g \in [0..Len(d) -> Int] : g[0] = 0 /\ \A k \in 1..Len(d) : g[k] = g[k - 1] * Base + d[k]
  <2>. DEFINE F == [k \in 1..Len(d) |-> [x \in Int |-> x * Base + d[k]]]
  <2>0. 0 \in Int
    OBVIOUS
  <2>1. F \in [1..Len(d) -> [Int -> Int]]
    BY <1>0, Zenon
  <2>2. \A k \in 1..Len(d) : \A x \in Int : F[k][x] = x * Base + d[k]
    OBVIOUS
  <2>. HIDE DEF F
  <2>3. PICK g \in [0..Len(d) -> Int] : Rounds(g, Len(d), 0, F)
    BY <1>0, <2>0, <2>1, RoundsExist
  <2>4. \A k \in 1..Len(d) : k - 1 \in 0..Len(d) /\ g[k - 1] \in Int
    BY <1>0
  <2>. QED BY <2>2, <2>3, <2>4 DEF Rounds
<1>2. Unfolds(g)
  BY <1>1
<1>3. PICK f : f = (CHOOSE n : Unfolds(n)) /\ Exactly(d) = f[Len(d)]
  BY DEF Exactly
<1>4. Unfolds(f)
  <2>. HIDE DEF Unfolds
  <2>. QED BY <1>2, <1>3
<1>5. f[0] = 0 /\ \A k \in 1..Len(d) : f[k] = f[k - 1] * Base + d[k]
  <2>1. 0 \in 0..Len(d) /\ \A k \in 1..Len(d) : k \in 0..Len(d) /\ k # 0
    BY <1>0
  <2>2. \A k \in 0..Len(d) : f[k] = IF k = 0 THEN 0 ELSE f[k - 1] * Base + d[k]
    BY <1>4, Zenon
  <2>. QED BY <2>1, <2>2
<1>6. f \in [0..Len(d) -> Int]
  <2>1. DOMAIN f = 0..Len(d) /\ f = [k \in 0..Len(d) |-> f[k]]
    BY <1>4
  <2>2. \A k \in 1..Len(d) : f[k - 1] \in Int => f[k] \in Int
    BY <1>0, <1>5
  <2>3. f[0] \in Int
    BY <1>5
  <2>4. \A k \in 0..Len(d) : f[k] \in Int
    BY <1>0, <2>2, <2>3, EveryRound
  <2>. QED BY <2>1, <2>4
<1>. QED BY <1>3, <1>5, <1>6

(* no digits make zero,                                                     *)
LEMMA ExactlyEmpty == Exactly(<<>>) = 0
<1>1. <<>> \in Seq(Int) /\ Len(<<>>) = 0
  BY EmptySeq
<1>2. PICK f \in [0..Len(<<>>) -> Int] : f[Len(<<>>)] = Exactly(<<>>) /\ f[0] = 0
  BY <1>1, ExactlyUnfolds
<1>. QED BY <1>1, <1>2

(* and a further digit shifts the others by one place.                      *)
LEMMA ExactlyAppend ==
    ASSUME NEW d \in Seq(Int), NEW x \in Int
    PROVE  Exactly(d) \in Int /\ Exactly(Append(d, x)) = Exactly(d) * Base + x
<1>1. PICK n \in Nat : n = Len(d)
  BY LenProperties
<1>2. PICK p \in [0..n -> Int] : p[n] = Exactly(d) /\ p[0] = 0 /\ \A k \in 1..n : p[k] = p[k - 1] * Base + d[k]
  BY <1>1, ExactlyUnfolds
<1>3. PICK e \in Seq(Int) : e = Append(d, x) /\ Len(e) = n + 1 /\ e[n + 1] = x /\ \A k \in 1..n : e[k] = d[k]
  BY <1>1, AppendProperties
<1>4. PICK q \in [0..n + 1 -> Int] :
        q[n + 1] = Exactly(e) /\ q[0] = 0 /\ \A k \in 1..n + 1 : q[k] = q[k - 1] * Base + e[k]
  <2>1. \E q \in [0..Len(e) -> Int] :
          q[Len(e)] = Exactly(e) /\ q[0] = 0 /\ \A k \in 1..Len(e) : q[k] = q[k - 1] * Base + e[k]
    BY ExactlyUnfolds
  <2>2. Len(e) = n + 1
    BY <1>3
  <2>. QED BY <2>1, <2>2
<1>. DEFINE P == {k \in 0..n : p[k] = q[k]}
<1>5. 0 \in P
  BY <1>2, <1>4
<1>6. ASSUME NEW k \in 0..n, k \in P, k < n PROVE k + 1 \in P
  <2>1. k + 1 \in 1..n /\ k + 1 \in 1..n + 1 /\ (k + 1) - 1 = k /\ k + 1 \in 0..n
    BY <1>6
  <2>2. p[k + 1] = p[k] * Base + d[k + 1] /\ q[k + 1] = q[k] * Base + e[k + 1]
    BY <1>2, <1>4, <2>1
  <2>3. p[k] = q[k] /\ e[k + 1] = d[k + 1]
    BY <1>3, <1>6, <2>1
  <2>. QED BY <2>1, <2>2, <2>3
<1>7. p[n] = q[n]
  <2>1. 0..n \subseteq P
    <3>. HIDE DEF P
    <3>. QED BY <1>5, <1>6, UpToN
  <2>. QED BY <2>1
<1>8. q[n + 1] = q[n] * Base + x
  <2>1. n + 1 \in 1..n + 1 /\ (n + 1) - 1 = n
    OBVIOUS
  <2>. QED BY <1>3, <1>4, <2>1
<1>9. p[n] \in Int
  OBVIOUS
<1>. QED BY <1>2, <1>3, <1>4, <1>7, <1>8, <1>9

(* The same fold as the code runs it, each step wrapping around.            *)
LEMMA ToNumberUnfolds ==
    ASSUME NEW d \in Seq(Int)
    PROVE  \E f \in [0..Len(d) -> Int] :
             f[Len(d)] = ToNumber(d) /\ f[0] = 0 /\ \A k \in 1..Len(d) : f[k] = Wrap(f[k - 1] * Base + d[k])
<1>. DEFINE Unfolds(n) == n = [k \in 0..Len(d) |-> IF k = 0 THEN 0 ELSE Wrap(n[k - 1] * Base + d[k])]
<1>0. /\ Len(d) \in Nat /\ Base \in Int
      /\ \A k \in 1..Len(d) : d[k] \in Int
      /\ \A k \in 1..Len(d), x \in Int : Wrap(x * Base + d[k]) \in Int
  <2>1. Len(d) \in Nat /\ Base \in Int /\ \A k \in 1..Len(d) : d[k] \in Int
    BY Bases, LenProperties, ElementOfSeq
  <2>2. \A k \in 1..Len(d), x \in Int : x * Base + d[k] \in Int
    BY <2>1
  <2>. QED BY <2>1, <2>2, WrapFits
<1>1. PICK g \in [0..Len(d) -> Int] : g[0] = 0 /\ \A k \in 1..Len(d) : g[k] = Wrap(g[k - 1] * Base + d[k])
  <2>. DEFINE F == [k \in 1..Len(d) |-> [x \in Int |-> Wrap(x * Base + d[k])]]
  <2>0. 0 \in Int
    OBVIOUS
  <2>1. F \in [1..Len(d) -> [Int -> Int]]
    BY <1>0, Zenon
  <2>2. \A k \in 1..Len(d) : \A x \in Int : F[k][x] = Wrap(x * Base + d[k])
    OBVIOUS
  <2>. HIDE DEF F
  <2>3. PICK g \in [0..Len(d) -> Int] : Rounds(g, Len(d), 0, F)
    BY <1>0, <2>0, <2>1, RoundsExist
  <2>4. \A k \in 1..Len(d) : k - 1 \in 0..Len(d) /\ g[k - 1] \in Int
    BY <1>0
  <2>. QED BY <2>2, <2>3, <2>4 DEF Rounds
<1>2. Unfolds(g)
  BY <1>1
<1>3. PICK f : f = (CHOOSE n : Unfolds(n)) /\ ToNumber(d) = f[Len(d)]
  BY DEF ToNumber
<1>4. Unfolds(f)
  <2>. HIDE DEF Unfolds
  <2>. QED BY <1>2, <1>3
<1>5. f[0] = 0 /\ \A k \in 1..Len(d) : f[k] = Wrap(f[k - 1] * Base + d[k])
  <2>1. 0 \in 0..Len(d) /\ \A k \in 1..Len(d) : k \in 0..Len(d) /\ k # 0
    BY <1>0
  <2>2. \A k \in 0..Len(d) : f[k] = IF k = 0 THEN 0 ELSE Wrap(f[k - 1] * Base + d[k])
    BY <1>4, Zenon
  <2>. QED BY <2>1, <2>2
<1>6. f \in [0..Len(d) -> Int]
  <2>1. DOMAIN f = 0..Len(d) /\ f = [k \in 0..Len(d) |-> f[k]]
    BY <1>4
  <2>2. \A k \in 1..Len(d) : f[k - 1] \in Int => f[k] \in Int
    BY <1>0, <1>5
  <2>3. f[0] \in Int
    BY <1>5
  <2>4. \A k \in 0..Len(d) : f[k] \in Int
    BY <1>0, <2>2, <2>3, EveryRound
  <2>. QED BY <2>1, <2>4
<1>. QED BY <1>3, <1>5, <1>6

(* Digits are numbers.                                                      *)
LEMMA DigitsAreNumbers ==
    /\ Digit \subseteq Nat /\ Digit \subseteq Int
    /\ \A d \in Seq(Digit) : d \in Seq(Int)
<1>1. Digit \subseteq Nat /\ Digit \subseteq Int
  BY Bases DEF Digit
<1>. QED BY <1>1, SeqMonotonic

(* The arithmetic of a further digit behind two parts,                      *)
LEMMA ShiftAndAdd ==
    ASSUME NEW x \in Int, NEW b \in Int, NEW y \in Int, NEW z \in Int, NEW w \in Int
    PROVE  /\ (x * y + z) * b + w = x * (b * y) + (z * b + w)
           /\ x * y \in Int /\ z * b + w \in Int
OBVIOUS

(* and the arithmetic of its bound.                                         *)
LEMMA BoundStep ==
    ASSUME NEW b \in Nat \ {0}, NEW x \in Nat, NEW p \in Nat \ {0}, x < p, NEW d \in 0..b - 1
    PROVE  x * b + d \in Nat /\ x * b + d < b * p /\ x <= x * b + d
<1>1. PICK e \in Nat : p = x + 1 + e
  <2>1. p - x - 1 \in Nat /\ p = x + 1 + (p - x - 1)
    OBVIOUS
  <2>. QED BY <2>1
<1>2. PICK c \in Nat : b = c + 1
  <2>1. b - 1 \in Nat /\ b = (b - 1) + 1
    OBVIOUS
  <2>. QED BY <2>1
<1>3. PICK u \in Nat, v \in Nat : u = x * b /\ v = e * b
  OBVIOUS
<1>4. b * p = u + b + v
  BY <1>1, <1>3
<1>5. x <= u
  <2>1. u = x * c + x /\ x * c \in Nat
    BY <1>2, <1>3
  <2>. QED BY <2>1
<1>. QED BY <1>3, <1>4, <1>5

(* So many digits stay below the power of their count.                      *)
LEMMA ExactlyBound ==
    ASSUME NEW d \in Seq(Digit)
    PROVE  Exactly(d) \in Nat /\ Exactly(d) < Power(Base, Len(d))
<1>. DEFINE P == {s \in Seq(Digit) : Exactly(s) \in Nat /\ Exactly(s) < Power(Base, Len(s))}
<1>1. <<>> \in P
  <2>1. Power(Base, 0) = 1
    BY PowerSteps, Bases, 0 \in Nat, Base \in Int
  <2>. QED BY <2>1, ExactlyEmpty, EmptySeq
<1>2. ASSUME NEW s \in Seq(Digit), NEW x \in Digit, s \in P PROVE Append(s, x) \in P
  <2>1. PICK n \in Nat : n = Len(s)
    BY LenProperties
  <2>2. PICK b \in Nat \ {0} : b = Base /\ x \in 0..b - 1
    BY Bases DEF Digit
  <2>3. PICK p \in Nat \ {0} : p = Power(b, n)
    BY PowerPositive
  <2>4. PICK e \in Nat : e = Exactly(s) /\ e < p
    BY <1>2, <2>1, <2>2, <2>3
  <2>5. Exactly(Append(s, x)) = e * b + x
    BY <2>2, <2>4, DigitsAreNumbers, ExactlyAppend
  <2>6. Append(s, x) \in Seq(Digit) /\ Len(Append(s, x)) = n + 1
    BY <2>1, AppendProperties
  <2>7. Power(b, n + 1) = b * p
    BY <2>3, PowerSteps, b \in Int
  <2>8. e * b + x \in Nat /\ e * b + x < b * p
    BY <2>2, <2>4, BoundStep
  <2>. QED BY <2>2, <2>5, <2>6, <2>7, <2>8
<1>3. Seq(Digit) \subseteq P
  <2>. HIDE DEF P
  <2>. QED BY <1>1, <1>2, SequencesByAppending
<1>. QED BY <1>3

(* Appending to the second of two parts appends to the whole.               *)
LEMMA ConcatAppend ==
    ASSUME NEW S, NEW d \in Seq(S), NEW e \in Seq(S), NEW x \in S
    PROVE  d \o Append(e, x) = Append(d \o e, x)
<1>1. <<x>> \in Seq(S)
  OBVIOUS
<1>2. Append(e, x) = e \o <<x>>
  BY AppendIsConcat
<1>3. d \o e \in Seq(S)
  BY ConcatProperties
<1>4. Append(d \o e, x) = (d \o e) \o <<x>>
  BY <1>3, AppendIsConcat
<1>5. (d \o e) \o <<x>> = d \o (e \o <<x>>)
  BY <1>1, ConcatAssociative
<1>. QED BY <1>2, <1>4, <1>5

(* Two parts make the sum of the first, shifted by the length of the        *)
(* second, and the second.                                                  *)
LEMMA ExactlyConcat ==
    ASSUME NEW d \in Seq(Digit), NEW e \in Seq(Digit)
    PROVE  Exactly(d \o e) = Exactly(d) * Power(Base, Len(e)) + Exactly(e)
<1>. DEFINE P == {s \in Seq(Digit) : Exactly(d \o s) = Exactly(d) * Power(Base, Len(s)) + Exactly(s)}
<1>0. PICK b \in Nat \ {0}, v \in Nat : b = Base /\ v = Exactly(d)
  BY Bases, ExactlyBound
<1>1. <<>> \in P
  <2>1. Power(b, 0) = 1
    BY PowerSteps, 0 \in Nat, b \in Int
  <2>2. d \o <<>> = d /\ Len(<<>>) = 0 /\ <<>> \in Seq(Digit)
    BY ConcatEmptySeq, EmptySeq
  <2>3. v = v * 1 + 0
    OBVIOUS
  <2>. QED BY <1>0, <2>1, <2>2, <2>3, ExactlyEmpty
<1>2. ASSUME NEW s \in Seq(Digit), NEW x \in Digit, s \in P PROVE Append(s, x) \in P
  <2>1. PICK n \in Nat : n = Len(s)
    BY LenProperties
  <2>2. PICK p \in Nat \ {0}, w \in Nat : p = Power(b, n) /\ w = Exactly(s)
    BY PowerPositive, ExactlyBound
  <2>3. d \o s \in Seq(Digit) /\ d \o Append(s, x) = Append(d \o s, x)
    BY ConcatProperties, ConcatAppend
  <2>4. Exactly(d \o s) = v * p + w
    BY <1>0, <1>2, <2>1, <2>2
  <2>5. x \in Int /\ s \in Seq(Int) /\ d \o s \in Seq(Int)
    BY <2>3, DigitsAreNumbers
  <2>6. Exactly(Append(d \o s, x)) = (v * p + w) * b + x
    BY <1>0, <2>4, <2>5, ExactlyAppend
  <2>7. Exactly(Append(s, x)) = w * b + x
    BY <1>0, <2>2, <2>5, ExactlyAppend
  <2>8. Append(s, x) \in Seq(Digit) /\ Len(Append(s, x)) = n + 1
    BY <2>1, AppendProperties
  <2>9. Power(b, n + 1) = b * p
    BY <2>2, PowerSteps, b \in Int
  <2>10. (v * p + w) * b + x = v * (b * p) + (w * b + x)
    BY <2>5, ShiftAndAdd
  <2>11. Exactly(d \o Append(s, x)) = v * Power(b, Len(Append(s, x))) + Exactly(Append(s, x))
    BY <2>3, <2>6, <2>7, <2>8, <2>9, <2>10
  <2>. QED BY <1>0, <2>8, <2>11
<1>3. Seq(Digit) \subseteq P
  <2>. HIDE DEF P
  <2>. QED BY <1>1, <1>2, SequencesByAppending
<1>. QED BY <1>3

(* As long as the number fits, none of the steps wraps around. *)
LEMMA ToNumberExact ==
    ASSUME NEW d \in Seq(Digit), Exactly(d) <= Greatest(DecimalBits)
    PROVE  ToNumber(d) = Exactly(d)
<1>1. PICK n \in Nat : n = Len(d)
  BY LenProperties
<1>2. PICK p \in [0..n -> Int] : p[n] = Exactly(d) /\ p[0] = 0 /\ \A k \in 1..n : p[k] = p[k - 1] * Base + d[k]
  BY <1>1, DigitsAreNumbers, ExactlyUnfolds
<1>3. PICK q \in [0..n -> Int] : q[n] = ToNumber(d) /\ q[0] = 0 /\ \A k \in 1..n : q[k] = Wrap(q[k - 1] * Base + d[k])
  BY <1>1, DigitsAreNumbers, ToNumberUnfolds
<1>4. PICK b \in Nat \ {0} : b = Base /\ \A k \in 1..n : d[k] \in 0..b - 1
  <2>1. \A k \in 1..n : d[k] \in Digit
    BY <1>1, ElementOfSeq
  <2>. QED BY <2>1, Bases DEF Digit
<1>5. PICK g \in Nat : g = Greatest(DecimalBits) /\ Least(DecimalBits) = -g - 1 /\ p[n] <= g
  BY <1>2, Bases
<1>6. \A x \in Nat, y \in 0..b - 1 : x * b + y \in Nat /\ x <= x * b + y
  <2>. SUFFICES ASSUME NEW x \in Nat, NEW y \in 0..b - 1 PROVE x * b + y \in Nat /\ x <= x * b + y
    OBVIOUS
  <2>. QED BY BoundStep, x + 1 \in Nat \ {0}, x < x + 1
<1>7. ASSUME NEW k \in 1..n, p[k - 1] \in Nat PROVE p[k] \in Nat /\ p[k - 1] <= p[k]
  <2>1. p[k] = p[k - 1] * b + d[k] /\ d[k] \in 0..b - 1
    BY <1>2, <1>4
  <2>. QED BY <1>6, <1>7, <2>1
<1>8. \A k \in 0..n : p[k] \in Nat
  <2>1. p[0] \in Nat
    BY <1>2
  <2>. QED BY <1>7, <2>1, EveryRound
<1>9. \A k \in 0..n : p[k] <= g
  <2>. DEFINE R == {m \in 0..n : \A j \in 0..m : p[j] <= p[m]}
  <2>1. 0 \in R
    BY <1>2
  <2>2. ASSUME NEW m \in 0..n, m \in R, m < n PROVE m + 1 \in R
    <3>1. m + 1 \in 1..n /\ (m + 1) - 1 = m /\ m + 1 \in 0..n
      BY <2>2
    <3>2. p[m] \in Nat /\ p[m + 1] \in Nat
      BY <1>8, <3>1
    <3>3. p[m] <= p[m + 1]
      BY <1>7, <3>1, <3>2
    <3>4. ASSUME NEW j \in 0..m + 1 PROVE p[j] <= p[m + 1]
      <4>1. CASE j = m + 1
        BY <3>2, <4>1
      <4>2. CASE j \in 0..m
        <5>1. p[j] <= p[m] /\ p[j] \in Nat
          BY <1>8, <2>2, <4>2
        <5>. QED BY <3>2, <3>3, <5>1
      <4>. QED BY <4>1, <4>2
    <3>. QED BY <3>1, <3>4
  <2>3. n \in R
    <3>1. 0..n \subseteq R
      <4>. HIDE DEF R
      <4>. QED BY <2>1, <2>2, UpToN
    <3>. QED BY <3>1
  <2>4. ASSUME NEW k \in 0..n PROVE p[k] <= g
    <3>1. p[k] <= p[n] /\ p[k] \in Nat /\ p[n] \in Nat
      BY <1>8, <2>3
    <3>. QED BY <1>5, <3>1
  <2>. QED BY <2>4
<1>. DEFINE Q == {k \in 0..n : q[k] = p[k]}
<1>10. 0 \in Q
  BY <1>2, <1>3
<1>11. ASSUME NEW k \in 0..n, k \in Q, k < n PROVE k + 1 \in Q
  <2>1. k + 1 \in 1..n /\ (k + 1) - 1 = k /\ k + 1 \in 0..n
    BY <1>11
  <2>2. p[k + 1] = p[k] * b + d[k + 1] /\ q[k + 1] = Wrap(q[k] * b + d[k + 1])
    BY <1>2, <1>3, <1>4, <2>1
  <2>3. q[k + 1] = Wrap(p[k + 1])
    BY <1>11, <2>2
  <2>4. p[k + 1] \in Nat /\ p[k + 1] <= g
    BY <1>8, <1>9, <2>1
  <2>5. Wrap(p[k + 1]) = p[k + 1]
    <3>1. PICK x \in Nat : x = p[k + 1] /\ x <= g /\ -g - 1 <= x
      BY <2>4
    <3>2. x \in Int /\ Least(DecimalBits) <= x /\ x <= Greatest(DecimalBits)
      BY <1>5, <3>1
    <3>3. Wrap(x) = x
      BY <3>2, WrapFits
    <3>. QED BY <3>1, <3>3
  <2>. QED BY <2>1, <2>3, <2>5
<1>12. n \in Q
  <2>1. 0..n \subseteq Q
    <3>. HIDE DEF Q
    <3>. QED BY <1>10, <1>11, UpToN
  <2>. QED BY <2>1
<1>. QED BY <1>2, <1>3, <1>12

(* Zeroes make zero.                                                        *)
LEMMA ExactlyZeros ==
    ASSUME NEW d \in Seq(Digit), \A i \in 1..Len(d) : d[i] = 0
    PROVE  Exactly(d) = 0
<1>1. PICK n \in Nat : n = Len(d)
  BY LenProperties
<1>2. PICK p \in [0..n -> Int] : p[n] = Exactly(d) /\ p[0] = 0 /\ \A k \in 1..n : p[k] = p[k - 1] * Base + d[k]
  BY <1>1, DigitsAreNumbers, ExactlyUnfolds
<1>. DEFINE Zero == {0}
<1>3. \A k \in 1..n : p[k - 1] \in Zero => p[k] \in Zero
  BY <1>1, <1>2, Bases
<1>4. p[0] \in Zero
  BY <1>2
<1>5. \A k \in 0..n : p[k] \in Zero
  <2>. HIDE DEF Zero
  <2>. QED BY <1>3, <1>4, EveryRound
<1>. QED BY <1>2, <1>5

-----------------------------------------------------------------------------
(* The digits from i end at the first place that is no digit. *)
LEMMA DigitsFromIs ==
    ASSUME NEW s \in Seq(Int), NEW i \in Nat \ {0}, NEW j \in Nat, i <= j, j <= Len(s) + 1,
           \A k \in i..j - 1 : s[k] \in Digit, j = Len(s) + 1 \/ s[j] \notin Digit
    PROVE  DigitsFrom(s, i) = SubSeq(s, i, j - 1)
<1>1. PICK n \in Nat : n = Len(s)
  BY LenProperties
<1>2. PICK E : E = {k \in i..n + 1 : k = n + 1 \/ s[k] \notin Digit}
  OBVIOUS
<1>3. j \in E /\ E \in SUBSET (i..n + 1) /\ E # {}
  BY <1>1, <1>2
<1>4. PICK e : e = Min(E) /\ e \in E /\ e <= j
  <2>1. i \in Int /\ n + 1 \in Int
    OBVIOUS
  <2>2. Min(E) \in E /\ \A v \in E : Min(E) <= v
    BY <1>3, <2>1, LeastOf
  <2>. QED BY <1>3, <2>2
<1>5. e \in i..n + 1 /\ (e = n + 1 \/ s[e] \notin Digit)
  BY <1>2, <1>4
<1>6. ~(e < j)
  BY <1>1, <1>5
<1>7. e = j
  BY <1>4, <1>5, <1>6
<1>8. DigitsFrom(s, i) = SubSeq(s, i, Min(E) - 1)
  BY <1>1, <1>2, Zenon DEF DigitsFrom
<1>. QED BY <1>4, <1>7, <1>8

(* Three parts of a sequence. *)
Threefold(s, a, d, b, l, n, m, S) ==
    /\ s \in Seq(S) /\ Len(s) = l + n + m
    /\ \A k \in 1..l : s[k] = a[k]
    /\ \A k \in 1..n : s[l + k] = d[k]
    /\ \A k \in 1..m : s[l + n + k] = b[k]
    /\ SubSeq(s, l + 1, l + n) = d

LEMMA MiddleOf ==
    ASSUME NEW S, NEW a \in Seq(S), NEW d \in Seq(S), NEW b \in Seq(S), NEW s,
           s = a \o (d \o b), NEW l \in Nat, l = Len(a), NEW n \in Nat, n = Len(d), NEW m \in Nat, m = Len(b)
    PROVE  Threefold(s, a, d, b, l, n, m, S)
<1>1. PICK t \in Seq(S) : /\ t = d \o b /\ Len(t) = n + m
                          /\ \A k \in 1..n + m : t[k] = IF k <= n THEN d[k] ELSE b[k - n]
  <2>1. /\ d \o b \in Seq(S) /\ Len(d \o b) = Len(d) + Len(b)
        /\ \A k \in 1..Len(d) + Len(b) : (d \o b)[k] = IF k <= Len(d) THEN d[k] ELSE b[k - Len(d)]
    BY ConcatProperties
  <2>2. Len(d) = n /\ Len(b) = m
    OBVIOUS
  <2>. QED BY <2>1, <2>2
<1>2. /\ s = a \o t /\ s \in Seq(S) /\ Len(s) = l + (n + m)
      /\ \A k \in 1..l + (n + m) : s[k] = IF k <= l THEN a[k] ELSE t[k - l]
  <2>1. s = a \o t
    BY <1>1
  <2>. QED BY <1>1, <2>1, ConcatProperties
<1>3. Len(s) = l + n + m
  BY <1>2
<1>4. \A k \in 1..l : s[k] = a[k]
  BY <1>2
<1>5. ASSUME NEW k \in 1..n PROVE s[l + k] = d[k]
  <2>1. PICK i : i = l + k /\ i \in 1..l + (n + m) /\ ~(i <= l) /\ i - l = k /\ k \in 1..n + m /\ k <= n
    OBVIOUS
  <2>2. s[i] = t[k] /\ t[k] = d[k]
    BY <1>1, <1>2, <2>1
  <2>. QED BY <2>1, <2>2
<1>6. ASSUME NEW k \in 1..m PROVE s[l + n + k] = b[k]
  <2>1. PICK i, j : i = l + n + k /\ j = n + k
    OBVIOUS
  <2>3. /\ i \in 1..l + (n + m) /\ ~(i <= l) /\ i - l = j
        /\ j \in 1..n + m /\ ~(j <= n) /\ j - n = k
    BY <2>1
  <2>2. s[i] = t[j] /\ t[j] = b[k]
    BY <1>1, <1>2, <2>3
  <2>. QED BY <2>1, <2>2
<1>7. SubSeq(s, l + 1, l + n) = d
  <2>0. PICK lo \in Int, hi \in Int : lo = l + 1 /\ hi = l + n
    OBVIOUS
  <2>1. PICK u : lo = l + 1 /\ hi = l + n /\ u = SubSeq(s, lo, hi)
    BY <2>0
  <2>2. \A k \in lo..hi : s[k] \in S
    BY <1>2, <1>3, <2>1, ElementOfSeq
  <2>3. /\ u \in Seq(S) /\ Len(u) = IF lo <= hi THEN hi - lo + 1 ELSE 0
        /\ \A k \in 1..hi - lo + 1 : u[k] = s[lo + k - 1]
    BY <2>1, <2>2, SubSeqProperties
  <2>4. Len(u) = n
    BY <2>1, <2>3
  <2>5. ASSUME NEW k \in 1..n PROVE u[k] = d[k]
    <3>1. k \in 1..hi - lo + 1 /\ lo + k - 1 = l + k
      BY <2>1
    <3>. QED BY <1>5, <2>3, <3>1
  <2>6. u = d
    BY <2>3, <2>4, <2>5, SeqEqual
  <2>. QED BY <2>1, <2>6
<1>. QED BY <1>2, <1>3, <1>4, <1>5, <1>6, <1>7 DEF Threefold

PartOf(s, a, d, b) == s = a \o (d \o b)
NoDigit(b) == b = <<>> \/ b[1] \notin Digit

(* They are all of a part of the text, if no digit follows it. *)
LEMMA DigitsFromWithin ==
    ASSUME NEW a \in Seq(Int), NEW d \in Seq(Digit), NEW b \in Seq(Int), NEW s,
           PartOf(s, a, d, b), NoDigit(b)
    PROVE  DigitsFrom(s, Len(a) + 1) = d
<1>1. PICK l \in Nat, n \in Nat, m \in Nat : l = Len(a) /\ n = Len(d) /\ m = Len(b)
  BY LenProperties
<1>2. d \in Seq(Int)
  BY DigitsAreNumbers
<1>3. Threefold(s, a, d, b, l, n, m, Int)
  BY <1>1, <1>2, MiddleOf DEF PartOf
<1>4. PICK i \in Nat \ {0}, j \in Nat : i = l + 1 /\ j = l + n + 1 /\ i <= j /\ j <= l + n + m + 1 /\ j - 1 = l + n
  OBVIOUS
<1>5. s \in Seq(Int) /\ Len(s) = l + n + m /\ SubSeq(s, i, j - 1) = d
  BY <1>3, <1>4 DEF Threefold
<1>6. ASSUME NEW k \in i..j - 1 PROVE s[k] \in Digit
  <2>1. PICK h \in 1..n : h = k - l /\ k = l + h
    <3>1. k - l \in 1..n /\ k = l + (k - l)
      BY <1>4
    <3>. QED BY <3>1
  <2>2. s[k] = d[h]
    BY <1>3, <2>1 DEF Threefold
  <2>. QED BY <1>1, <2>2, ElementOfSeq
<1>7. j = Len(s) + 1 \/ s[j] \notin Digit
  <2>1. CASE m = 0
    BY <1>4, <1>5, <2>1
  <2>2. CASE m # 0
    <3>1. 1 \in 1..m /\ b # <<>>
      BY <1>1, <2>2, EmptySeq
    <3>2. s[l + n + 1] = b[1]
      BY <1>3, <3>1 DEF Threefold
    <3>. QED BY <1>4, <3>1, <3>2 DEF NoDigit
  <2>. QED BY <2>1, <2>2
<1>8. j <= Len(s) + 1
  BY <1>4, <1>5
<1>9. DigitsFrom(s, i) = SubSeq(s, i, j - 1)
  BY <1>4, <1>5, <1>6, <1>7, <1>8, DigitsFromIs
<1>. QED BY <1>1, <1>4, <1>5, <1>9

(* What parse makes of the parts of a number. *)
OfParts(sign, whole, frac) ==
    Wrap(sign * Wrap(Wrap(ToNumber(whole) * Pow) + ToNumber(Kept(frac) \o Pad(Kept(frac)))))

(* The smaller of two. *)
LEMMA SmallerOf ==
    ASSUME NEW a \in Nat, NEW b \in Nat
    PROVE  Min({a, b}) = IF a <= b THEN a ELSE b
<1>1. PICK E : E = {a, b}
  OBVIOUS
<1>2. E \in SUBSET (0..a + b) /\ E # {} /\ 0 \in Int /\ a + b \in Int
  BY <1>1
<1>3. Min(E) \in E /\ \A v \in E : Min(E) <= v
  BY <1>2, LeastOf
<1>. QED BY <1>1, <1>3

(* The padding is zeroes, as many as are missing.                           *)
LEMMA PadIs ==
    ASSUME NEW fs \in Seq(Int)
    PROVE  /\ Pad(fs) \in Seq(Digit) /\ Pad(fs) \in Seq(Int)
           /\ \A i \in 1..Len(Pad(fs)) : Pad(fs)[i] = 0
           /\ Len(Pad(fs)) = IF Len(fs) <= Scale THEN Scale - Len(fs) ELSE 0
<1>1. PICK n \in Nat : n = Len(fs)
  BY LenProperties
<1>2. PICK m \in Nat : m = (IF n <= Scale THEN Scale - n ELSE 0) /\ 1..Scale - n = 1..m
  <2>1. Scale \in Nat
    BY Bases
  <2>2. CASE n <= Scale
    <3>1. Scale - n \in Nat
      BY <2>1, <2>2
    <3>. QED BY <2>2, <3>1
  <2>3. CASE ~(n <= Scale)
    <3>1. 1..Scale - n = {} /\ 1..0 = {}
      BY <2>1, <2>3
    <3>. QED BY <2>3, <3>1
  <2>. QED BY <2>2, <2>3
<1>3. Pad(fs) = [k \in 1..m |-> 0]
  BY <1>1, <1>2 DEF Pad
<1>4. 0 \in Digit
  BY Bases DEF Digit
<1>5. PICK p : p = [k \in 1..m |-> 0]
  OBVIOUS
<1>6. p \in Seq(Digit) /\ Len(p) = m /\ \A i \in 1..m : p[i] = 0
  BY <1>4, <1>5
<1>. QED BY <1>1, <1>2, <1>3, <1>5, <1>6, DigitsAreNumbers

(* A part of a number that is cut off, shifted and divided.                 *)
LEMMA CutOff ==
    ASSUME NEW k \in Nat, NEW r \in Nat, NEW p \in Nat \ {0}, NEW q \in Nat \ {0}, r < q
    PROVE  ((k * q + r) * p) \div (p * q) = k
<1>1. PICK m \in Nat \ {0}, s \in Nat : m = p * q /\ s = r * p
  OBVIOUS
<1>2. s < m
  <2>1. PICK e \in Nat : q = r + 1 + e
    <3>1. q - r - 1 \in Nat /\ q = r + 1 + (q - r - 1)
      OBVIOUS
    <3>. QED BY <3>1
  <2>2. m = s + p + e * p /\ e * p \in Nat
    BY <1>1, <2>1
  <2>. QED BY <2>2
<1>3. (k * q + r) * p = k * m + s
  BY <1>1
<1>4. (k * m + s) \div m = k
  BY <1>1, <1>2, DivMod
<1>. QED BY <1>1, <1>3, <1>4

(* The digits that are kept and padded are the fraction, cut off after      *)
(* Scale digits.                                                            *)
LEMMA FractionOf ==
    ASSUME NEW frac \in Seq(Digit)
    PROVE  /\ Kept(frac) \o Pad(Kept(frac)) \in Seq(Digit)
           /\ Exactly(Kept(frac) \o Pad(Kept(frac))) = (Exactly(frac) * Pow) \div Power(Base, Len(frac))
<1>1. PICK n \in Nat, c \in Nat, b \in Nat \ {0} : n = Len(frac) /\ c = Scale /\ b = Base
  BY LenProperties, Bases
<1>2. Pow = Power(b, c)
  BY <1>1 DEF Pow
<1>3. PICK kept : kept = Kept(frac)
  OBVIOUS
<1>4. kept = SubSeq(frac, 1, IF c <= n THEN c ELSE n)
  BY <1>1, <1>3, SmallerOf DEF Kept
<1>5. CASE c <= n
  <2>1. PICK e \in Nat : n = c + e
    <3>1. n - c \in Nat /\ n = c + (n - c)
      BY <1>5
    <3>. QED BY <3>1
  <2>2. PICK rest : rest = SubSeq(frac, c + 1, n)
    OBVIOUS
  <2>3. \A i \in 1..n : frac[i] \in Digit
    BY <1>1, ElementOfSeq
  <2>4. kept = SubSeq(frac, 1, c) /\ kept \in Seq(Digit) /\ Len(kept) = c
    <3>1. \A i \in 1..c : frac[i] \in Digit
      BY <1>5, <2>3
    <3>2. SubSeq(frac, 1, c) \in Seq(Digit) /\ Len(SubSeq(frac, 1, c)) = IF 1 <= c THEN c - 1 + 1 ELSE 0
      BY <3>1, SubSeqProperties, 1 \in Int, c \in Int
    <3>. QED BY <1>4, <1>5, <3>2
  <2>5. rest \in Seq(Digit) /\ Len(rest) = e
    <3>1. \A i \in c + 1..n : frac[i] \in Digit
      BY <2>3
    <3>2. /\ SubSeq(frac, c + 1, n) \in Seq(Digit)
          /\ Len(SubSeq(frac, c + 1, n)) = IF c + 1 <= n THEN n - (c + 1) + 1 ELSE 0
      BY <3>1, SubSeqProperties, c + 1 \in Int, n \in Int
    <3>. QED BY <2>1, <2>2, <3>2
  <2>6. frac = kept \o rest
    <3>1. 1 \in 1..Len(frac) + 1 /\ c \in 1 - 1..Len(frac) /\ n \in c..Len(frac)
      BY <1>1, <1>5
    <3>2. SubSeq(frac, 1, c) \o SubSeq(frac, c + 1, n) = SubSeq(frac, 1, n)
      BY <3>1, ConcatAdjacentSubSeq
    <3>3. SubSeq(frac, 1, n) = frac
      BY <1>1, SubSeqFull
    <3>. QED BY <2>2, <2>4, <3>2, <3>3
  <2>7. PICK k \in Nat, r \in Nat, p \in Nat \ {0}, q \in Nat \ {0} :
          k = Exactly(kept) /\ r = Exactly(rest) /\ p = Power(b, c) /\ q = Power(b, e)
    BY <2>4, <2>5, ExactlyBound, PowerPositive
  <2>8. r < q
    BY <1>1, <2>5, <2>7, ExactlyBound
  <2>9. Exactly(frac) = k * q + r
    BY <1>1, <2>4, <2>5, <2>6, <2>7, ExactlyConcat
  <2>10. Power(b, n) = p * q
    BY <2>1, <2>7, PowerAdds, b \in Int
  <2>11. (Exactly(frac) * Pow) \div Power(Base, Len(frac)) = k
    <3>1. ((k * q + r) * p) \div (p * q) = k
      BY <2>8, CutOff
    <3>. QED BY <1>1, <1>2, <2>7, <2>9, <2>10, <3>1
  <2>12. Pad(kept) = <<>>
    <3>1. kept \in Seq(Int)
      BY <2>4, DigitsAreNumbers
    <3>2. Pad(kept) \in Seq(Digit) /\ Len(Pad(kept)) = 0
      <4>1. Len(Pad(kept)) = IF c <= c THEN c - c ELSE 0
        BY <1>1, <2>4, <3>1, PadIs
      <4>. QED BY <3>1, <4>1, PadIs
    <3>. QED BY <3>2, EmptySeq
  <2>13. kept \o Pad(kept) = kept
    BY <2>4, <2>12, ConcatEmptySeq
  <2>. QED BY <1>3, <2>4, <2>7, <2>11, <2>13
<1>6. CASE ~(c <= n)
  <2>1. PICK e \in Nat : c = n + e /\ e = c - n
    <3>1. c - n \in Nat /\ c = n + (c - n)
      BY <1>6
    <3>. QED BY <3>1
  <2>2. kept = frac
    BY <1>1, <1>4, <1>6, SubSeqFull
  <2>3. PICK pad : pad = Pad(kept)
    OBVIOUS
  <2>4. frac \in Seq(Int) /\ n <= c
    BY <1>6, DigitsAreNumbers
  <2>5. pad \in Seq(Digit) /\ Len(pad) = e /\ \A i \in 1..Len(pad) : pad[i] = 0
    BY <1>1, <2>1, <2>2, <2>3, <2>4, PadIs
  <2>6. Exactly(pad) = 0
    BY <2>5, ExactlyZeros
  <2>7. PICK v \in Nat, p \in Nat \ {0}, q \in Nat \ {0} : v = Exactly(frac) /\ p = Power(b, n) /\ q = Power(b, e)
    BY ExactlyBound, PowerPositive
  <2>8. Exactly(frac \o pad) = v * q
    <3>1. Exactly(frac \o pad) = v * q + 0
      BY <1>1, <2>5, <2>6, <2>7, ExactlyConcat
    <3>. QED BY <3>1
  <2>9. Power(b, c) = p * q
    BY <2>1, <2>7, PowerAdds, b \in Int
  <2>10. (v * (p * q)) \div p = v * q
    <3>1. PICK w \in Nat : w = v * q
      OBVIOUS
    <3>2. v * (p * q) = w * p + 0
      <4>1. v * (p * q) = p * (v * q) /\ p * w = w * p
        BY Associates
      <4>. QED BY <3>1, <4>1
    <3>3. (w * p + 0) \div p = w
      BY DivMod, 0 \in 0..p - 1
    <3>. QED BY <3>1, <3>2, <3>3
  <2>11. (Exactly(frac) * Pow) \div Power(Base, Len(frac)) = v * q
    BY <1>1, <1>2, <2>7, <2>9, <2>10
  <2>12. kept \o Pad(kept) = frac \o pad /\ frac \o pad \in Seq(Digit)
    BY <2>2, <2>3, <2>5, ConcatProperties
  <2>. QED BY <1>3, <2>8, <2>11, <2>12
<1>. QED BY <1>5, <1>6

(* The three signs.                                                         *)
Signs == {<<>>, <<Minus>>, <<Plus>>}
SignOf(sign) == IF sign = <<Minus>> THEN -1 ELSE 1

(* No mark is a digit, nor another mark.                                    *)
LEMMA Marks ==
    /\ Minus \notin Digit /\ Plus \notin Digit /\ Dot \notin Digit
    /\ Minus \in Int /\ Plus \in Int /\ Dot \in Int
    /\ Minus # Plus /\ Minus # Dot /\ Plus # Dot
BY DEF Minus, Plus, Dot, Digit

(* A sequence of one,                                                       *)
LEMMA OneOf ==
    ASSUME NEW S, NEW x \in S
    PROVE  <<x>> \in Seq(S) /\ Len(<<x>>) = 1 /\ <<x>>[1] = x
OBVIOUS

(* and three parts grouped the other way.                                   *)
LEMMA Regroup ==
    ASSUME NEW a \in Seq(Int), NEW b \in Seq(Int), NEW c \in Seq(Int)
    PROVE  a \o (b \o c) = (a \o b) \o c
BY ConcatAssociative

(* What follows the whole part is nothing or begins with a dot.             *)
AfterWhole(dotted, frac) == IF dotted THEN <<Dot>> \o frac ELSE <<>>

LEMMA AfterWholeIs ==
    ASSUME NEW dotted \in BOOLEAN, NEW frac \in Seq(Digit)
    PROVE  /\ AfterWhole(dotted, frac) \in Seq(Int)
           /\ AfterWhole(dotted, frac) = <<>> \/ AfterWhole(dotted, frac)[1] = Dot
           /\ Len(AfterWhole(dotted, frac)) = IF dotted THEN 1 + Len(frac) ELSE 0
<1>1. frac \in Seq(Int) /\ <<Dot>> \in Seq(Int) /\ Len(<<Dot>>) = 1 /\ <<Dot>>[1] = Dot
  BY DigitsAreNumbers, Marks, OneOf
<1>2. PICK n \in Nat : n = Len(frac)
  BY LenProperties
<1>3. PICK t : t = <<Dot>> \o frac
  OBVIOUS
<1>4. /\ t \in Seq(Int) /\ Len(t) = 1 + n
      /\ \A i \in 1..1 + n : t[i] = IF i <= 1 THEN <<Dot>>[i] ELSE frac[i - 1]
  BY <1>1, <1>2, <1>3, ConcatProperties
<1>5. t[1] = Dot
  <2>1. 1 \in 1..1 + n /\ 1 <= 1
    OBVIOUS
  <2>. QED BY <1>1, <1>4, <2>1
<1>6. <<>> \in Seq(Int) /\ Len(<<>>) = 0
  BY EmptySeq
<1>. QED BY <1>2, <1>3, <1>4, <1>5, <1>6 DEF AfterWhole

(* A sign is nothing or one of two characters.                              *)
LEMMA SignsAre ==
    ASSUME NEW sign \in Signs
    PROVE  /\ sign \in Seq(Int) /\ Len(sign) \in {0, 1}
           /\ Len(sign) = 0 <=> sign = <<>>
           /\ sign = <<Minus>> => Len(sign) = 1
           /\ Len(sign) = 1 => sign[1] \in {Minus, Plus} /\ (sign[1] = Minus <=> sign = <<Minus>>)
<1>1. CASE sign = <<>>
  <2>1. sign \in Seq(Int) /\ Len(sign) = 0
    BY <1>1, EmptySeq
  <2>2. Len(<<Minus>>) = 1
    BY Marks, OneOf
  <2>. QED BY <1>1, <2>1, <2>2
<1>2. CASE sign # <<>>
  <2>1. PICK x \in {Minus, Plus} : sign = <<x>>
    BY <1>2 DEF Signs
  <2>2. sign \in Seq(Int) /\ Len(sign) = 1 /\ sign[1] = x
    BY <2>1, Marks, OneOf
  <2>3. sign[1] = Minus <=> sign = <<Minus>>
    BY <2>1, <2>2, Marks, OneOf
  <2>. QED BY <1>2, <2>2, <2>3
<1>. QED BY <1>1, <1>2

(* A text of a sign, the whole part and what follows it. *)
IsWritten(s, sign, whole, dotted, frac) ==
    /\ sign \in Signs /\ whole \in Seq(Digit) /\ frac \in Seq(Digit) /\ dotted \in BOOLEAN
    /\ ~dotted => frac = <<>>
    /\ s = sign \o (whole \o AfterWhole(dotted, frac))

(* parse finds the parts of a number. *)
LEMMA ParseIs ==
    ASSUME NEW s, NEW sign, NEW whole, NEW dotted, NEW frac, IsWritten(s, sign, whole, dotted, frac)
    PROVE  parse(s) = OfParts(SignOf(sign), whole, frac)
<1>0. /\ sign \in Signs /\ whole \in Seq(Digit) /\ frac \in Seq(Digit) /\ dotted \in BOOLEAN
      /\ ~dotted => frac = <<>>
  BY DEF IsWritten
<1>1. PICK after : after = AfterWhole(dotted, frac)
  OBVIOUS
<1>2. PICK l \in Nat, n \in Nat, m \in Nat, f \in Nat :
        l = Len(sign) /\ n = Len(whole) /\ m = Len(after) /\ f = Len(frac)
  BY <1>0, <1>1, SignsAre, AfterWholeIs, LenProperties
<1>3. sign \in Seq(Int) /\ whole \in Seq(Int) /\ frac \in Seq(Int) /\ after \in Seq(Int)
  BY <1>0, <1>1, SignsAre, AfterWholeIs, DigitsAreNumbers
<1>4. s = sign \o (whole \o after)
  BY <1>1 DEF IsWritten
<1>5. Threefold(s, sign, whole, after, l, n, m, Int)
  BY <1>2, <1>3, <1>4, MiddleOf
<1>6. s \in Seq(Int) /\ Len(s) = l + n + m
  BY <1>5 DEF Threefold
<1>7. /\ Signed(s) <=> l = 1
      /\ Signed(s) => (s[1] = Minus <=> sign = <<Minus>>)
  <2>1. CASE l = 1
    <3>1. 1 \in 1..l /\ s[1] = sign[1]
      BY <1>5, <2>1 DEF Threefold
    <3>2. sign[1] \in {Minus, Plus} /\ (sign[1] = Minus <=> sign = <<Minus>>)
      BY <1>0, <1>2, <2>1, SignsAre
    <3>3. s # <<>>
      <4>1. Len(s) # 0
        BY <1>6, <2>1
      <4>. QED BY <4>1, EmptySeq
    <3>. QED BY <2>1, <3>1, <3>2, <3>3 DEF Signed
  <2>2. CASE l # 1
    <3>1. l = 0
      BY <1>0, <1>2, <2>2, SignsAre
    <3>2. CASE n # 0
      <4>1. 1 \in 1..n /\ l + 1 = 1
        BY <3>1, <3>2
      <4>2. s[1] = whole[1] /\ whole[1] \in Digit
        <5>1. \A k \in 1..n : s[l + k] = whole[k]
          BY <1>5 DEF Threefold
        <5>2. s[l + 1] = whole[1]
          BY <4>1, <5>1
        <5>3. whole[1] \in Digit
          BY <1>0, <1>2, <4>1, ElementOfSeq
        <5>. QED BY <4>1, <5>2, <5>3
      <4>. QED BY <2>2, <4>2, Marks DEF Signed
    <3>3. CASE n = 0 /\ m # 0
      <4>1. 1 \in 1..m /\ l + n + 1 = 1
        BY <3>1, <3>3
      <4>2. s[1] = after[1]
        <5>1. \A k \in 1..m : s[l + n + k] = after[k]
          BY <1>5 DEF Threefold
        <5>2. s[l + n + 1] = after[1]
          BY <4>1, <5>1
        <5>. QED BY <4>1, <5>2
      <4>3. after # <<>>
        BY <1>2, <3>3, EmptySeq
      <4>4. after[1] = Dot
        BY <1>0, <1>1, <4>3, AfterWholeIs
      <4>. QED BY <2>2, <4>2, <4>4, Marks DEF Signed
    <3>4. CASE n = 0 /\ m = 0
      <4>1. s = <<>>
        BY <1>6, <3>1, <3>4, EmptySeq
      <4>. QED BY <2>2, <4>1 DEF Signed
    <3>. QED BY <3>2, <3>3, <3>4
  <2>. QED BY <2>1, <2>2
<1>8. PICK start \in Nat, sg \in Int : /\ start = (IF Signed(s) THEN 2 ELSE 1) /\ start = l + 1
                                      /\ sg = (IF Signed(s) /\ s[1] = Minus THEN -1 ELSE 1)
                                      /\ sg = SignOf(sign)
  <2>1. (IF Signed(s) THEN 2 ELSE 1) = l + 1
    <3>1. l \in {0, 1}
      BY <1>0, <1>2, SignsAre
    <3>. QED BY <1>7, <3>1
  <2>2. sign = <<Minus>> => l = 1
    <3>1. sign = <<Minus>> => Len(sign) = 1
      BY <1>0, SignsAre
    <3>. QED BY <1>2, <3>1
  <2>3. (IF Signed(s) /\ s[1] = Minus THEN -1 ELSE 1) = SignOf(sign)
    BY <1>7, <2>2, Zenon DEF SignOf
  <2>4. SignOf(sign) \in Int /\ l + 1 \in Nat
    BY DEF SignOf
  <2>. QED BY <2>1, <2>3, <2>4
<1>9. DigitsFrom(s, start) = whole
  <2>1. NoDigit(after)
    BY <1>0, <1>1, AfterWholeIs, Marks DEF NoDigit
  <2>. QED BY <1>0, <1>2, <1>3, <1>4, <1>8, <2>1, DigitsFromWithin DEF PartOf
<1>10. PICK point \in Nat : point = start + n /\ point = l + n + 1
  BY <1>8
<1>11. frac = IF point <= Len(s) /\ s[point] = Dot THEN DigitsFrom(s, point + 1) ELSE <<>>
  <2>1. CASE ~dotted
    <3>1. m = 0
      BY <1>0, <1>1, <1>2, <2>1, AfterWholeIs
    <3>. QED BY <1>0, <1>6, <1>10, <2>1, <3>1
  <2>2. CASE dotted
    <3>1. m = 1 + f /\ after = <<Dot>> \o frac /\ after # <<>>
      <4>1. m = 1 + f /\ after = <<Dot>> \o frac
        BY <1>0, <1>1, <1>2, <2>2, AfterWholeIs DEF AfterWhole
      <4>2. m # 0
        BY <4>1
      <4>. QED BY <1>2, <4>1, <4>2, EmptySeq
    <3>2. s[point] = Dot
      <4>1. 1 \in 1..m
        BY <3>1
      <4>2. s[l + n + 1] = after[1]
        BY <1>5, <4>1 DEF Threefold
      <4>. QED BY <1>0, <1>1, <1>10, <3>1, <4>2, AfterWholeIs
    <3>3. PICK a : a = (sign \o whole) \o <<Dot>>
      OBVIOUS
    <3>4. <<Dot>> \in Seq(Int) /\ Len(<<Dot>>) = 1
      BY Marks, OneOf
    <3>5. sign \o whole \in Seq(Int) /\ Len(sign \o whole) = l + n
      BY <1>2, <1>3, ConcatProperties
    <3>6. a \in Seq(Int) /\ Len(a) = l + n + 1
      <4>1. PICK e \in Seq(Int), x \in Seq(Int) : e = sign \o whole /\ x = <<Dot>> /\ Len(e) = l + n /\ Len(x) = 1
        BY <3>4, <3>5
      <4>2. e \o x \in Seq(Int) /\ Len(e \o x) = Len(e) + Len(x)
        BY ConcatProperties
      <4>. QED BY <3>3, <4>1, <4>2
    <3>7. s = a \o (frac \o <<>>)
      <4>1. frac \o <<>> = frac
        BY <1>3, ConcatEmptySeq
      <4>2. s = (sign \o whole) \o (<<Dot>> \o frac)
        BY <1>3, <1>4, <3>1, Regroup
      <4>3. (sign \o whole) \o (<<Dot>> \o frac) = a \o frac
        BY <1>3, <3>3, <3>4, <3>5, Regroup
      <4>. QED BY <4>1, <4>2, <4>3
    <3>8. DigitsFrom(s, Len(a) + 1) = frac
      BY <1>0, <3>6, <3>7, EmptySeq, DigitsFromWithin DEF PartOf, NoDigit
    <3>9. Len(a) + 1 = point + 1 /\ point <= Len(s)
      BY <1>6, <1>10, <3>1, <3>6
    <3>. QED BY <3>2, <3>8, <3>9
  <2>. QED BY <2>1, <2>2
<1>12. parse(s) = OfParts(sg, whole, frac)
  <2>1. Len(whole) = n /\ point = start + n
    BY <1>2, <1>10
  <2>. QED BY <1>8, <1>9, <1>11, <2>1 DEF parse, OfParts
<1>. QED BY <1>8, <1>12

(* The parts make the number, if it fits. *)
LEMMA Sums ==
    ASSUME NEW w \in Nat, NEW q \in Nat \ {0}, NEW p \in Nat \ {0}, NEW v \in Nat
    PROVE  /\ ((w * q + v) * p) \div q = w * p + (v * p) \div q
           /\ w <= w * p /\ w * p \in Nat
<1>1. PICK u \in Nat, y \in Nat : u = v * p /\ y = w * p
  OBVIOUS
<1>2. PICK e \in Int, r \in 0..q - 1 : e = u \div q /\ r = u % q /\ u = e * q + r
  BY Division
<1>3. (w * q + v) * p = (y + e) * q + r
  <2>1. (w * q + v) * p = (w * q) * p + u
    BY <1>1
  <2>2. (w * q) * p = (w * p) * q
    OBVIOUS
  <2>3. (y + e) * q + r = y * q + (e * q + r)
    OBVIOUS
  <2>. QED BY <1>1, <1>2, <2>1, <2>2, <2>3
<1>4. ((y + e) * q + r) \div q = y + e
  BY DivMod, y + e \in Int
<1>5. w <= y
  <2>1. PICK c \in Nat : p = c + 1
    <3>1. p - 1 \in Nat /\ p = (p - 1) + 1
      OBVIOUS
    <3>. QED BY <3>1
  <2>2. w * (c + 1) = w * c + w /\ w * c \in Nat
    OBVIOUS
  <2>. QED BY <1>1, <2>1, <2>2
<1>. QED BY <1>1, <1>2, <1>3, <1>4, <1>5

(* What parse makes of the parts is the number they write, cut off after    *)
(* Scale digits.                                                            *)
LEMMA PartsValue ==
    ASSUME NEW whole \in Seq(Digit), NEW frac \in Seq(Digit), NEW sg \in {-1, 1}, NEW size,
           size = (Exactly(whole \o frac) * Pow) \div Power(Base, Len(frac)),
           size <= Greatest(DecimalBits)
    PROVE  OfParts(sg, whole, frac) = sg * size /\ size \in Nat
<1>1. PICK n \in Nat : n = Len(frac)
  BY LenProperties
<1>2. PICK w \in Nat, v \in Nat, q \in Nat \ {0}, p \in Nat \ {0} :
        w = Exactly(whole) /\ v = Exactly(frac) /\ q = Power(Base, n) /\ p = Pow
  BY Bases, ExactlyBound, PowerPositive
<1>3. Exactly(whole \o frac) = w * q + v
  BY <1>1, <1>2, ExactlyConcat
<1>4. PICK kept : kept = Kept(frac) \o Pad(Kept(frac))
  OBVIOUS
<1>5. PICK x \in Nat : x = Exactly(kept) /\ x = (v * p) \div q /\ kept \in Seq(Digit)
  <2>1. kept \in Seq(Digit) /\ Exactly(kept) = (v * p) \div q
    BY <1>1, <1>2, <1>4, FractionOf
  <2>2. Exactly(kept) \in Nat
    BY <2>1, ExactlyBound
  <2>. QED BY <2>1, <2>2
<1>6. PICK y \in Nat : y = w * p /\ w <= y
  BY Sums
<1>7. size = y + x
  <2>1. size = ((w * q + v) * p) \div q
    BY <1>1, <1>2, <1>3
  <2>2. ((w * q + v) * p) \div q = w * p + (v * p) \div q
    BY Sums
  <2>. QED BY <1>5, <1>6, <2>1, <2>2
<1>8. PICK g \in Nat : g = Greatest(DecimalBits) /\ Least(DecimalBits) = -g - 1
  BY Bases
<1>9. size \in Nat /\ y <= size /\ x <= size /\ w <= size /\ size <= g
  BY <1>6, <1>7, <1>8
<1>10. \A i \in Int : -g <= i /\ i <= g => Wrap(i) = i
  <2>. SUFFICES ASSUME NEW i \in Int, -g <= i, i <= g PROVE Wrap(i) = i
    OBVIOUS
  <2>1. Least(DecimalBits) <= i /\ i <= Greatest(DecimalBits)
    BY <1>8
  <2>. QED BY <2>1, WrapFits
<1>11. ToNumber(whole) = w /\ ToNumber(kept) = x
  <2>1. Exactly(whole) <= Greatest(DecimalBits) /\ Exactly(kept) <= Greatest(DecimalBits)
    <3>1. PICK t \in Nat : t = size /\ w <= t /\ x <= t /\ t <= g
      BY <1>9
    <3>2. w <= g /\ x <= g
      BY <3>1
    <3>. QED BY <1>2, <1>5, <1>8, <3>2
  <2>. QED BY <1>2, <1>5, <2>1, ToNumberExact
<1>12. Wrap(ToNumber(whole) * Pow) = y
  <2>1. ToNumber(whole) * Pow = y
    BY <1>2, <1>6, <1>11
  <2>. QED BY <1>9, <1>10, <2>1
<1>13. Wrap(y + x) = size
  BY <1>7, <1>9, <1>10
<1>14. Wrap(sg * size) = sg * size
  <2>1. sg * size \in Int /\ -g <= sg * size /\ sg * size <= g
    <3>1. CASE sg = 1
      <4>1. 1 * size = size
        BY <1>9
      <4>. QED BY <1>9, <3>1, <4>1
    <3>2. CASE sg = -1
      <4>1. (-1) * size = -size
        BY <1>9
      <4>. QED BY <1>9, <3>2, <4>1
    <3>. QED BY <3>1, <3>2
  <2>. QED BY <1>10, <2>1
<1>15. OfParts(sg, whole, frac) = Wrap(sg * Wrap(Wrap(ToNumber(whole) * Pow) + ToNumber(kept)))
  BY <1>4 DEF OfParts
<1>. QED BY <1>9, <1>11, <1>12, <1>13, <1>14, <1>15

(* Products. *)
LEMMA Truncates ==
    ASSUME NEW x \in Int, NEW p \in Nat \ {0}, NEW z, z = x - Quotient(x, p) * p
    PROVE  /\ -p < z /\ z < p
           /\ x >= 0 => z >= 0
           /\ x <= 0 => z <= 0
<1>1. CASE x >= 0
  <2>1. PICK d \in Int, r \in 0..p - 1 : d = x \div p /\ x = d * p + r
    BY Division
  <2>2. Quotient(x, p) = d
    BY <1>1, <2>1 DEF Quotient, Magnitude
  <2>3. z = r
    <3>1. z = x - d * p
      BY <2>2
    <3>. QED BY <2>1, <3>1
  <2>4. x <= 0 => r = 0
    <3>. SUFFICES ASSUME x <= 0 PROVE r = 0
      OBVIOUS
    <3>1. (0 * p + 0) \div p = 0 /\ 0 * p + 0 = 0
      BY DivMod, 0 \in 0..p - 1
    <3>2. d = 0
      BY <1>1, <2>1, <3>1
    <3>. QED BY <1>1, <2>1, <3>2
  <2>. QED BY <2>3, <2>4
<1>2. CASE x < 0
  <2>1. PICK m \in Nat : m = -x
    BY <1>2
  <2>2. PICK d \in Int, r \in 0..p - 1 : d = m \div p /\ m = d * p + r
    BY Division
  <2>3. Quotient(x, p) = -d
    BY <1>2, <2>1, <2>2 DEF Quotient, Magnitude
  <2>4. z = -r
    <3>1. z = x - (-d) * p
      BY <2>3
    <3>2. (-d) * p = -(d * p)
      OBVIOUS
    <3>. QED BY <2>1, <2>2, <3>1, <3>2
  <2>. QED BY <1>2, <2>4
<1>. QED BY <1>1, <1>2

(* std::to_string. *)
NextDigits(f, m) == IF m < Base THEN <<m>> ELSE Append(f[m \div Base], m % Base)
PrintedUpTo(f, h) == \A m \in 0..h : f[m] = NextDigits(f, m)

(* A number of several digits is that without its last one, and the last one. *)
LEMMA Shortened ==
    ASSUME NEW m \in Nat, Base <= m
    PROVE  /\ m \div Base \in Nat /\ m \div Base < m /\ m \div Base > 0 /\ m % Base \in Digit
           /\ m = (m \div Base) * Base + (m % Base)
<1>1. PICK b \in Nat \ {0} : b = Base /\ b >= 2 /\ b <= m
  BY Bases
<1>2. PICK d \in Int, r \in 0..b - 1 : d = m \div b /\ r = m % b /\ m = d * b + r
  BY Division
<1>3. d > 0
  <2>. SUFFICES ASSUME d <= 0 PROVE FALSE
    OBVIOUS
  <2>1. PICK e \in Nat : d = -e
    <3>1. -d \in Nat /\ d = -(-d)
      OBVIOUS
    <3>. QED BY <3>1
  <2>2. (-e) * b = -(e * b) /\ e * b \in Nat
    OBVIOUS
  <2>. QED BY <1>1, <1>2, <2>1, <2>2
<1>4. d < m
  <2>1. PICK c \in Nat : b = c + 2
    <3>1. b - 2 \in Nat /\ b = (b - 2) + 2
      BY <1>1
    <3>. QED BY <3>1
  <2>2. d * (c + 2) = d * c + d + d /\ d * c \in Nat
    BY <1>3
  <2>. QED BY <1>2, <1>3, <2>1, <2>2
<1>. QED BY <1>1, <1>2, <1>3, <1>4 DEF Digit

(* By the size of the number there are digits for every one,                *)
LEMMA FewDigits ==
    ASSUME NEW h \in Nat
    PROVE  \E f \in [0..h -> Seq(Digit)] : PrintedUpTo(f, h)
<1>. DEFINE P == {k \in 0..h : \E f \in [0..k -> Seq(Digit)] : PrintedUpTo(f, k)}
<1>1. \A m \in Nat : m < Base => <<m>> \in Seq(Digit)
  <2>. SUFFICES ASSUME NEW m \in Nat, m < Base PROVE <<m>> \in Seq(Digit)
    OBVIOUS
  <2>1. m \in Digit
    BY Bases DEF Digit
  <2>. QED BY <2>1, OneOf
<1>2. 0 \in P
  <2>1. PICK f : f = [k \in 0..0 |-> <<0>>]
    OBVIOUS
  <2>2. <<0>> \in Seq(Digit) /\ 0 < Base
    BY <1>1, Bases
  <2>3. f \in [0..0 -> Seq(Digit)] /\ f[0] = <<0>>
    BY <2>1, <2>2
  <2>4. PrintedUpTo(f, 0)
    <3>. SUFFICES ASSUME NEW m \in 0..0 PROVE f[m] = NextDigits(f, m)
      BY DEF PrintedUpTo
    <3>1. m = 0
      OBVIOUS
    <3>. QED BY <2>2, <2>3, <3>1 DEF NextDigits
  <2>. QED BY <2>3, <2>4
<1>3. ASSUME NEW k \in 0..h, k \in P, k < h PROVE k + 1 \in P
  <2>1. PICK f \in [0..k -> Seq(Digit)] : PrintedUpTo(f, k)
    BY <1>3
  <2>2. PICK n \in Nat : n = k + 1
    OBVIOUS
  <2>3. \A m \in 0..n : Base <= m => m \div Base \in 0..k
    <3>. SUFFICES ASSUME NEW m \in 0..n, Base <= m PROVE m \div Base \in 0..k
      OBVIOUS
    <3>1. m \div Base \in Nat /\ m \div Base < m
      BY Shortened
    <3>. QED BY <2>2, <3>1
  <2>4. \A m \in 0..n : m < Base \/ Base <= m
    BY Bases
  <2>5. NextDigits(f, n) \in Seq(Digit)
    <3>1. CASE n < Base
      BY <1>1, <3>1 DEF NextDigits
    <3>2. CASE Base <= n
      <4>1. f[n \div Base] \in Seq(Digit)
        BY <2>2, <2>3, <3>2
      <4>2. n % Base \in Digit
        BY <3>2, Shortened
      <4>3. ~(n < Base)
        BY <3>2, Bases
      <4>. QED BY <4>1, <4>2, <4>3, AppendProperties DEF NextDigits
    <3>. QED BY <2>2, <2>4, <3>1, <3>2
  <2>6. PICK g : g = [m \in 0..n |-> IF m <= k THEN f[m] ELSE NextDigits(f, n)]
    OBVIOUS
  <2>7. \A m \in 0..k : g[m] = f[m]
    BY <2>2, <2>6
  <2>8. g[n] = NextDigits(f, n)
    BY <2>2, <2>6
  <2>9. g \in [0..n -> Seq(Digit)]
    <3>1. \A m \in 0..n : (IF m <= k THEN f[m] ELSE NextDigits(f, n)) \in Seq(Digit)
      BY <2>5
    <3>. QED BY <2>6, <3>1
  <2>10. \A m \in 0..n : NextDigits(g, m) = NextDigits(f, m)
    <3>. SUFFICES ASSUME NEW m \in 0..n PROVE NextDigits(g, m) = NextDigits(f, m)
      OBVIOUS
    <3>1. CASE m < Base
      BY <3>1 DEF NextDigits
    <3>2. CASE Base <= m
      <4>1. g[m \div Base] = f[m \div Base]
        BY <2>3, <2>7, <3>2
      <4>. QED BY <4>1 DEF NextDigits
    <3>. QED BY <2>4, <3>1, <3>2
  <2>11. PrintedUpTo(g, n)
    <3>. SUFFICES ASSUME NEW m \in 0..n PROVE g[m] = NextDigits(g, m)
      BY DEF PrintedUpTo
    <3>1. CASE m \in 0..k
      <4>1. f[m] = NextDigits(f, m)
        BY <2>1, <3>1 DEF PrintedUpTo
      <4>. QED BY <2>7, <2>10, <3>1, <4>1
    <3>2. CASE m = n
      BY <2>8, <2>10, <3>2
    <3>. QED BY <2>2, <3>1, <3>2
  <2>12. n \in 0..h
    BY <1>3, <2>2
  <2>. QED BY <2>2, <2>9, <2>11, <2>12
<1>4. 0..h \subseteq P
  <2>. HIDE DEF P
  <2>. QED BY <1>2, <1>3, UpToN
<1>5. h \in P
  <2>. HIDE DEF P
  <2>. QED BY <1>4
<1>. QED BY <1>5

IsPrinted(d, m) ==
    /\ d \in Seq(Digit) /\ Len(d) \in Nat \ {0}
    /\ Exactly(d) = m
    /\ IF m > 0 THEN Power(Base, Len(d) - 1) <= m ELSE Len(d) = 1

(* which make the number, and no more of them than it needs.                *)
LEMMA DigitsMakeTheNumber ==
    ASSUME NEW h \in Nat, NEW f \in [0..h -> Seq(Digit)], PrintedUpTo(f, h)
    PROVE  \A m \in 0..h : IsPrinted(f[m], m)
<1>. DEFINE P == {k \in 0..h : \A m \in 0..k : IsPrinted(f[m], m)}
<1>0. PICK b \in Nat \ {0} : b = Base /\ b >= 2
  BY Bases
<1>1. ASSUME NEW m \in 0..h, m < Base PROVE IsPrinted(f[m], m)
  <2>1. f[m] = <<m>>
    BY <1>1 DEF PrintedUpTo, NextDigits
  <2>2. m \in Digit /\ m \in Int
    BY <1>1, Bases DEF Digit
  <2>3. <<m>> \in Seq(Digit) /\ Len(<<m>>) = 1
    BY <2>2, OneOf
  <2>4. Exactly(<<m>>) = m
    <3>1. <<>> \in Seq(Int) /\ Append(<<>>, m) = <<m>>
      BY EmptySeq
    <3>2. Exactly(Append(<<>>, m)) = 0 * b + m
      BY <1>0, <2>2, <3>1, ExactlyAppend, ExactlyEmpty
    <3>. QED BY <2>2, <3>1, <3>2
  <2>5. Power(b, 1 - 1) = 1
    BY PowerSteps, 0 \in Nat, 1 - 1 = 0, b \in Int
  <2>6. m > 0 => 1 <= m
    OBVIOUS
  <2>. QED BY <1>0, <2>1, <2>3, <2>4, <2>5, <2>6 DEF IsPrinted
<1>2. 0 \in P
  <2>1. IsPrinted(f[0], 0)
    BY <1>0, <1>1
  <2>. QED BY <2>1
<1>3. ASSUME NEW k \in 0..h, k \in P, k < h PROVE k + 1 \in P
  <2>1. PICK m \in 0..h : m = k + 1
    BY <1>3
  <2>2. CASE Base <= m
    <3>1. PICK d \in Nat, r \in Digit : /\ d = m \div Base /\ r = m % Base
                                        /\ d < m /\ d > 0 /\ m = d * b + r
      <4>1. m \in Nat
        OBVIOUS
      <4>2. /\ m \div Base \in Nat /\ m \div Base < m /\ m \div Base > 0 /\ m % Base \in Digit
            /\ m = (m \div Base) * Base + (m % Base)
        BY <2>2, <4>1, Shortened
      <4>. QED BY <1>0, <4>2
    <3>2. d \in 0..k
      BY <2>1, <3>1
    <3>3. PICK e : e = f[d] /\ IsPrinted(e, d)
      BY <1>3, <3>2
    <3>4. PICK n \in Nat, q \in Nat \ {0} : Len(e) = n + 1 /\ q = Power(b, n) /\ q <= d /\ e \in Seq(Digit) /\ Exactly(e) = d
      <4>1. PICK l \in Nat \ {0} : l = Len(e) /\ Power(Base, l - 1) <= d /\ e \in Seq(Digit) /\ Exactly(e) = d
        BY <3>1, <3>3 DEF IsPrinted
      <4>2. PICK n \in Nat : n = l - 1 /\ l = n + 1
        <5>1. l - 1 \in Nat /\ l = (l - 1) + 1
          OBVIOUS
        <5>. QED BY <5>1
      <4>3. Power(b, n) \in Nat \ {0}
        BY PowerPositive
      <4>. QED BY <1>0, <4>1, <4>2, <4>3
    <3>5. f[m] = Append(e, r)
      <4>1. ~(m < Base)
        BY <2>2, Bases
      <4>. QED BY <3>1, <3>3, <4>1 DEF PrintedUpTo, NextDigits
    <3>6. Append(e, r) \in Seq(Digit) /\ Len(Append(e, r)) = (n + 1) + 1
      BY <3>4, AppendProperties
    <3>7. Exactly(Append(e, r)) = m
      BY <1>0, <3>1, <3>4, DigitsAreNumbers, ExactlyAppend
    <3>8. Power(b, n + 1) = b * q
      BY <3>4, PowerSteps, b \in Int
    <3>9. b * q <= m
      <4>1. PICK c \in Nat : d = q + c
        <5>1. d - q \in Nat /\ d = q + (d - q)
          BY <3>4
        <5>. QED BY <5>1
      <4>2. d * b = b * q + c * b /\ c * b \in Nat
        BY <4>1
      <4>3. r \in Nat
        BY DigitsAreNumbers
      <4>. QED BY <3>1, <4>2, <4>3
    <3>10. IsPrinted(f[m], m)
      <4>1. Len(Append(e, r)) - 1 = n + 1 /\ Len(Append(e, r)) \in Nat \ {0}
        BY <3>6
      <4>. QED BY <1>0, <3>5, <3>6, <3>7, <3>8, <3>9, <4>1 DEF IsPrinted
    <3>. QED BY <1>3, <2>1, <3>10
  <2>3. CASE m < Base
    BY <1>1, <1>3, <2>1, <2>3
  <2>. QED BY <2>1, <2>2, <2>3, Bases
<1>4. 0..h \subseteq P
  <2>. HIDE DEF P
  <2>. QED BY <1>2, <1>3, UpToN
<1>5. h \in P
  <2>. HIDE DEF P
  <2>. QED BY <1>4
<1>. QED BY <1>5

(* The least number has one more to its size than the greatest.             *)
LEMMA Highest == -Least(DecimalBits) \in Nat /\ -Least(DecimalBits) = Greatest(DecimalBits) + 1
BY Bases

(* What is printed are the digits of the size, behind a minus if it is negative. *)
LEMMA PrintedIs ==
    ASSUME NEW m \in Nat, m <= -Least(DecimalBits)
    PROVE  /\ Printed(m) \in Seq(Digit) /\ IsPrinted(Printed(m), m)
           /\ m > 0 => Printed(-m) = <<Minus>> \o Printed(m)
<1>. DEFINE Unfolds(x) == x = [i \in 0..-Least(DecimalBits) |->
                                 IF i < Base THEN <<i>> ELSE Append(x[i \div Base], i % Base)]
<1>1. PICK h \in Nat : h = -Least(DecimalBits)
  BY Highest
<1>2. PICK f \in [0..h -> Seq(Digit)] : PrintedUpTo(f, h)
  BY FewDigits
<1>3. Unfolds(f)
  BY <1>1, <1>2 DEF PrintedUpTo, NextDigits
<1>4. PICK g : g = CHOOSE x : Unfolds(x)
  OBVIOUS
<1>15. \A n : Printed(n) = IF n < 0 THEN <<Minus>> \o g[-n] ELSE g[n]
  BY <1>4 DEF Printed
<1>5. Unfolds(g)
  <2>. HIDE DEF Unfolds
  <2>. QED BY <1>3, <1>4
<1>6. \A i \in 0..h : g[i] = NextDigits(g, i)
  BY <1>1, <1>5 DEF NextDigits
<1>. DEFINE P == {k \in 0..h : \A i \in 0..k : g[i] = f[i]}
<1>7. \A i \in 0..h : i < Base => g[i] = f[i]
  BY <1>2, <1>6 DEF PrintedUpTo, NextDigits
<1>8. 0 \in P
  <2>1. 0 < Base
    BY Bases
  <2>. QED BY <1>7, <2>1
<1>9. ASSUME NEW k \in 0..h, k \in P, k < h PROVE k + 1 \in P
  <2>1. PICK n \in 0..h : n = k + 1
    BY <1>9
  <2>2. CASE Base <= n
    <3>1. n \div Base \in 0..k
      <4>1. n \div Base \in Nat /\ n \div Base < n
        BY <2>2, Shortened
      <4>. QED BY <2>1, <4>1
    <3>2. g[n \div Base] = f[n \div Base]
      BY <1>9, <3>1
    <3>3. g[n] = f[n]
      BY <1>2, <1>6, <3>2 DEF PrintedUpTo, NextDigits
    <3>. QED BY <1>9, <2>1, <3>3
  <2>3. CASE n < Base
    BY <1>7, <1>9, <2>1, <2>3
  <2>. QED BY <2>1, <2>2, <2>3, Bases
<1>10. \A i \in 0..h : g[i] = f[i]
  <2>1. 0..h \subseteq P
    <3>. HIDE DEF P
    <3>. QED BY <1>8, <1>9, UpToN
  <2>2. h \in P
    <3>. HIDE DEF P
    <3>. QED BY <2>1
  <2>. QED BY <2>2
<1>11. m \in 0..h
  BY <1>1
<1>12. Printed(m) = f[m]
  <2>1. ~(m < 0)
    OBVIOUS
  <2>. QED BY <1>10, <1>11, <1>15, <2>1
<1>13. m > 0 => Printed(-m) = <<Minus>> \o f[m]
  <2>. SUFFICES ASSUME m > 0 PROVE Printed(-m) = <<Minus>> \o f[m]
    OBVIOUS
  <2>1. -m < 0 /\ -(-m) = m
    OBVIOUS
  <2>. QED BY <1>10, <1>11, <1>15, <2>1
<1>14. IsPrinted(f[m], m)
  BY <1>2, <1>11, DigitsMakeTheNumber
<1>. QED BY <1>11, <1>12, <1>13, <1>14

(* What is left of a number by the power has at most Scale digits. *)
LEMMA FitsTheScale ==
    ASSUME NEW r \in Nat, r < Pow, Scale > 0
    PROVE  /\ Printed(r) \in Seq(Digit) /\ Exactly(Printed(r)) = r
           /\ Len(Printed(r)) \in Nat /\ Len(Printed(r)) <= Scale
<1>1. PICK c \in Nat \ {0}, b \in Nat \ {0}, p \in Nat \ {0} : c = Scale /\ b = Base /\ p = Pow /\ r < p
  BY Bases
<1>2. r <= -Least(DecimalBits)
  <2>1. PICK g \in Nat : g = Greatest(DecimalBits) /\ -Least(DecimalBits) = g + 1 /\ p <= g
    BY <1>1, Highest, Bases
  <2>. QED BY <1>1, <2>1
<1>3. PICK d : d = Printed(r) /\ d \in Seq(Digit) /\ IsPrinted(d, r)
  BY <1>2, PrintedIs
<1>4. PICK l \in Nat \ {0} : l = Len(d) /\ (r > 0 => Power(b, l - 1) <= r) /\ (r = 0 => l = 1)
  BY <1>1, <1>3 DEF IsPrinted
<1>5. CASE r = 0
  <2>1. l = 1 /\ l <= c
    BY <1>4, <1>5
  <2>. QED BY <1>1, <1>3, <1>4, <2>1 DEF IsPrinted
<1>6. CASE r # 0
  <2>1. PICK n \in Nat, q \in Nat \ {0} : n = l - 1 /\ q = Power(b, n) /\ q <= r
    <3>1. l - 1 \in Nat
      OBVIOUS
    <3>2. Power(b, l - 1) \in Nat \ {0}
      BY <3>1, PowerPositive
    <3>. QED BY <1>4, <1>6, <3>1, <3>2
  <2>2. ~(c <= n)
    <3>. SUFFICES ASSUME c <= n PROVE FALSE
      OBVIOUS
    <3>1. Power(b, c) <= Power(b, n)
      BY PowerGrows
    <3>2. p <= q
      BY <1>1, <2>1, <3>1 DEF Pow
    <3>. QED BY <1>1, <2>1, <3>2
  <2>3. l <= c
    BY <2>1, <2>2
  <2>. QED BY <1>1, <1>3, <1>4, <2>3 DEF IsPrinted
<1>. QED BY <1>5, <1>6

(* What format writes: the whole part with its sign, and what follows.      *)
WrittenAfter(fs) == IF Scale = 0 THEN <<>> ELSE <<Dot>> \o Pad(fs) \o fs

LEMMA FormatUnfolds ==
    ASSUME NEW n, NEW a, a = (IF n < 0 THEN Wrap(-n) ELSE n), NEW sign,
           sign = (IF n < 0 THEN <<Minus>> ELSE <<>>)
    PROVE  format(n) = (sign \o Printed(Quotient(a, Pow))) \o WrittenAfter(Printed(Remainder(a, Pow)))
BY DEF format, WrittenAfter

(* What follows is a dot and the fraction, if there is a scale.             *)
LEMMA WrittenAfterIs ==
    ASSUME NEW fs \in Seq(Int)
    PROVE  /\ WrittenAfter(fs) \in Seq(Int)
           /\ WrittenAfter(fs) = AfterWhole(Scale # 0, Pad(fs) \o fs)
<1>1. PICK pad \in Seq(Int), dot \in Seq(Int) : pad = Pad(fs) /\ dot = <<Dot>>
  BY PadIs, Marks, OneOf
<1>2. (dot \o pad) \o fs = dot \o (pad \o fs)
  BY Regroup
<1>3. dot \o pad \in Seq(Int)
  BY ConcatProperties
<1>4. (dot \o pad) \o fs \in Seq(Int)
  BY <1>3, ConcatProperties
<1>. QED BY <1>1, <1>2, <1>4, EmptySeq DEF WrittenAfter, AfterWhole

(* The numbers of the width.                                                *)
LEMMA NumbersAre ==
    ASSUME NEW n \in Numbers
    PROVE  /\ n \in Int /\ Least(DecimalBits) <= n /\ n <= Greatest(DecimalBits)
           /\ n # Least(DecimalBits) => -n <= Greatest(DecimalBits)
BY Bases DEF Numbers

(* A number but the least one is read back.                                 *)
LEMMA FormatRead ==
    ASSUME NEW n \in Numbers, n # Least(DecimalBits)
    PROVE  format(n) \in Seq(Int) /\ parse(format(n)) = n
<1>1. PICK g \in Nat, p \in Nat \ {0}, c \in Nat :
        g = Greatest(DecimalBits) /\ p = Pow /\ p <= g /\ c = Scale /\ -Least(DecimalBits) = g + 1
  BY Bases, Highest
<1>2. n \in Int /\ n <= g /\ -n <= g
  BY <1>1, NumbersAre
<1>3. PICK a \in Nat : a = (IF n < 0 THEN Wrap(-n) ELSE n) /\ a <= g /\ a = (IF n < 0 THEN -n ELSE n)
  <2>1. CASE n < 0
    <3>1. -n \in Int /\ Least(DecimalBits) <= -n /\ -n <= Greatest(DecimalBits)
      BY <1>1, <1>2, <2>1, Bases
    <3>2. Wrap(-n) = -n
      BY <3>1, WrapFits
    <3>. QED BY <1>2, <2>1, <3>2
  <2>2. CASE ~(n < 0)
    BY <1>2, <2>2
  <2>. QED BY <2>1, <2>2
<1>4. PICK sign \in Signs, sg \in {-1, 1} : /\ sign = (IF n < 0 THEN <<Minus>> ELSE <<>>)
                                            /\ sg = (IF n < 0 THEN -1 ELSE 1)
                                            /\ sg = SignOf(sign)
  <2>1. <<>> # <<Minus>>
    OBVIOUS
  <2>. QED BY <2>1 DEF Signs, SignOf
<1>5. PICK w \in Nat, r \in 0..p - 1 : w = Quotient(a, Pow) /\ r = Remainder(a, Pow) /\ a = w * p + r /\ w <= a
  <2>1. PICK d \in Int, r \in 0..p - 1 : d = a \div p /\ a = d * p + r
    BY Division
  <2>2. Quotient(a, Pow) = d
    BY <1>1, <2>1 DEF Quotient, Magnitude
  <2>3. Remainder(a, Pow) = r
    <3>1. Remainder(a, Pow) = a - p * d
      BY <1>1, <2>2 DEF Remainder
    <3>2. p * d = d * p
      BY <2>1
    <3>. QED BY <2>1, <3>1, <3>2
  <2>4. d \in Nat
    BY <2>1
  <2>5. d <= d * p
    BY <2>4, Sums, 1 \in Nat \ {0}, 0 \in Nat
  <2>. QED BY <2>1, <2>2, <2>3, <2>4, <2>5
<1>6. PICK whole \in Seq(Digit) : whole = Printed(w) /\ Exactly(whole) = w
  <2>1. w <= -Least(DecimalBits)
    BY <1>1, <1>3, <1>5
  <2>. QED BY <2>1, PrintedIs DEF IsPrinted
<1>7. PICK fs : fs = Printed(r)
  OBVIOUS
<1>8. fs \in Seq(Digit) /\ fs \in Seq(Int)
  <2>1. r \in Nat /\ r <= -Least(DecimalBits)
    BY <1>1
  <2>. QED BY <1>7, <2>1, PrintedIs, DigitsAreNumbers
<1>9. PICK frac \in Seq(Digit) : frac = IF Scale # 0 THEN Pad(fs) \o fs ELSE <<>>
  <2>1. Pad(fs) \in Seq(Digit)
    BY <1>8, PadIs
  <2>2. Pad(fs) \o fs \in Seq(Digit)
    BY <1>8, <2>1, ConcatProperties
  <2>. QED BY <2>2, EmptySeq
<1>10. format(n) = sign \o (whole \o AfterWhole(Scale # 0, frac)) /\ format(n) \in Seq(Int)
  <2>1. format(n) = (sign \o whole) \o WrittenAfter(fs)
    BY <1>3, <1>4, <1>5, <1>6, <1>7, FormatUnfolds
  <2>2. PICK after \in Seq(Int) : after = WrittenAfter(fs) /\ after = AfterWhole(Scale # 0, frac)
    <3>1. WrittenAfter(fs) \in Seq(Int) /\ WrittenAfter(fs) = AfterWhole(Scale # 0, Pad(fs) \o fs)
      BY <1>8, WrittenAfterIs
    <3>. QED BY <1>9, <3>1 DEF AfterWhole
  <2>3. sign \in Seq(Int) /\ whole \in Seq(Int)
    BY SignsAre, DigitsAreNumbers
  <2>4. (sign \o whole) \o after = sign \o (whole \o after)
    BY <2>3, Regroup
  <2>5. sign \o whole \in Seq(Int)
    BY <2>3, ConcatProperties
  <2>6. (sign \o whole) \o after \in Seq(Int)
    BY <2>5, ConcatProperties
  <2>. QED BY <2>1, <2>2, <2>4, <2>6
<1>11. parse(format(n)) = OfParts(sg, whole, frac)
  <2>1. ~(Scale # 0) => frac = <<>>
    BY <1>9
  <2>2. (Scale # 0) \in BOOLEAN
    OBVIOUS
  <2>3. IsWritten(format(n), sign, whole, Scale # 0, frac)
    BY <1>10, <2>1, <2>2, Zenon DEF IsWritten
  <2>4. parse(format(n)) = OfParts(SignOf(sign), whole, frac)
    BY <2>3, ParseIs, Zenon
  <2>. QED BY <1>4, <2>4
<1>12. (Exactly(whole \o frac) * Pow) \div Power(Base, Len(frac)) = a
  <2>1. CASE c # 0
    <3>1. PICK pad : pad = Pad(fs) /\ frac = pad \o fs
      BY <1>1, <1>9, <2>1
    <3>2. PICK m \in Nat : m = Len(fs) /\ m <= c /\ Exactly(fs) = r
      <4>1. r \in Nat /\ r < Pow /\ Scale > 0
        BY <1>1, <2>1
      <4>. QED BY <1>1, <1>7, <4>1, FitsTheScale
    <3>3. pad \in Seq(Digit) /\ Len(pad) = c - m /\ \A i \in 1..Len(pad) : pad[i] = 0
      BY <1>1, <1>8, <3>1, <3>2, PadIs
    <3>4. Exactly(pad) = 0
      BY <3>3, ExactlyZeros
    <3>5. Exactly(frac) = r
      <4>1. Exactly(frac) = 0 * Power(Base, m) + r
        BY <1>8, <3>1, <3>2, <3>3, <3>4, ExactlyConcat
      <4>2. Power(Base, m) \in Nat
        BY Bases, PowerPositive
      <4>. QED BY <4>1, <4>2
    <3>6. Len(frac) = c
      <4>1. Len(frac) = Len(pad) + Len(fs)
        BY <1>8, <3>1, <3>3, ConcatProperties
      <4>. QED BY <3>2, <3>3, <4>1
    <3>7. Power(Base, Len(frac)) = p
      BY <1>1, <3>6 DEF Pow
    <3>8. Exactly(whole \o frac) = a
      BY <1>5, <1>6, <3>5, <3>7, ExactlyConcat
    <3>9. (a * p + 0) \div p = a /\ a * p + 0 = a * p
      BY DivMod, 0 \in 0..p - 1, a \in Int
    <3>. QED BY <1>1, <3>7, <3>8, <3>9
  <2>2. CASE c = 0
    <3>1. frac = <<>> /\ Len(<<>>) = 0 /\ Scale = 0
      BY <1>1, <1>9, <2>2, EmptySeq
    <3>2. Power(Base, 0) = 1
      BY Bases, PowerSteps, Base \in Int, 0 \in Nat
    <3>3. p = 1
      BY <1>1, <3>1, <3>2 DEF Pow
    <3>4. a = w
      BY <1>5, <3>3
    <3>5. whole \o frac = whole
      BY <3>1, ConcatEmptySeq
    <3>6. (a * 1) \div 1 = a
      <4>1. (a * 1 + 0) \div 1 = a /\ a * 1 + 0 = a * 1
        BY DivMod, 1 \in Nat \ {0}, 0 \in 0..1 - 1, a \in Int
      <4>. QED BY <4>1
    <3>. QED BY <1>1, <1>6, <3>1, <3>2, <3>3, <3>4, <3>5, <3>6
  <2>. QED BY <2>1, <2>2
<1>13. OfParts(sg, whole, frac) = sg * a
  <2>1. a <= Greatest(DecimalBits)
    BY <1>1, <1>3
  <2>. QED BY <1>12, <2>1, PartsValue
<1>14. sg * a = n
  <2>1. (-1) * a = -a /\ 1 * a = a
    OBVIOUS
  <2>. QED BY <1>2, <1>3, <1>4, <2>1
<1>. QED BY <1>10, <1>11, <1>13, <1>14

(* The least number, which is written with two signs. *)
LEMMA TwoSigns ==
    ASSUME NEW u \in Seq(Int), Len(u) > 0, u[1] = Minus, NEW s, s = <<Minus>> \o u
    PROVE  parse(s) = OfParts(-1, <<>>, <<>>)
<1>1. PICK n \in Nat : n = Len(u) /\ n > 0
  BY LenProperties
<1>2. PICK m \in Seq(Int) : m = <<Minus>> /\ Len(m) = 1 /\ m[1] = Minus
  BY Marks, OneOf
<1>3. /\ s \in Seq(Int) /\ Len(s) = 1 + n
      /\ \A i \in 1..1 + n : s[i] = IF i <= 1 THEN m[i] ELSE u[i - 1]
  <2>1. s = m \o u
    BY <1>2
  <2>. QED BY <1>1, <1>2, <2>1, ConcatProperties
<1>4. s[1] = Minus /\ s[2] = Minus
  <2>1. 1 \in 1..1 + n /\ 2 \in 1..1 + n /\ 1 <= 1 /\ ~(2 <= 1) /\ 2 - 1 = 1
    BY <1>1
  <2>. QED BY <1>2, <1>3, <2>1
<1>5. Signed(s)
  <2>1. Len(s) # 0
    BY <1>1, <1>3
  <2>2. s # <<>>
    BY <2>1, EmptySeq
  <2>. QED BY <1>4, <2>2 DEF Signed
<1>6. DigitsFrom(s, 2) = <<>>
  <2>1. PICK i \in Nat \ {0}, j \in Nat : i = 2 /\ j = 2 /\ i <= j /\ j <= Len(s) + 1 /\ i..j - 1 = {}
    BY <1>1, <1>3
  <2>2. s[j] \notin Digit
    BY <1>4, <2>1, Marks
  <2>3. DigitsFrom(s, i) = SubSeq(s, i, j - 1)
    BY <1>3, <2>1, <2>2, DigitsFromIs
  <2>4. SubSeq(s, 2, 1) = <<>>
    BY SubSeqEmpty, 2 \in Int, 1 \in Int, 1 < 2
  <2>. QED BY <2>1, <2>3, <2>4
<1>7. PICK start, sg, point : start = 2 /\ sg = -1 /\ point = start + Len(<<>>)
  OBVIOUS
<1>8. /\ (IF Signed(s) THEN 2 ELSE 1) = start
      /\ (IF Signed(s) /\ s[1] = Minus THEN -1 ELSE 1) = sg
  BY <1>4, <1>5, <1>7
<1>9. s[point] # Dot
  BY <1>4, <1>7, EmptySeq, Marks
<1>10. (IF point <= Len(s) /\ s[point] = Dot THEN DigitsFrom(s, point + 1) ELSE <<>>) = <<>>
  BY <1>9
<1>11. parse(s) = OfParts(sg, <<>>, <<>>)
  BY <1>6, <1>7, <1>8, <1>10 DEF parse, OfParts
<1>. QED BY <1>7, <1>11

(* Its second minus is no digit, so that it is read as zero                 *)
(* (ParseDecimal::eval).                                                    *)
LEMMA LeastRead ==
    LET n == Least(DecimalBits)
    IN  format(n) \in Seq(Int) /\ parse(format(n)) = 0
<1>1. PICK g \in Nat, p \in Nat \ {0} :
        g = Greatest(DecimalBits) /\ p = Pow /\ p <= g /\ Least(DecimalBits) = -g - 1
  BY Bases
<1>2. PICK n \in Int : n = Least(DecimalBits) /\ n = -g - 1 /\ n < 0
  BY <1>1
<1>3. Wrap(-n) = n
  <2>1. PICK q \in Nat \ {0} : q = Power(2, DecimalBits) /\ q = 2 * (g + 1)
    <3>1. 2 * (g + 1) \in Nat \ {0}
      OBVIOUS
    <3>. QED BY <1>1, <3>1, Bases
  <2>2. -n - n = 1 * q + 0
    BY <1>2, <2>1
  <2>3. (1 * q + 0) % q = 0
    BY DivMod, 0 \in 0..q - 1, 1 \in Int
  <2>4. Wrap(-n) = ((-n - n) % q) + n
    BY <1>2, <2>1 DEF Wrap, Wrapped
  <2>. QED BY <2>2, <2>3, <2>4
<1>4. PICK w \in Nat \ {0}, r \in 0..p - 1 :
        /\ Quotient(n, Pow) = -w /\ g + 1 = w * p + r /\ w <= g + 1
        /\ Remainder(n, Pow) = -r /\ (r = 0 => Remainder(n, Pow) = 0)
  <2>1. PICK d \in Int, r \in 0..p - 1 : d = (g + 1) \div p /\ g + 1 = d * p + r
    BY Division, g + 1 \in Int
  <2>2. d > 0
    <3>. SUFFICES ASSUME d <= 0 PROVE FALSE
      OBVIOUS
    <3>1. PICK e \in Nat : d = -e
      <4>1. -d \in Nat /\ d = -(-d)
        OBVIOUS
      <4>. QED BY <4>1
    <3>2. (-e) * p = -(e * p) /\ e * p \in Nat
      OBVIOUS
    <3>. QED BY <1>1, <2>1, <3>1, <3>2
  <2>3. Quotient(n, Pow) = -d
    <3>1. -n = g + 1 /\ ~(n >= 0) /\ p > 0 /\ ~(p < 0)
      BY <1>2
    <3>. QED BY <1>1, <1>2, <2>1, <3>1 DEF Quotient, Magnitude
  <2>4. Remainder(n, Pow) = -r /\ (r = 0 => Remainder(n, Pow) = 0)
    <3>1. Remainder(n, Pow) = n - p * (-d)
      BY <1>1, <2>3 DEF Remainder
    <3>2. p * (-d) = -(d * p)
      OBVIOUS
    <3>. QED BY <1>2, <2>1, <3>1, <3>2
  <2>5. d <= d * p
    BY <2>2, Sums, 1 \in Nat \ {0}, 0 \in Nat, d \in Nat
  <2>. QED BY <2>1, <2>2, <2>3, <2>4, <2>5
<1>5. PICK dash \in Seq(Int) : dash = <<Minus>> /\ Len(dash) = 1 /\ dash[1] = Minus
  BY Marks, OneOf
<1>6. \A k \in Nat : k <= g + 1 => Printed(k) \in Seq(Int) /\ (k > 0 => Printed(-k) = dash \o Printed(k))
  <2>. SUFFICES ASSUME NEW k \in Nat, k <= g + 1
       PROVE  Printed(k) \in Seq(Int) /\ (k > 0 => Printed(-k) = dash \o Printed(k))
    OBVIOUS
  <2>1. k <= -Least(DecimalBits)
    BY <1>1
  <2>. QED BY <1>5, <2>1, PrintedIs, DigitsAreNumbers
<1>7. PICK fs \in Seq(Int) : fs = Printed(Remainder(n, Pow))
  <2>1. r \in Nat /\ r <= g + 1
    BY <1>1
  <2>2. Printed(Remainder(n, Pow)) \in Seq(Int)
    <3>1. CASE r = 0
      <4>1. 0 \in Nat /\ 0 <= g + 1
        OBVIOUS
      <4>2. Printed(0) \in Seq(Int)
        BY <1>6, <4>1
      <4>. QED BY <1>4, <3>1, <4>2
    <3>2. CASE r # 0
      <4>1. Printed(-r) = dash \o Printed(r) /\ Printed(r) \in Seq(Int)
        BY <1>6, <2>1, <3>2
      <4>. QED BY <1>4, <4>1, ConcatProperties
    <3>. QED BY <3>1, <3>2
  <2>. QED BY <1>4, <2>2
<1>8. PICK d \in Seq(Int) : Printed(Quotient(n, Pow)) = dash \o d
  <2>1. w > 0 /\ w <= g + 1 /\ w \in Nat
    BY <1>4
  <2>. QED BY <1>4, <1>6, <2>1
<1>9. PICK after \in Seq(Int) : after = WrittenAfter(fs)
  BY WrittenAfterIs
<1>10. PICK x \in Seq(Int) : x = dash \o d /\ Len(x) > 0 /\ x[1] = Minus
  <2>1. PICK k \in Nat : k = Len(d)
    BY LenProperties
  <2>2. /\ dash \o d \in Seq(Int) /\ Len(dash \o d) = 1 + k
        /\ \A i \in 1..1 + k : (dash \o d)[i] = IF i <= 1 THEN dash[i] ELSE d[i - 1]
    BY <1>5, <2>1, ConcatProperties
  <2>3. 1 \in 1..1 + k /\ 1 <= 1 /\ 1 + k > 0
    OBVIOUS
  <2>4. PICK e \in Seq(Int) : e = dash \o d
    BY <2>2
  <2>5. Len(e) > 0
    BY <2>2, <2>3, <2>4
  <2>6. e[1] = dash[1]
    <3>1. e[1] = IF 1 <= 1 THEN dash[1] ELSE d[1 - 1]
      BY <2>2, <2>3, <2>4
    <3>. QED BY <3>1, <2>3
  <2>. QED BY <1>5, <2>4, <2>5, <2>6
<1>11. PICK u \in Seq(Int) : u = x \o after /\ Len(u) > 0 /\ u[1] = Minus
  <2>1. PICK k \in Nat, l \in Nat \ {0} : k = Len(after) /\ l = Len(x)
    BY <1>10, LenProperties
  <2>2. /\ x \o after \in Seq(Int) /\ Len(x \o after) = l + k
        /\ \A i \in 1..l + k : (x \o after)[i] = IF i <= l THEN x[i] ELSE after[i - l]
    BY <2>1, ConcatProperties
  <2>3. 1 \in 1..l + k /\ 1 <= l /\ l + k > 0
    OBVIOUS
  <2>4. PICK e \in Seq(Int) : e = x \o after
    BY <2>2
  <2>5. Len(e) > 0
    BY <2>2, <2>3, <2>4
  <2>6. e[1] = x[1]
    <3>1. e[1] = IF 1 <= l THEN x[1] ELSE after[1 - l]
      BY <2>2, <2>3, <2>4
    <3>. QED BY <3>1, <2>3
  <2>. QED BY <1>10, <2>4, <2>5, <2>6
<1>12. format(n) = dash \o u
  <2>1. n = (IF n < 0 THEN Wrap(-n) ELSE n) /\ dash = (IF n < 0 THEN <<Minus>> ELSE <<>>)
    BY <1>2, <1>3, <1>5
  <2>2. format(n) = (dash \o x) \o after
    BY <1>7, <1>8, <1>9, <1>10, <2>1, FormatUnfolds
  <2>3. (dash \o x) \o after = dash \o (x \o after)
    BY Regroup
  <2>. QED BY <1>11, <2>2, <2>3
<1>13. dash \o u \in Seq(Int)
  BY ConcatProperties
<1>14. parse(format(n)) = OfParts(-1, <<>>, <<>>)
  BY <1>5, <1>11, <1>12, TwoSigns
<1>15. OfParts(-1, <<>>, <<>>) = 0
  <2>1. PICK e \in Seq(Digit) : e = <<>> /\ Len(e) = 0 /\ e \o e = e
    BY EmptySeq, ConcatEmptySeq
  <2>2. Power(Base, 0) = 1
    BY Bases, PowerSteps, Base \in Int, 0 \in Nat
  <2>3. (Exactly(e \o e) * Pow) \div Power(Base, Len(e)) = 0
    <3>1. Exactly(e \o e) = 0 /\ 0 * p = 0
      BY <2>1, ExactlyEmpty
    <3>2. (0 * 1 + 0) \div 1 = 0 /\ 0 * 1 + 0 = 0
      BY DivMod, 1 \in Nat \ {0}, 0 \in 0..1 - 1, 0 \in Int
    <3>. QED BY <1>1, <2>1, <2>2, <3>1, <3>2
  <2>4. OfParts(-1, e, e) = (-1) * 0
    BY <1>1, <2>3, PartsValue, 0 <= g, -1 \in {-1, 1}
  <2>. QED BY <2>1, <2>4
<1>. QED BY <1>2, <1>12, <1>13, <1>14, <1>15

(* Two sequences of digits, if together they are one,                       *)
LEMMA AllDigits ==
    ASSUME NEW a \in Seq(Int), NEW b \in Seq(Int), Range(a \o b) \subseteq Digit
    PROVE  a \in Seq(Digit) /\ b \in Seq(Digit)
<1>1. Range(a \o b) = Range(a) \cup Range(b)
  BY RangeConcatenation
<1>2. Range(a) \subseteq Digit /\ Range(b) \subseteq Digit
  BY <1>1
<1>3. a \in Seq(Range(a)) /\ b \in Seq(Range(b))
  BY SeqOfRange
<1>4. a \in Seq(Digit)
  BY <1>2, <1>3, SeqMonotonic
<1>5. b \in Seq(Digit)
  BY <1>2, <1>3, SeqMonotonic
<1>. QED BY <1>4, <1>5

(* and parts of a text.                                                     *)
LEMMA PartsOfText ==
    ASSUME NEW t \in Seq(Int), NEW lo \in Int, NEW hi \in Int, 1 <= lo, hi <= Len(t)
    PROVE  SubSeq(t, lo, hi) \in Seq(Int) /\ Len(SubSeq(t, lo, hi)) = IF lo <= hi THEN hi - lo + 1 ELSE 0
<1>1. PICK n \in Nat : n = Len(t)
  BY LenProperties
<1>2. \A i \in lo..hi : i \in 1..n
  BY <1>1
<1>3. \A i \in lo..hi : t[i] \in Int
  BY <1>1, <1>2, ElementOfSeq
<1>. QED BY <1>3, SubSeqProperties

(* A text that is a number, with j digits after the dot or no dot.          *)
NumberText(t, sign, whole, frac, j) ==
    t = sign \o whole \o (IF j = 0 THEN <<>> ELSE <<Dot>> \o frac)

(* It is read as that number, cut off, unless that is too large.            *)
LEMMA ReadsOne ==
    ASSUME NEW t, NEW sign \in Signs, NEW whole \in Seq(Digit), NEW frac \in Seq(Digit),
           NEW j, j = Len(frac), NumberText(t, sign, whole, frac, j),
           NEW size, size = (Exactly(whole \o frac) * Pow) \div Power(Base, j),
           size <= Greatest(DecimalBits)
    PROVE  parse(t) = IF sign = <<Minus>> THEN -size ELSE size
<1>1. PICK dotted \in BOOLEAN : dotted = (j # 0)
  OBVIOUS
<1>2. ~dotted => frac = <<>>
  BY <1>1, EmptySeq
<1>3. PICK after \in Seq(Int) : after = AfterWhole(dotted, frac)
  BY AfterWholeIs
<1>4. after = IF j = 0 THEN <<>> ELSE <<Dot>> \o frac
  BY <1>1, <1>3 DEF AfterWhole
<1>5. t = (sign \o whole) \o after
  BY <1>4 DEF NumberText
<1>6. sign \in Seq(Int) /\ whole \in Seq(Int)
  BY SignsAre, DigitsAreNumbers
<1>7. sign \o (whole \o after) = (sign \o whole) \o after
  BY <1>3, <1>6, Regroup
<1>8. IsWritten(t, sign, whole, dotted, frac)
  BY <1>2, <1>3, <1>5, <1>7 DEF IsWritten
<1>9. parse(t) = OfParts(SignOf(sign), whole, frac)
  BY <1>8, ParseIs
<1>10. PICK sg \in {-1, 1} : sg = SignOf(sign)
  BY DEF SignOf
<1>11. OfParts(sg, whole, frac) = sg * size /\ size \in Nat
  BY PartsValue
<1>12. CASE sign = <<Minus>>
  <2>1. sg = -1
    BY <1>10, <1>12 DEF SignOf
  <2>2. (-1) * size = -size
    BY <1>11
  <2>. QED BY <1>9, <1>10, <1>11, <1>12, <2>1, <2>2
<1>13. CASE sign # <<Minus>>
  <2>1. sg = 1
    BY <1>10, <1>13 DEF SignOf
  <2>2. 1 * size = size
    BY <1>11
  <2>. QED BY <1>9, <1>10, <1>11, <1>13, <2>1, <2>2
<1>. QED BY <1>12, <1>13

(* What is written is a text, *)
LEMMA FormatIsText ==
    ASSUME NEW n \in Numbers
    PROVE  format(n) \in Seq(Int)
BY FormatRead, LeastRead

(* so that only texts are read.                                             *)
LEMMA ParsedTexts ==
    ASSUME CallsInv, NEW c \in Evaluated("parse")
    PROVE  c.in \in Seq(Int) /\ c.out = parse(c.in)
<1>1. c.f = "parse" /\ (IsCall(c) \/ \E b : IsCall(b) /\ ReadAgain(b, c))
  BY EvaluatedIs
<1>2. CASE IsCall(c)
  <2>1. PICK t \in DecimalTexts : c = Call("parse", t, parse(t))
    BY <1>1, <1>2 DEF IsCall, Call
  <2>. QED BY <2>1, DecimalTextsAssumption DEF Call
<1>3. ASSUME NEW b, IsCall(b), ReadAgain(b, c) PROVE c.in \in Seq(Int) /\ c.out = parse(c.in)
  <2>1. PICK n \in Numbers : b = Call("format", n, format(n))
    BY <1>3 DEF IsCall, ReadAgain, Call
  <2>2. b.out = format(n) /\ c = Call("parse", b.out, parse(b.out))
    BY <1>3, <2>1 DEF ReadAgain, Call
  <2>3. c.in = format(n) /\ c.out = parse(format(n))
    BY <2>2 DEF Call
  <2>. QED BY <2>3, FormatIsText
<1>. QED BY <1>1, <1>2, <1>3

(* Reading, *)
LEMMA ReadsHolds == CallsInv => ReadsTheNumber
<1>. SUFFICES ASSUME CallsInv, NEW c \in Evaluated("parse"), NEW sign \in Signs,
              NEW i \in 0..Len(c.in) - Len(sign), NEW j \in 0..Len(c.in)
     PROVE  LET whole == SubSeq(c.in, Len(sign) + 1, Len(sign) + i)
                frac  == SubSeq(c.in, Len(c.in) - j + 1, Len(c.in))
                size  == (Exactly(whole \o frac) * Pow) \div Power(Base, j)
            IN  /\ c.in = sign \o whole \o (IF j = 0 THEN <<>> ELSE <<Dot>> \o frac)
                /\ Range(whole \o frac) \subseteq Digit
                /\ size <= Greatest(DecimalBits)
                => c.out = IF sign = <<Minus>> THEN -size ELSE size
  BY DEF ReadsTheNumber, Signs
<1>1. PICK t \in Seq(Int) : t = c.in /\ c.out = parse(t)
  BY ParsedTexts
<1>2. PICK n \in Nat : n = Len(t)
  BY LenProperties
<1>3. PICK l \in Nat : l = Len(sign)
  BY SignsAre
<1>4. i \in 0..n - l /\ j \in 0..n
  BY <1>1, <1>2, <1>3
<1>5. 1 <= l + 1 /\ l + i <= n /\ 1 <= n - j + 1 /\ n <= n
  BY <1>4
<1>6. PICK whole \in Seq(Int) : whole = SubSeq(t, l + 1, l + i)
  <2>1. PICK lo \in Int, hi \in Int : lo = l + 1 /\ hi = l + i /\ 1 <= lo /\ hi <= Len(t)
    BY <1>2, <1>4, <1>5
  <2>2. SubSeq(t, lo, hi) \in Seq(Int)
    BY <2>1, PartsOfText
  <2>. QED BY <2>1, <2>2
<1>7. PICK frac \in Seq(Int) : frac = SubSeq(t, n - j + 1, n) /\ Len(frac) = j
  <2>1. PICK lo \in Int : lo = n - j + 1 /\ 1 <= lo /\ (IF lo <= n THEN n - lo + 1 ELSE 0) = j
    BY <1>4, <1>5
  <2>2. n \in Int /\ n <= Len(t)
    BY <1>2
  <2>3. SubSeq(t, lo, n) \in Seq(Int) /\ Len(SubSeq(t, lo, n)) = IF lo <= n THEN n - lo + 1 ELSE 0
    BY <2>1, <2>2, PartsOfText
  <2>. QED BY <2>1, <2>3
<1>8. PICK size : size = (Exactly(whole \o frac) * Pow) \div Power(Base, j)
  OBVIOUS
<1>9. ASSUME NumberText(t, sign, whole, frac, j), Range(whole \o frac) \subseteq Digit,
             size <= Greatest(DecimalBits)
      PROVE  parse(t) = IF sign = <<Minus>> THEN -size ELSE size
  <2>1. whole \in Seq(Digit) /\ frac \in Seq(Digit)
    BY <1>9, AllDigits
  <2>. QED BY <1>7, <1>8, <1>9, <2>1, ReadsOne
<1>. QED BY <1>1, <1>2, <1>3, <1>6, <1>7, <1>8, <1>9 DEF NumberText

(* writing and reading back, *)
LEMMA WrittenHolds == CallsInv => WrittenIsRead
<1>. SUFFICES ASSUME CallsInv, Len(calls) = 2, calls[1].f = "format"
     PROVE  calls[2].out = IF calls[1].in = Least(DecimalBits) THEN 0 ELSE calls[1].in
  BY DEF WrittenIsRead
<1>1. PICK c, d : IsCall(c) /\ (ReadAgain(c, d) \/ TwoPoints(c, d)) /\ calls = <<c, d>>
  BY DEF CallsInv
<1>2. calls[1] = c /\ calls[2] = d
  BY <1>1
<1>3. ReadAgain(c, d) /\ c.f = "format"
  BY <1>1, <1>2 DEF TwoPoints
<1>4. PICK n \in Numbers : c = Call("format", n, format(n))
  BY <1>1, <1>3 DEF IsCall, Call
<1>5. c.in = n /\ c.out = format(n)
  BY <1>4 DEF Call
<1>6. d.out = parse(format(n))
  BY <1>3, <1>5 DEF ReadAgain, Call
<1>. QED BY <1>2, <1>5, <1>6, FormatRead, LeastRead

(* and multiplying.                                                         *)
LEMMA MulHolds == CallsInv => MulTruncates
<1>. SUFFICES ASSUME CallsInv, NEW c \in Evaluated("mul"), FitsIn(c.in[1] * c.in[2], DecimalBits)
     PROVE  LET product == c.in[1] * c.in[2]
                error   == product - c.out * Pow
            IN  /\ -Pow < error /\ error < Pow
                /\ product >= 0 => error >= 0
                /\ product <= 0 => error <= 0
  BY DEF MulTruncates
<1>1. c.f = "mul" /\ (IsCall(c) \/ \E b : ReadAgain(b, c))
  BY EvaluatedIs
<1>2. PICK a \in Numbers, b \in Numbers : c = Call("mul", <<a, b>>, Mul(a, b))
  BY <1>1 DEF IsCall, ReadAgain, Call
<1>3. c.in[1] = a /\ c.in[2] = b /\ c.out = Mul(a, b)
  BY <1>2 DEF Call
<1>4. PICK x \in Int : x = a * b
  <2>1. a \in Int /\ b \in Int
    BY NumbersAre
  <2>. QED BY <2>1
<1>5. Wrap(x) = x
  BY <1>3, <1>4, WrapFits DEF FitsIn
<1>6. c.out = Quotient(x, Pow)
  BY <1>3, <1>4, <1>5 DEF Mul
<1>7. PICK p \in Nat \ {0} : p = Pow
  BY Bases
<1>8. PICK z : z = x - Quotient(x, p) * p
  OBVIOUS
<1>9. /\ -p < z /\ z < p
      /\ x >= 0 => z >= 0
      /\ x <= 0 => z <= 0
  BY <1>8, Truncates
<1>. QED BY <1>3, <1>4, <1>6, <1>7, <1>8, <1>9

(* A decimal of any base, scale and width whose power fits keeps its value: *)
(* what format writes of any number parse reads back, but for the least     *)
(* number, which comes back as zero; any text that is a number is read as   *)
(* that number, cut off after the digits of the scale, unless it is too     *)
(* large; and a product that fits is the exact one cut off toward zero      *)
(* (ParseDecimal::eval, FormatDecimal::eval, DecimalMul::eval).             *)
THEOREM DecimalsStayRight == RowSpec => []DecimalsAreRight
<1>1. CallsInv => DecimalsAreRight
  BY ReadsHolds, WrittenHolds, MulHolds DEF DecimalsAreRight
<1>. QED BY <1>1, CallsAlways, PTL

-----------------------------------------------------------------------------
(* Words and the numbers they are.  The sum of a word is made bit by bit, *)
AddedBit(w, k) == IF k - 1 \in w THEN Power(2, k - 1) ELSE 0

LEMMA SumUnfolds ==
    ASSUME NEW w, NEW m \in Nat
    PROVE  \E f \in [0..m -> Int] :
             /\ f[m] = LowNumber(w, m) /\ f[0] = 0
             /\ \A k \in 1..m : f[k] = f[k - 1] + AddedBit(w, k)
<1>. DEFINE Unfolds(n) == n = [k \in 0..m |-> IF k = 0 THEN 0 ELSE n[k - 1] + AddedBit(w, k)]
<1>0. \A k \in 1..m : AddedBit(w, k) \in Int
  <2>. SUFFICES ASSUME NEW k \in 1..m PROVE AddedBit(w, k) \in Int
    OBVIOUS
  <2>1. k - 1 \in Nat /\ 2 \in Int
    OBVIOUS
  <2>. QED BY <2>1, PowerSteps DEF AddedBit
<1>1. PICK g \in [0..m -> Int] : g[0] = 0 /\ \A k \in 1..m : g[k] = g[k - 1] + AddedBit(w, k)
  <2>. DEFINE F == [k \in 1..m |-> [x \in Int |-> x + AddedBit(w, k)]]
  <2>0. 0 \in Int
    OBVIOUS
  <2>1. F \in [1..m -> [Int -> Int]]
    <3>1. \A k \in 1..m, x \in Int : x + AddedBit(w, k) \in Int
      BY <1>0
    <3>. QED BY <3>1, Zenon
  <2>2. \A k \in 1..m : \A x \in Int : F[k][x] = x + AddedBit(w, k)
    OBVIOUS
  <2>. HIDE DEF F
  <2>3. PICK g \in [0..m -> Int] : Rounds(g, m, 0, F)
    BY <2>0, <2>1, RoundsExist
  <2>4. \A k \in 1..m : k - 1 \in 0..m /\ g[k - 1] \in Int
    OBVIOUS
  <2>. QED BY <2>2, <2>3, <2>4 DEF Rounds
<1>2. Unfolds(g)
  BY <1>1
<1>3. PICK f : f = (CHOOSE n : Unfolds(n)) /\ LowNumber(w, m) = f[m]
  BY DEF LowNumber, AddedBit
<1>4. Unfolds(f)
  <2>. HIDE DEF Unfolds
  <2>. QED BY <1>2, <1>3
<1>5. f[0] = 0 /\ \A k \in 1..m : f[k] = f[k - 1] + AddedBit(w, k)
  BY <1>4
<1>6. f \in [0..m -> Int]
  <2>1. DOMAIN f = 0..m /\ f = [k \in 0..m |-> f[k]]
    BY <1>4
  <2>2. \A k \in 1..m : f[k - 1] \in Int => f[k] \in Int
    BY <1>0, <1>5
  <2>3. f[0] \in Int
    BY <1>5
  <2>4. \A k \in 0..m : f[k] \in Int
    BY <2>2, <2>3, EveryRound
  <2>. QED BY <2>1, <2>4
<1>. QED BY <1>3, <1>5, <1>6

(* so that a further bit adds its power.                                    *)
LEMMA SumSteps ==
    ASSUME NEW w, NEW m \in Nat
    PROVE  /\ LowNumber(w, m) \in Int /\ LowNumber(w, 0) = 0
           /\ LowNumber(w, m + 1) = LowNumber(w, m) + (IF m \in w THEN Power(2, m) ELSE 0)
<1>1. PICK p \in [0..m -> Int] : p[m] = LowNumber(w, m) /\ p[0] = 0 /\ \A k \in 1..m : p[k] = p[k - 1] + AddedBit(w, k)
  BY SumUnfolds
<1>2. PICK z \in [0..0 -> Int] : z[0] = LowNumber(w, 0) /\ z[0] = 0
  BY SumUnfolds, 0 \in Nat
<1>3. PICK q \in [0..m + 1 -> Int] : /\ q[m + 1] = LowNumber(w, m + 1) /\ q[0] = 0
                                     /\ \A k \in 1..m + 1 : q[k] = q[k - 1] + AddedBit(w, k)
  BY SumUnfolds, m + 1 \in Nat
<1>4. AddedBit(w, m + 1) = IF m \in w THEN Power(2, m) ELSE 0
  <2>1. (m + 1) - 1 = m
    OBVIOUS
  <2>. QED BY <2>1 DEF AddedBit
<1>. DEFINE P == {k \in 0..m : p[k] = q[k]}
<1>5. 0 \in P
  BY <1>1, <1>3
<1>6. ASSUME NEW k \in 0..m, k \in P, k < m PROVE k + 1 \in P
  <2>1. k + 1 \in 1..m /\ k + 1 \in 1..m + 1 /\ (k + 1) - 1 = k
    BY <1>6
  <2>2. p[k + 1] = p[k] + AddedBit(w, k + 1) /\ q[k + 1] = q[k] + AddedBit(w, k + 1)
    BY <1>1, <1>3, <2>1
  <2>. QED BY <1>6, <2>1, <2>2
<1>7. m \in P
  <2>1. 0..m \subseteq P
    <3>. HIDE DEF P
    <3>. QED BY <1>5, <1>6, UpToN
  <2>. QED BY <2>1
<1>8. p[m] = q[m] /\ p[m] \in Int
  BY <1>7
<1>9. q[m + 1] = q[m] + AddedBit(w, m + 1)
  <2>1. m + 1 \in 1..m + 1 /\ (m + 1) - 1 = m
    OBVIOUS
  <2>. QED BY <1>3, <2>1
<1>. QED BY <1>1, <1>2, <1>3, <1>4, <1>8, <1>9

(* Powers of two double. *)
LEMMA Doubles ==
    ASSUME NEW k \in Nat
    PROVE  /\ Power(2, k) \in Nat \ {0} /\ Power(2, 0) = 1
           /\ Power(2, k + 1) = 2 * Power(2, k)
BY PowerPositive, PowerSteps, 2 \in Nat \ {0}, 2 \in Int

(* The low bits of a word are a number below the next power, *)
LEMMA SumBound ==
    ASSUME NEW w, NEW m \in Nat
    PROVE  LowNumber(w, m) \in Nat /\ LowNumber(w, m) < Power(2, m)
<1>. DEFINE P == {k \in 0..m : LowNumber(w, k) \in Nat /\ LowNumber(w, k) < Power(2, k)}
<1>1. 0 \in P
  BY SumSteps, Doubles, 0 \in Nat
<1>2. ASSUME NEW k \in 0..m, k \in P, k < m PROVE k + 1 \in P
  <2>1. k \in Nat /\ k + 1 \in 0..m
    BY <1>2
  <2>2. PICK s \in Nat, p \in Nat \ {0} : s = LowNumber(w, k) /\ p = Power(2, k) /\ s < p
    BY <1>2, <2>1, Doubles
  <2>3. LowNumber(w, k + 1) = s + (IF k \in w THEN p ELSE 0)
    BY <2>1, <2>2, SumSteps
  <2>4. Power(2, k + 1) = 2 * p
    BY <2>1, <2>2, Doubles
  <2>5. s + p \in Nat /\ s + p < 2 * p /\ s + 0 \in Nat /\ s + 0 < 2 * p
    BY <2>2
  <2>. QED BY <2>1, <2>3, <2>4, <2>5
<1>3. 0..m \subseteq P
  <2>. HIDE DEF P
  <2>. QED BY <1>1, <1>2, UpToN
<1>4. m \in P
  <2>. HIDE DEF P
  <2>. QED BY <1>3
<1>. QED BY <1>4

(* The bit of a number at a place. *)
BitAt(x, k) == (x \div Power(2, k)) % 2 = 1

(* It does not change with what is added at higher places, *)
LEMMA HigherPart ==
    ASSUME NEW x \in Int, NEW k \in Nat, NEW m \in Nat, k < m, NEW c \in Int
    PROVE  BitAt(x + c * Power(2, m), k) <=> BitAt(x, k)
<1>1. PICK p \in Nat \ {0} : p = Power(2, k)
  BY Doubles
<1>2. PICK j \in Nat : j = m - (k + 1) /\ m = (k + 1) + j
  <2>1. m - (k + 1) \in Nat /\ m = (k + 1) + (m - (k + 1))
    OBVIOUS
  <2>. QED BY <2>1
<1>3. PICK q \in Nat \ {0} : q = Power(2, j)
  BY Doubles
<1>4. Power(2, m) = (2 * p) * q
  <2>1. Power(2, (k + 1) + j) = Power(2, k + 1) * Power(2, j)
    BY PowerAdds, 2 \in Int, k + 1 \in Nat
  <2>. QED BY <1>1, <1>2, <1>3, <2>1, Doubles
<1>5. PICK e \in Int : e = c * q /\ c * Power(2, m) = (2 * e) * p
  <2>1. c * q \in Int
    OBVIOUS
  <2>2. PICK e \in Int : e = c * q
    BY <2>1
  <2>3. c * ((2 * p) * q) = (2 * p) * (c * q)
    BY Associates, 2 * p \in Int, q \in Int
  <2>4. (2 * p) * e = (2 * e) * p
    OBVIOUS
  <2>. QED BY <1>4, <2>2, <2>3, <2>4
<1>6. PICK d \in Int, r \in 0..p - 1 : d = x \div p /\ x = d * p + r
  BY Division
<1>7. x + (2 * e) * p = (d + 2 * e) * p + r
  <2>1. (d + 2 * e) * p = d * p + (2 * e) * p
    OBVIOUS
  <2>. QED BY <1>6, <2>1
<1>8. (x + (2 * e) * p) \div p = d + 2 * e
  BY <1>7, DivMod, d + 2 * e \in Int
<1>9. (d + 2 * e) % 2 = d % 2
  OBVIOUS
<1>. QED BY <1>1, <1>5, <1>6, <1>8, <1>9 DEF BitAt

(* and of a number below the next power with that power added or not, it is that. *)
LEMMA TopBit ==
    ASSUME NEW k \in Nat, NEW s \in Nat, s < Power(2, k)
    PROVE  /\ ~BitAt(s, k)
           /\ BitAt(s + Power(2, k), k)
<1>1. PICK p \in Nat \ {0} : p = Power(2, k) /\ s \in 0..p - 1
  BY Doubles
<1>2. (0 * p + s) \div p = 0 /\ (1 * p + s) \div p = 1
  BY <1>1, DivMod, 0 \in Int, 1 \in Int
<1>3. 0 * p + s = s /\ 1 * p + s = s + p
  BY <1>1
<1>4. 0 % 2 = 0 /\ 1 % 2 = 1
  OBVIOUS
<1>5. s \div p = 0 /\ (s + p) \div p = 1
  BY <1>2, <1>3
<1>. QED BY <1>1, <1>4, <1>5 DEF BitAt

(* So the bits of the number are those of the word.                         *)
LEMMA BitsOfSum ==
    ASSUME NEW w, NEW m \in Nat
    PROVE  \A k \in 0..m - 1 : BitAt(LowNumber(w, m), k) <=> k \in w
<1>. DEFINE P == {n \in 0..m : \A k \in 0..n - 1 : BitAt(LowNumber(w, n), k) <=> k \in w}
<1>1. 0 \in P
  OBVIOUS
<1>2. ASSUME NEW n \in 0..m, n \in P, n < m PROVE n + 1 \in P
  <2>1. n \in Nat /\ n + 1 \in 0..m
    BY <1>2
  <2>2. PICK s \in Nat, p \in Nat \ {0} : s = LowNumber(w, n) /\ p = Power(2, n) /\ s < p
    BY <2>1, SumBound, Doubles
  <2>3. PICK t : t = LowNumber(w, n + 1) /\ t = s + (IF n \in w THEN p ELSE 0)
    BY <2>1, <2>2, SumSteps
  <2>4. BitAt(t, n) <=> n \in w
    <3>1. ~BitAt(s, n) /\ BitAt(s + p, n)
      BY <2>1, <2>2, TopBit
    <3>2. s + 0 = s
      OBVIOUS
    <3>. QED BY <2>3, <3>1, <3>2
  <2>5. ASSUME NEW k \in 0..n - 1 PROVE BitAt(t, k) <=> k \in w
    <3>1. BitAt(s, k) <=> k \in w
      BY <1>2, <2>2, <2>5
    <3>2. BitAt(s + 1 * p, k) <=> BitAt(s, k)
      BY <2>1, <2>2, <2>5, HigherPart, 1 \in Int, k \in Nat, k < n, s \in Int
    <3>3. s + 1 * p = s + p /\ s + 0 = s
      OBVIOUS
    <3>. QED BY <2>3, <3>1, <3>2, <3>3
  <2>6. \A k \in 0..(n + 1) - 1 : k = n \/ k \in 0..n - 1
    BY <2>1
  <2>. QED BY <2>1, <2>3, <2>4, <2>5, <2>6
<1>3. 0..m \subseteq P
  <2>. HIDE DEF P
  <2>. QED BY <1>1, <1>2, UpToN
<1>4. m \in P
  <2>. HIDE DEF P
  <2>. QED BY <1>3
<1>. QED BY <1>4

-----------------------------------------------------------------------------
(* Numbers that wrap differ by a multiple of the power, *)
LEMMA WrapsAway ==
    ASSUME NEW x \in Int, NEW m \in Nat \ {0}
    PROVE  \E c \in Int : Wrapped(x, m) = x + c * Power(2, m)
<1>1. PICK n \in Nat : n = m - 1 /\ m = n + 1
  <2>1. m - 1 \in Nat /\ m = (m - 1) + 1
    OBVIOUS
  <2>. QED BY <2>1
<1>2. PICK h \in Nat \ {0}, p \in Nat \ {0} : h = Power(2, n) /\ p = Power(2, m)
  BY Doubles, m \in Nat
<1>3. Wrapped(x, m) = ((x + h) % p) + (-h)
  <2>1. Least(m) = -h
    BY <1>1, <1>2 DEF Least
  <2>2. x - (-h) = x + h
    OBVIOUS
  <2>. QED BY <1>2, <2>1, <2>2 DEF Wrapped
<1>4. PICK d \in Int, r \in 0..p - 1 : r = (x + h) % p /\ x + h = d * p + r
  BY Division, x + h \in Int
<1>5. PICK c \in Int : c = -d
  OBVIOUS
<1>6. c * p = -(d * p)
  BY <1>5
<1>7. Wrapped(x, m) = x + c * p
  <2>1. Wrapped(x, m) = r + (-h)
    BY <1>3, <1>4
  <2>2. PICK y \in Int : y = d * p
    OBVIOUS
  <2>3. r + (-h) = x + (-y)
    BY <1>4, <2>2
  <2>. QED BY <1>6, <2>1, <2>2, <2>3
<1>. QED BY <1>2, <1>7

(* and those that fit do not wrap.                                          *)
LEMMA WrapsNot ==
    ASSUME NEW m \in Nat, NEW x \in Nat, x < Power(2, m)
    PROVE  Wrapped(x, m + 1) = x
<1>1. PICK h \in Nat \ {0} : h = Power(2, m)
  BY Doubles
<1>2. Power(2, m + 1) = 2 * h /\ 2 * h \in Nat \ {0}
  BY <1>1, Doubles
<1>3. (m + 1) - 1 = m
  OBVIOUS
<1>4. Wrapped(x, m + 1) = ((x + h) % (2 * h)) + (-h)
  <2>1. Least(m + 1) = -h
    BY <1>1, <1>3 DEF Least
  <2>2. x - (-h) = x + h
    OBVIOUS
  <2>. QED BY <1>2, <2>1, <2>2 DEF Wrapped
<1>5. PICK p \in Nat \ {0} : p = 2 * h
  BY <1>2
<1>6. PICK r \in 0..p - 1 : r = x + h
  BY <1>1, <1>5
<1>7. (0 * p + r) % p = r /\ 0 * p + r = r
  BY DivMod, 0 \in Int
<1>. QED BY <1>4, <1>5, <1>6, <1>7

(* The sizes. *)
LEMMA Sizes ==
    /\ Half \in Nat \ {0} /\ 2 * Half \in Nat \ {0} /\ Len(Shifts) \in Nat
    /\ Half = Power(2, Len(Shifts))
    /\ \A i \in 1..Len(Shifts) : Shifts[i] = Power(2, Len(Shifts) - i)
<1>1. PICK n : n = Len(Shifts)
  OBVIOUS
<1>2. n \in Nat /\ Half = Power(2, n) /\ Shifts = [i \in 1..n |-> Power(2, n - i)]
  BY <1>1, ZOrderAssumption
<1>3. Half \in Nat \ {0}
  BY <1>2, Doubles
<1>4. 2 * Half \in Nat \ {0}
  BY <1>3
<1>5. \A i \in 1..n : Shifts[i] = Power(2, n - i)
  BY <1>2
<1>. QED BY <1>1, <1>2, <1>3, <1>4, <1>5

LEMMA BitsAre ==
    ASSUME NEW x
    PROVE  \A k \in Full : k \in BitsOf(x) <=> BitAt(x, k)
BY DEF BitsOf, BitAt

(* A word that is pushed as an integer keeps its bits.                      *)
LEMMA WordsKeepBits ==
    ASSUME NEW w \in SUBSET Full
    PROVE  BitsOf(SignedWord(w)) = w
<1>1. PICK m \in Nat \ {0} : m = 2 * Half /\ Full = 0..m - 1
  BY Sizes DEF Full
<1>2. PICK s \in Int : s = LowNumber(w, m)
  BY SumBound, m \in Nat
<1>3. PICK c \in Int : SignedWord(w) = s + c * Power(2, m)
  BY <1>1, <1>2, WrapsAway DEF SignedWord
<1>4. ASSUME NEW k \in Full PROVE k \in BitsOf(SignedWord(w)) <=> k \in w
  <2>1. k \in Nat /\ k < m /\ k \in 0..m - 1 /\ m \in Nat
    BY <1>1
  <2>2. BitAt(s, k) <=> k \in w
    BY <1>2, <2>1, BitsOfSum
  <2>3. BitAt(s + c * Power(2, m), k) <=> BitAt(s, k)
    BY <2>1, HigherPart
  <2>. QED BY <1>3, <2>2, <2>3, BitsAre
<1>5. BitsOf(SignedWord(w)) \subseteq Full
  BY DEF BitsOf
<1>. QED BY <1>4, <1>5

-----------------------------------------------------------------------------
(* Spreading.  While blocks of s bits are kept together, bit b is at a place *)
(* twice as far for what is whole blocks of it;                             *)
PlaceIn(b, s) == (b \div s) * (2 * s) + (b % s)
PlacesIn(w, s) == {PlaceIn(b, s) : b \in w}

Blocks(b, s, d, r) == d \in Int /\ r \in 0..s - 1 /\ b = d * s + r

LEMMA InBlocks ==
    ASSUME NEW s \in Nat \ {0}, NEW b, NEW d, NEW r, Blocks(b, s, d, r)
    PROVE  PlaceIn(b, s) = d * (2 * s) + r /\ b \div s = d
BY DivMod DEF PlaceIn, Blocks

(* with blocks of half the size it stays where it is, or moves s up, and    *)
(* what is not its place the mask clears,                                   *)
LEMMA PlaceHalves ==
    ASSUME NEW s \in Nat \ {0}, NEW b \in Nat, NEW a, a = PlaceIn(b, 2 * s)
    PROVE  /\ a \in Nat /\ PlaceIn(b, s) \in {a, a + s}
           /\ (a \div s) % 2 = 0 <=> PlaceIn(b, s) = a
           /\ ((a + s) \div s) % 2 = 0 <=> PlaceIn(b, s) = a + s
<1>1. PICK t \in Nat \ {0} : t = 2 * s
  <2>1. 2 * s \in Nat \ {0}
    OBVIOUS
  <2>. QED BY <2>1
<1>2. PICK d \in Int, r \in 0..t - 1 : b = d * t + r /\ d \in Nat
  <2>1. PICK d \in Int, r \in 0..t - 1 : b = d * t + r
    BY Division, b \in Int
  <2>2. d >= 0
    <3>. SUFFICES ASSUME d <= -1 PROVE FALSE
      OBVIOUS
    <3>1. PICK e \in Nat : d = -(e + 1)
      <4>1. -d - 1 \in Nat /\ d = -((-d - 1) + 1)
        OBVIOUS
      <4>. QED BY <4>1
    <3>2. d * t = -(e * t) - t /\ e * t \in Nat
      BY <3>1
    <3>. QED BY <2>1, <3>2
  <2>. QED BY <2>1, <2>2
<1>3. a = d * (2 * t) + r
  <2>1. Blocks(b, t, d, r)
    BY <1>2 DEF Blocks
  <2>. QED BY <1>1, <2>1, InBlocks
<1>4. PICK u \in Nat : u = d * s
  BY <1>2
<1>5. d * (2 * t) = 4 * u /\ d * t = 2 * u
  BY <1>1, <1>4
<1>6. a = 4 * u + r /\ b = 2 * u + r /\ a \in Nat
  BY <1>2, <1>3, <1>4, <1>5
<1>7. CASE r < s
  <2>1. PICK e \in Int, f \in Int, g \in Int : e = 2 * d /\ f = 4 * d /\ g = 4 * d + 1
    OBVIOUS
  <2>2. Blocks(b, s, e, r) /\ Blocks(a, s, f, r) /\ Blocks(a + s, s, g, r)
    <3>1. r \in 0..s - 1
      BY <1>2, <1>7
    <3>2. b = (2 * d) * s + r /\ a = (4 * d) * s + r /\ a + s = (4 * d + 1) * s + r
      BY <1>4, <1>6
    <3>. QED BY <2>1, <3>1, <3>2 DEF Blocks
  <2>3. PlaceIn(b, s) = e * (2 * s) + r
    BY <2>2, InBlocks
  <2>4. (2 * d) * (2 * s) = 4 * u
    BY <1>4
  <2>5. PlaceIn(b, s) = a
    BY <1>6, <2>1, <2>3, <2>4
  <2>6. a \div s = f
    BY <2>2, InBlocks
  <2>7. (a + s) \div s = g
    BY <2>2, InBlocks
  <2>8. f % 2 = 0 /\ g % 2 = 1
    BY <2>1
  <2>9. a # a + s
    BY <1>6
  <2>. QED BY <1>6, <2>5, <2>6, <2>7, <2>8, <2>9
<1>8. CASE r >= s
  <2>1. PICK v \in 0..s - 1 : r = s + v
    <3>1. r - s \in 0..s - 1 /\ r = s + (r - s)
      BY <1>1, <1>8
    <3>. QED BY <3>1
  <2>2. PICK e \in Int, f \in Int, g \in Int : e = 2 * d + 1 /\ f = 4 * d + 1 /\ g = 4 * d + 2
    OBVIOUS
  <2>3. Blocks(b, s, e, v) /\ Blocks(a, s, f, v) /\ Blocks(a + s, s, g, v)
    <3>1. b = (2 * d + 1) * s + v /\ a = (4 * d + 1) * s + v /\ a + s = (4 * d + 2) * s + v
      BY <1>4, <1>6, <2>1
    <3>. QED BY <2>2, <3>1 DEF Blocks
  <2>4. PlaceIn(b, s) = e * (2 * s) + v
    BY <2>3, InBlocks
  <2>5. (2 * d + 1) * (2 * s) = 4 * u + s + s
    BY <1>4
  <2>6. PlaceIn(b, s) = a + s
    BY <1>6, <2>1, <2>2, <2>4, <2>5
  <2>7. a \div s = f
    BY <2>3, InBlocks
  <2>8. (a + s) \div s = g
    BY <2>3, InBlocks
  <2>9. f % 2 = 1 /\ g % 2 = 0
    BY <2>2
  <2>10. a # a + s
    BY <1>6
  <2>. QED BY <1>6, <2>6, <2>7, <2>8, <2>9, <2>10
<1>. QED BY <1>2, <1>7, <1>8

(* within the word.                                                         *)
LEMMA PlaceFits ==
    ASSUME NEW s \in Nat \ {0}, NEW b \in Nat, b < Half
    PROVE  PlaceIn(b, s) \in Full
<1>1. PICK d \in Int, r \in 0..s - 1 : b = d * s + r
  BY Division, b \in Int
<1>2. PlaceIn(b, s) = d * (2 * s) + r
  <2>1. Blocks(b, s, d, r)
    BY <1>1 DEF Blocks
  <2>. QED BY <2>1, InBlocks
<1>3. PICK u \in Int : u = d * s
  OBVIOUS
<1>4. d * (2 * s) = 2 * u
  BY <1>3
<1>5. u >= 0
  <2>. SUFFICES ASSUME d <= -1 PROVE FALSE
    <3>1. d >= 0 => d * s >= 0
      OBVIOUS
    <3>. QED BY <1>3, <3>1
  <2>1. PICK e \in Nat : d = -(e + 1)
    <3>1. -d - 1 \in Nat /\ d = -((-d - 1) + 1)
      OBVIOUS
    <3>. QED BY <3>1
  <2>2. d * s = -(e * s) - s /\ e * s \in Nat
    BY <2>1
  <2>. QED BY <1>1, <2>2
<1>6. 2 * u + r \in 0..2 * Half - 1
  <2>1. PICK h \in Nat : h = Half
    BY Sizes
  <2>2. u + r < h /\ u >= 0 /\ r >= 0
    BY <1>1, <1>3, <1>5, <2>1
  <2>3. 2 * u + r >= 0 /\ 2 * u + r <= 2 * h - 1 /\ 2 * u + r \in Int
    BY <2>2
  <2>. QED BY <2>1, <2>3
<1>. QED BY <1>2, <1>4, <1>6 DEF Full

(* So a step of expand_bits halves the blocks,                              *)
LEMMA SpreadHalves ==
    ASSUME NEW s \in Nat \ {0}, NEW w \in SUBSET (0..Half - 1)
    PROVE  Spread(PlacesIn(w, 2 * s), s) = PlacesIn(w, s)
<1>1. PICK t \in Nat \ {0} : t = 2 * s
  <2>1. 2 * s \in Nat \ {0}
    OBVIOUS
  <2>. QED BY <2>1
<1>2. ASSUME NEW b \in w
      PROVE  LET a == PlaceIn(b, t)
             IN  /\ PlaceIn(b, s) \in {a, a + s} /\ PlaceIn(b, s) \in Full
                 /\ a \in Mask(s) => PlaceIn(b, s) = a
                 /\ a + s \in Mask(s) => PlaceIn(b, s) = a + s
                 /\ PlaceIn(b, s) \in Mask(s)
  <2>1. b \in Nat /\ b < Half
    BY Sizes
  <2>2. PICK a : a = PlaceIn(b, 2 * s)
    OBVIOUS
  <2>3. /\ a \in Nat /\ PlaceIn(b, s) \in {a, a + s}
        /\ (a \div s) % 2 = 0 <=> PlaceIn(b, s) = a
        /\ ((a + s) \div s) % 2 = 0 <=> PlaceIn(b, s) = a + s
    BY <2>1, <2>2, PlaceHalves
  <2>4. PlaceIn(b, s) \in Full
    BY <2>1, PlaceFits
  <2>5. \A k \in Full : k \in Mask(s) <=> (k \div s) % 2 = 0
    BY DEF Mask
  <2>6. \A k : k \in Mask(s) => (k \div s) % 2 = 0
    BY DEF Mask
  <2>. QED BY <1>1, <2>2, <2>3, <2>4, <2>5, <2>6
<1>3. ASSUME NEW k \in Spread(PlacesIn(w, t), s) PROVE k \in PlacesIn(w, s)
  <2>1. k \in Mask(s) /\ (k \in PlacesIn(w, t) \/ \E c \in PlacesIn(w, t) : k = c + s)
    BY DEF Spread
  <2>2. PICK b \in w : k = PlaceIn(b, t) \/ k = PlaceIn(b, t) + s
    BY <2>1 DEF PlacesIn
  <2>3. k = PlaceIn(b, s)
    BY <1>2, <2>1, <2>2
  <2>. QED BY <2>3 DEF PlacesIn
<1>4. ASSUME NEW k \in PlacesIn(w, s) PROVE k \in Spread(PlacesIn(w, t), s)
  <2>1. PICK b \in w : k = PlaceIn(b, s)
    BY DEF PlacesIn
  <2>2. PICK a : a = PlaceIn(b, t) /\ a \in PlacesIn(w, t)
    BY DEF PlacesIn
  <2>3. k \in Mask(s) /\ (k = a \/ k = a + s)
    BY <1>2, <2>1, <2>2
  <2>. QED BY <2>2, <2>3 DEF Spread
<1>. QED BY <1>1, <1>3, <1>4

(* and the last one has blocks of one bit.                                  *)
LEMMA ExpandIs ==
    ASSUME NEW x
    PROVE  expand_bits(x) = {2 * b : b \in {k \in BitsOf(x) : k < Half}}
<1>. DEFINE W == {k \in BitsOf(x) : k < Half}
            Unfolds(f) == f = [i \in 0..Len(Shifts) |-> IF i = 0 THEN W ELSE Spread(f[i - 1], Shifts[i])]
<1>1. PICK n \in Nat : n = Len(Shifts)
  BY Sizes
<1>2. W \in SUBSET (0..Half - 1) /\ W \in SUBSET Full
  BY Sizes DEF BitsOf, Full
<1>3. \A s : \A u \in SUBSET Full : Spread(u, s) \in SUBSET Full
  BY DEF Spread, Mask
<1>4. PICK g \in [0..n -> SUBSET Full] : g[0] = W /\ \A k \in 1..n : g[k] = Spread(g[k - 1], Shifts[k])
  <2>. DEFINE F == [k \in 1..n |-> [u \in SUBSET Full |-> Spread(u, Shifts[k])]]
  <2>1. F \in [1..n -> [SUBSET Full -> SUBSET Full]]
    BY <1>3, Zenon
  <2>2. \A k \in 1..n : \A u \in SUBSET Full : F[k][u] = Spread(u, Shifts[k])
    OBVIOUS
  <2>. HIDE DEF F, W
  <2>3. PICK g \in [0..n -> SUBSET Full] : Rounds(g, n, W, F)
    BY <1>2, <2>1, RoundsExist
  <2>4. \A k \in 1..n : k - 1 \in 0..n /\ g[k - 1] \in SUBSET Full
    OBVIOUS
  <2>. QED BY <2>2, <2>3, <2>4 DEF Rounds
<1>5. Unfolds(g)
  <2>. HIDE DEF W
  <2>. QED BY <1>1, <1>4
<1>6. PICK f : f = (CHOOSE h : Unfolds(h)) /\ expand_bits(x) = f[Len(Shifts)]
  BY DEF expand_bits
<1>7. Unfolds(f)
  <2>. HIDE DEF Unfolds
  <2>. QED BY <1>5, <1>6
<1>8. f[0] = W /\ \A k \in 1..n : f[k] = Spread(f[k - 1], Shifts[k])
  <2>. HIDE DEF W
  <2>. QED BY <1>1, <1>7
<1>. HIDE DEF W
<1>. DEFINE P == {k \in 0..n : f[k] = PlacesIn(W, Power(2, n - k))}
<1>9. 0 \in P
  <2>1. PICK h \in Nat \ {0} : h = Half /\ h = Power(2, n - 0)
    <3>1. n - 0 = n
      OBVIOUS
    <3>. QED BY <1>1, <3>1, Sizes
  <2>2. ASSUME NEW b \in W PROVE PlaceIn(b, h) = b
    <3>1. b \in 0..h - 1
      BY <1>2, <2>1
    <3>2. b = 0 * h + b /\ 0 * (2 * h) + b = b
      BY <3>1
    <3>3. Blocks(b, h, 0, b)
      BY <3>1, <3>2 DEF Blocks
    <3>. QED BY <3>2, <3>3, InBlocks
  <2>3. PlacesIn(W, h) = W
    BY <2>2 DEF PlacesIn
  <2>. QED BY <1>8, <2>1, <2>3
<1>10. ASSUME NEW k \in 0..n, k \in P, k < n PROVE k + 1 \in P
  <2>1. k + 1 \in 0..n /\ k + 1 \in 1..n /\ (k + 1) - 1 = k
    BY <1>10
  <2>2. PICK j \in Nat : j = n - (k + 1) /\ n - k = j + 1
    <3>1. n - (k + 1) \in Nat /\ n - k = (n - (k + 1)) + 1
      BY <1>10
    <3>. QED BY <3>1
  <2>3. PICK s \in Nat \ {0} : s = Power(2, j)
    BY Doubles
  <2>4. Power(2, n - k) = 2 * s
    BY <2>2, <2>3, Doubles
  <2>5. f[k] = PlacesIn(W, 2 * s)
    BY <1>10, <2>4
  <2>6. Shifts[k + 1] = s
    BY <1>1, <2>1, <2>2, <2>3, Sizes
  <2>7. f[k + 1] = Spread(f[k], s)
    BY <1>8, <2>1, <2>6
  <2>8. f[k + 1] = PlacesIn(W, s)
    BY <1>2, <2>5, <2>7, SpreadHalves
  <2>. QED BY <2>1, <2>2, <2>3, <2>8
<1>11. n \in P
  <2>1. 0..n \subseteq P
    <3>. HIDE DEF P
    <3>. QED BY <1>9, <1>10, UpToN
  <2>. QED BY <2>1
<1>12. f[n] = PlacesIn(W, 1)
  <2>1. n - n = 0
    OBVIOUS
  <2>. QED BY <1>11, <2>1, Doubles, 0 \in Nat
<1>13. ASSUME NEW b \in W PROVE PlaceIn(b, 1) = 2 * b
  <2>1. b \in Int
    BY <1>2, Sizes
  <2>2. b = b * 1 + 0 /\ b * (2 * 1) + 0 = 2 * b /\ 0 \in 0..1 - 1 /\ 1 \in Nat \ {0}
    BY <2>1
  <2>3. Blocks(b, 1, b, 0)
    BY <2>1, <2>2 DEF Blocks
  <2>. QED BY <2>2, <2>3, InBlocks
<1>14. PlacesIn(W, 1) = {2 * b : b \in W}
  BY <1>13 DEF PlacesIn
<1>. QED BY <1>1, <1>6, <1>12, <1>14 DEF W

-----------------------------------------------------------------------------
(* The word of a cell: the bits of x at even places, those of y at odd ones. *)
Word(x, y) == expand_bits(x) \cup {k + 1 : k \in expand_bits(y)}

LEMMA WordIs ==
    ASSUME NEW x, NEW y
    PROVE  /\ Word(x, y) \in SUBSET Full
           /\ \A k \in 0..Half - 1 : /\ 2 * k \in Word(x, y) <=> BitAt(x, k)
                                     /\ 2 * k + 1 \in Word(x, y) <=> BitAt(y, k)
<1>1. PICK X, Y : X = {k \in BitsOf(x) : k < Half} /\ Y = {k \in BitsOf(y) : k < Half}
  OBVIOUS
<1>2. Word(x, y) = {2 * k : k \in X} \cup {k + 1 : k \in {2 * b : b \in Y}}
  BY <1>1, ExpandIs DEF Word
<1>3. X \subseteq 0..Half - 1 /\ Y \subseteq 0..Half - 1
  BY <1>1, Sizes DEF BitsOf, Full
<1>4. \A k \in 0..Half - 1 : (k \in X <=> BitAt(x, k)) /\ (k \in Y <=> BitAt(y, k))
  <2>1. \A k \in 0..Half - 1 : k \in Full /\ k < Half
    BY Sizes DEF Full
  <2>. QED BY <1>1, <2>1, BitsAre
<1>5. \A k \in Word(x, y) : (\E b \in X : k = 2 * b) \/ (\E b \in Y : k = 2 * b + 1)
  BY <1>2
<1>6. \A b \in X : 2 * b \in Word(x, y)
  BY <1>2
<1>7. \A b \in Y : 2 * b + 1 \in Word(x, y)
  BY <1>2
<1>8. \A b \in 0..Half - 1 : 2 * b \in 0..2 * Half - 1 /\ 2 * b + 1 \in 0..2 * Half - 1
  BY Sizes
<1>9. Word(x, y) \subseteq Full
  BY <1>3, <1>5, <1>8 DEF Full
<1>10. \A k \in 0..Half - 1, b \in 0..Half - 1 :
         (2 * k = 2 * b => k = b) /\ 2 * k # 2 * b + 1 /\ 2 * k + 1 # 2 * b /\ (2 * k + 1 = 2 * b + 1 => k = b)
  BY Sizes
<1>11. ASSUME NEW k \in 0..Half - 1 PROVE 2 * k \in Word(x, y) <=> k \in X
  BY <1>3, <1>5, <1>6, <1>10
<1>12. ASSUME NEW k \in 0..Half - 1 PROVE 2 * k + 1 \in Word(x, y) <=> k \in Y
  BY <1>3, <1>5, <1>7, <1>10
<1>. QED BY <1>4, <1>9, <1>11, <1>12

(* The bits of a cell are those of the coordinates.                         *)
LEMMA CellBits ==
    ASSUME NEW x, NEW y, NEW k \in 0..Half - 1
    PROVE  /\ 2 * k \in BitsOf(Cell(x, y)) <=> k \in BitsOf(x)
           /\ 2 * k + 1 \in BitsOf(Cell(x, y)) <=> k \in BitsOf(y)
<1>1. PICK w \in SUBSET Full : w = Word(x, y)
  BY WordIs
<1>2. BitsOf(Cell(x, y)) = w
  BY <1>1, WordsKeepBits DEF Cell, Word
<1>3. k \in Full
  BY Sizes DEF Full
<1>. QED BY <1>1, <1>2, <1>3, WordIs, BitsAre

-----------------------------------------------------------------------------
(* Words are in the order of the highest bit in which they differ: u and v *)
(* agree on all m bits, or v alone has bit k and they agree above it.       *)
AgreeFrom(u, v, i, m) == \A j \in i..m - 1 : j \in u <=> j \in v
Exceeds(u, v, k, m) == k \in 0..m - 1 /\ k \in v /\ k \notin u /\ AgreeFrom(u, v, k + 1, m)

LEMMA SumsCompare ==
    ASSUME NEW u, NEW v, NEW m \in Nat
    PROVE  /\ AgreeFrom(u, v, 0, m) => LowNumber(u, m) = LowNumber(v, m)
           /\ (\E k \in 0..m - 1 : Exceeds(u, v, k, m)) => LowNumber(u, m) < LowNumber(v, m)
<1>. DEFINE P == {n \in 0..m :
                    /\ AgreeFrom(u, v, 0, n) => LowNumber(u, n) = LowNumber(v, n)
                    /\ \A k \in 0..n - 1 : Exceeds(u, v, k, n) => LowNumber(u, n) < LowNumber(v, n)}
<1>1. 0 \in P
  BY SumSteps, 0 \in Nat
<1>2. ASSUME NEW n \in 0..m, n \in P, n < m PROVE n + 1 \in P
  <2>1. n \in Nat /\ n + 1 \in 0..m /\ (n + 1) - 1 = n
    BY <1>2
  <2>2. PICK a \in Nat, b \in Nat, p \in Nat \ {0} :
          a = LowNumber(u, n) /\ b = LowNumber(v, n) /\ p = Power(2, n) /\ a < p /\ b < p
    BY <2>1, SumBound, Doubles
  <2>3. /\ LowNumber(u, n + 1) = a + (IF n \in u THEN p ELSE 0)
        /\ LowNumber(v, n + 1) = b + (IF n \in v THEN p ELSE 0)
    BY <2>1, <2>2, SumSteps
  <2>4. ASSUME AgreeFrom(u, v, 0, n + 1) PROVE LowNumber(u, n + 1) = LowNumber(v, n + 1)
    <3>1. n \in u <=> n \in v
      BY <2>1, <2>4 DEF AgreeFrom
    <3>2. AgreeFrom(u, v, 0, n)
      BY <2>1, <2>4 DEF AgreeFrom
    <3>. QED BY <1>2, <2>2, <2>3, <3>1, <3>2
  <2>5. ASSUME NEW k \in 0..(n + 1) - 1, Exceeds(u, v, k, n + 1)
        PROVE  LowNumber(u, n + 1) < LowNumber(v, n + 1)
    <3>1. CASE k = n
      <4>1. n \in v /\ n \notin u
        BY <2>5, <3>1 DEF Exceeds
      <4>2. a + 0 < b + p
        BY <2>2
      <4>. QED BY <2>3, <4>1, <4>2
    <3>2. CASE k # n
      <4>1. k \in 0..n - 1
        BY <2>1, <3>2
      <4>2. n \in u <=> n \in v
        <5>1. n \in k + 1..(n + 1) - 1
          BY <2>1, <4>1
        <5>. QED BY <2>5, <5>1 DEF Exceeds, AgreeFrom
      <4>3. Exceeds(u, v, k, n)
        <5>1. \A j \in k + 1..n - 1 : j \in k + 1..(n + 1) - 1
          BY <2>1
        <5>. QED BY <2>5, <4>1, <5>1 DEF Exceeds, AgreeFrom
      <4>4. a < b
        BY <1>2, <2>2, <4>1, <4>3
      <4>5. a + p < b + p /\ a + 0 < b + 0
        BY <2>2, <4>4
      <4>. QED BY <2>3, <4>2, <4>5
    <3>. QED BY <3>1, <3>2
  <2>. QED BY <2>1, <2>4, <2>5
<1>3. 0..m \subseteq P
  <2>. HIDE DEF P
  <2>. QED BY <1>1, <1>2, UpToN
<1>4. m \in P
  <2>. HIDE DEF P
  <2>. QED BY <1>3
<1>. QED BY <1>4

(* A number is that of its bits.                                            *)
NatBits(x) == {k \in Nat : BitAt(x, k)}

LEMMA SumOfBits ==
    ASSUME NEW x \in Nat, NEW m \in Nat
    PROVE  x < Power(2, m) => LowNumber(NatBits(x), m) = x
<1>. DEFINE P == {n \in 0..m : \E d \in Int : x = d * Power(2, n) + LowNumber(NatBits(x), n)}
<1>1. 0 \in P
  <2>1. LowNumber(NatBits(x), 0) = 0 /\ Power(2, 0) = 1
    BY SumSteps, Doubles, 0 \in Nat
  <2>2. x = x * 1 + 0 /\ x \in Int
    OBVIOUS
  <2>. QED BY <2>1, <2>2
<1>2. ASSUME NEW n \in 0..m, n \in P, n < m PROVE n + 1 \in P
  <2>1. n \in Nat /\ n + 1 \in 0..m
    BY <1>2
  <2>2. PICK s \in Nat, p \in Nat \ {0} : s = LowNumber(NatBits(x), n) /\ p = Power(2, n) /\ s < p
    BY <2>1, SumBound, Doubles
  <2>3. PICK d \in Int : x = d * p + s
    BY <1>2, <2>2
  <2>4. x \div p = d
    BY <2>2, <2>3, DivMod, s \in 0..p - 1
  <2>5. PICK e \in Int, v \in {0, 1} : d = e * 2 + v /\ d % 2 = v
    <3>1. \E e \in Int, v \in 0..2 - 1 : e = d \div 2 /\ v = d % 2 /\ d = e * 2 + v
      BY Division, 2 \in Nat \ {0}
    <3>2. 0..2 - 1 = {0, 1}
      OBVIOUS
    <3>. QED BY <3>1, <3>2
  <2>6. n \in NatBits(x) <=> v = 1
    BY <2>1, <2>2, <2>4, <2>5 DEF NatBits, BitAt
  <2>7. LowNumber(NatBits(x), n + 1) = s + v * p
    <3>1. LowNumber(NatBits(x), n + 1) = s + (IF n \in NatBits(x) THEN p ELSE 0)
      BY <2>1, <2>2, SumSteps
    <3>2. 1 * p = p /\ 0 * p = 0
      OBVIOUS
    <3>. QED BY <2>5, <2>6, <3>1, <3>2
  <2>8. x = e * (2 * p) + (s + v * p)
    <3>1. (e * 2 + v) * p = e * (2 * p) + v * p
      OBVIOUS
    <3>. QED BY <2>3, <2>5, <3>1
  <2>9. Power(2, n + 1) = 2 * p
    BY <2>1, <2>2, Doubles
  <2>. QED BY <2>1, <2>7, <2>8, <2>9
<1>3. m \in P
  <2>1. 0..m \subseteq P
    <3>. HIDE DEF P
    <3>. QED BY <1>1, <1>2, UpToN
  <2>. QED BY <2>1
<1>4. PICK s \in Nat, p \in Nat \ {0} : s = LowNumber(NatBits(x), m) /\ p = Power(2, m) /\ s < p
  BY SumBound, Doubles
<1>5. PICK d \in Int : x = d * p + s
  BY <1>3, <1>4
<1>6. ASSUME x < p PROVE x = s
  <2>1. x \in 0..p - 1 /\ s \in 0..p - 1 /\ 0 * p + x = x
    BY <1>4, <1>6
  <2>2. (0 * p + x) % p = x /\ (d * p + s) % p = s
    BY <2>1, DivMod, 0 \in Int
  <2>. QED BY <1>5, <2>1, <2>2
<1>. QED BY <1>4, <1>6

(* So of two numbers the larger alone has a bit above which they agree, if  *)
(* they are not the same.                                                   *)
LEMMA OrderIsOfBits ==
    ASSUME NEW x \in Nat, NEW y \in Nat, NEW m \in Nat, x <= y, y < Power(2, m)
    PROVE  \/ AgreeFrom(NatBits(x), NatBits(y), 0, m)
           \/ \E k \in 0..m - 1 : Exceeds(NatBits(x), NatBits(y), k, m)
<1>1. PICK u, v : u = NatBits(x) /\ v = NatBits(y)
  OBVIOUS
<1>2. x < Power(2, m)
  BY Doubles
<1>3. LowNumber(u, m) = x /\ LowNumber(v, m) = y
  BY <1>1, <1>2, SumOfBits
<1>4. PICK D : D = {j \in 0..m - 1 : (j \in u) # (j \in v)}
  OBVIOUS
<1>5. CASE D = {}
  BY <1>1, <1>4, <1>5 DEF AgreeFrom
<1>6. CASE D # {}
  <2>1. D \in SUBSET (0..m - 1)
    BY <1>4
  <2>2. PICK k : k \in D /\ \A j \in D : j <= k
    BY <1>6, <2>1, GreatestOf, 0 \in Int, m - 1 \in Int
  <2>3. k \in 0..m - 1 /\ (k \in u) # (k \in v)
    BY <1>4, <2>2
  <2>4. \A j \in k + 1..m - 1 : j \in u <=> j \in v
    <3>. SUFFICES ASSUME NEW j \in k + 1..m - 1 PROVE j \in u <=> j \in v
      OBVIOUS
    <3>1. j \in 0..m - 1 /\ ~(j <= k)
      BY <2>3
    <3>2. j \notin D
      BY <2>2, <3>1
    <3>. QED BY <1>4, <3>1, <3>2
  <2>5. CASE k \in v
    BY <1>1, <2>3, <2>4, <2>5 DEF Exceeds, AgreeFrom
  <2>6. CASE k \in u
    <3>1. Exceeds(v, u, k, m)
      BY <2>3, <2>4, <2>6 DEF Exceeds, AgreeFrom
    <3>2. LowNumber(v, m) < LowNumber(u, m)
      BY <2>3, <3>1, SumsCompare
    <3>. QED BY <1>3, <3>2
  <2>. QED BY <2>3, <2>5, <2>6
<1>. QED BY <1>5, <1>6

(* The word of a point that is nowhere larger is not larger.                *)
LEMMA WordsCompare ==
    ASSUME NEW a \in Nat, NEW b \in Nat, NEW c \in Nat, NEW d \in Nat,
           a <= b, b < Power(2, Half), c <= d, d < Power(2, Half)
    PROVE  LowNumber(Word(a, c), 2 * Half) <= LowNumber(Word(b, d), 2 * Half)
<1>1. PICK u, v : u = Word(a, c) /\ v = Word(b, d)
  OBVIOUS
<1>2. PICK h \in Nat \ {0}, m \in Nat \ {0} : h = Half /\ m = 2 * h /\ m = 2 * Half
  BY Sizes
<1>3. PICK A, B, C, D : A = NatBits(a) /\ B = NatBits(b) /\ C = NatBits(c) /\ D = NatBits(d)
  OBVIOUS
<1>4. \A k \in 0..h - 1 : /\ 2 * k \in u <=> k \in A
                          /\ 2 * k + 1 \in u <=> k \in C
                          /\ 2 * k \in v <=> k \in B
                          /\ 2 * k + 1 \in v <=> k \in D
  <2>1. \A k \in 0..h - 1 : k \in Nat
    OBVIOUS
  <2>. QED BY <1>1, <1>2, <1>3, <2>1, WordIs DEF NatBits
<1>5. /\ AgreeFrom(A, B, 0, h) \/ \E k \in 0..h - 1 : Exceeds(A, B, k, h)
      /\ AgreeFrom(C, D, 0, h) \/ \E k \in 0..h - 1 : Exceeds(C, D, k, h)
  BY <1>2, <1>3, OrderIsOfBits, h \in Nat
<1>6. LowNumber(u, m) \in Nat /\ LowNumber(v, m) \in Nat
  BY SumBound, m \in Nat
<1>7. \A j \in 0..m - 1 : \E k \in 0..h - 1 : j = 2 * k \/ j = 2 * k + 1
  <2>. SUFFICES ASSUME NEW j \in 0..m - 1 PROVE \E k \in 0..h - 1 : j = 2 * k \/ j = 2 * k + 1
    OBVIOUS
  <2>1. PICK k \in Int, r \in 0..2 - 1 : j = k * 2 + r
    BY Division, 2 \in Nat \ {0}, j \in Int
  <2>2. k \in 0..h - 1 /\ (j = 2 * k \/ j = 2 * k + 1)
    BY <1>2, <2>1
  <2>. QED BY <2>2
<1>8. ASSUME NEW i \in 0..h, NEW j \in 0..h, AgreeFrom(A, B, i, h), AgreeFrom(C, D, j, h),
             NEW t \in 0..m, t >= 2 * i - 1, t >= 2 * j
      PROVE  AgreeFrom(u, v, t, m)
  <2>. SUFFICES ASSUME NEW q \in t..m - 1 PROVE q \in u <=> q \in v
    BY DEF AgreeFrom
  <2>1. q \in 0..m - 1
    BY <1>2
  <2>2. PICK k \in 0..h - 1 : q = 2 * k \/ q = 2 * k + 1
    BY <1>7, <2>1
  <2>3. CASE q = 2 * k
    <3>1. k \in i..h - 1
      BY <1>8, <1>2, <2>3
    <3>. QED BY <1>4, <1>8, <2>3, <3>1 DEF AgreeFrom
  <2>4. CASE q = 2 * k + 1
    <3>1. k \in j..h - 1
      BY <1>8, <1>2, <2>4
    <3>. QED BY <1>4, <1>8, <2>4, <3>1 DEF AgreeFrom
  <2>. QED BY <2>2, <2>3, <2>4
<1>9. CASE AgreeFrom(A, B, 0, h) /\ AgreeFrom(C, D, 0, h)
  <2>1. 0 \in 0..h /\ 0 \in 0..m /\ 0 >= 2 * 0 - 1 /\ 0 >= 2 * 0
    BY <1>2
  <2>2. AgreeFrom(u, v, 0, m)
    BY <1>8, <1>9, <2>1
  <2>3. LowNumber(u, m) = LowNumber(v, m)
    BY <2>2, SumsCompare, m \in Nat
  <2>. QED BY <1>1, <1>2, <1>6, <2>3
<1>10. ASSUME NEW q \in 0..m - 1, q \in v, q \notin u, AgreeFrom(u, v, q + 1, m)
       PROVE  LowNumber(u, m) <= LowNumber(v, m)
  <2>1. Exceeds(u, v, q, m)
    BY <1>10 DEF Exceeds
  <2>2. LowNumber(u, m) < LowNumber(v, m)
    BY <2>1, SumsCompare, m \in Nat
  <2>. QED BY <1>6, <2>2
<1>11. ASSUME NEW k \in 0..h - 1, Exceeds(A, B, k, h), NEW j \in 0..h, AgreeFrom(C, D, j, h), j <= k
       PROVE  LowNumber(u, m) <= LowNumber(v, m)
  <2>1. 2 * k \in 0..m - 1 /\ k + 1 \in 0..h /\ 2 * k + 1 \in 0..m /\ 2 * k + 1 >= 2 * (k + 1) - 1 /\ 2 * k + 1 >= 2 * j
    BY <1>2, <1>11
  <2>2. AgreeFrom(A, B, k + 1, h) /\ k \in B /\ k \notin A
    BY <1>11 DEF Exceeds
  <2>3. AgreeFrom(u, v, 2 * k + 1, m)
    BY <1>8, <1>11, <2>1, <2>2
  <2>4. 2 * k \in v /\ 2 * k \notin u
    BY <1>4, <2>2
  <2>. QED BY <1>10, <2>1, <2>3, <2>4
<1>12. ASSUME NEW k \in 0..h - 1, Exceeds(C, D, k, h), NEW i \in 0..h, AgreeFrom(A, B, i, h), i <= k + 1
       PROVE  LowNumber(u, m) <= LowNumber(v, m)
  <2>1. /\ 2 * k + 1 \in 0..m - 1 /\ k + 1 \in 0..h /\ (2 * k + 1) + 1 \in 0..m
        /\ (2 * k + 1) + 1 >= 2 * i - 1 /\ (2 * k + 1) + 1 >= 2 * (k + 1)
    BY <1>2, <1>12
  <2>2. AgreeFrom(C, D, k + 1, h) /\ k \in D /\ k \notin C
    BY <1>12 DEF Exceeds
  <2>3. AgreeFrom(u, v, (2 * k + 1) + 1, m)
    BY <1>8, <1>12, <2>1, <2>2
  <2>4. 2 * k + 1 \in v /\ 2 * k + 1 \notin u
    BY <1>4, <2>2
  <2>. QED BY <1>10, <2>1, <2>3, <2>4
<1>13. LowNumber(u, m) <= LowNumber(v, m)
  <2>0. 0 \in 0..h /\ \A k \in 0..h - 1 : k + 1 \in 0..h /\ 0 <= k /\ 0 <= k + 1
    OBVIOUS
  <2>1. CASE AgreeFrom(C, D, 0, h)
    <3>1. CASE AgreeFrom(A, B, 0, h)
      BY <1>1, <1>2, <1>9, <2>1, <3>1
    <3>2. ASSUME NEW k \in 0..h - 1, Exceeds(A, B, k, h) PROVE LowNumber(u, m) <= LowNumber(v, m)
      BY <1>11, <2>0, <2>1, <3>2
    <3>. QED BY <1>5, <3>1, <3>2
  <2>2. ASSUME NEW j \in 0..h - 1, Exceeds(C, D, j, h) PROVE LowNumber(u, m) <= LowNumber(v, m)
    <3>1. CASE AgreeFrom(A, B, 0, h)
      BY <1>12, <2>0, <2>2, <3>1
    <3>2. ASSUME NEW k \in 0..h - 1, Exceeds(A, B, k, h) PROVE LowNumber(u, m) <= LowNumber(v, m)
      <4>1. AgreeFrom(A, B, k + 1, h) /\ AgreeFrom(C, D, j + 1, h)
        BY <2>2, <3>2 DEF Exceeds
      <4>2. j + 1 <= k \/ k + 1 <= j + 1
        OBVIOUS
      <4>3. CASE j + 1 <= k
        BY <1>11, <2>0, <3>2, <4>1, <4>3
      <4>4. CASE k + 1 <= j + 1
        BY <1>12, <2>0, <2>2, <4>1, <4>4
      <4>. QED BY <4>2, <4>3, <4>4
    <3>. QED BY <1>5, <3>1, <3>2
  <2>. QED BY <1>5, <2>1, <2>2
<1>. QED BY <1>1, <1>2, <1>13

(* A cell whose top bit is clear is its word.                               *)
LEMMA CellOfWord ==
    ASSUME NEW x \in Nat, NEW y \in Nat, y < Power(2, Half - 1)
    PROVE  Cell(x, y) = LowNumber(Word(x, y), 2 * Half)
<1>1. PICK g \in Nat : g = Half - 1 /\ Half = g + 1
  <2>1. Half - 1 \in Nat /\ Half = (Half - 1) + 1
    BY Sizes
  <2>. QED BY <2>1
<1>2. PICK n \in Nat : n = 2 * g + 1 /\ 2 * Half = n + 1
  <2>1. 2 * g + 1 \in Nat /\ 2 * (g + 1) = (2 * g + 1) + 1
    OBVIOUS
  <2>. QED BY <1>1, <2>1
<1>3. PICK w : w = Word(x, y)
  OBVIOUS
<1>4. n \notin w
  <2>1. ~BitAt(y, g)
    BY <1>1, TopBit
  <2>2. g \in 0..Half - 1
    BY <1>1
  <2>. QED BY <1>2, <1>3, <2>1, <2>2, WordIs
<1>5. PICK s \in Nat : s = LowNumber(w, n) /\ s < Power(2, n)
  BY SumBound
<1>6. LowNumber(w, n + 1) = s
  <2>1. LowNumber(w, n + 1) = s + 0
    BY <1>4, <1>5, SumSteps
  <2>. QED BY <2>1
<1>7. Wrapped(s, n + 1) = s
  BY <1>5, WrapsNot
<1>. QED BY <1>2, <1>3, <1>6, <1>7 DEF Cell, Word, SignedWord

(* So cells keep the order of points in a box.                              *)
LEMMA CellsCompare ==
    ASSUME NEW a \in Nat, NEW b \in Nat, NEW c \in Nat, NEW d \in Nat,
           a <= b, b < Power(2, Half), c <= d, d < Power(2, Half - 1)
    PROVE  Cell(a, c) <= Cell(b, d)
<1>1. PICK g \in Nat : g = Half - 1 /\ Half = g + 1
  <2>1. Half - 1 \in Nat /\ Half = (Half - 1) + 1
    BY Sizes
  <2>. QED BY <2>1
<1>2. PICK p \in Nat \ {0} : p = Power(2, g)
  BY Doubles
<1>3. Power(2, Half) = 2 * p
  BY <1>1, <1>2, Doubles
<1>4. d < Power(2, Half) /\ c < Power(2, Half - 1)
  BY <1>1, <1>2, <1>3
<1>5. Cell(a, c) = LowNumber(Word(a, c), 2 * Half) /\ Cell(b, d) = LowNumber(Word(b, d), 2 * Half)
  BY <1>4, CellOfWord
<1>. QED BY <1>4, <1>5, WordsCompare

-----------------------------------------------------------------------------
(* What was evaluated of points are their cells. *)
LEMMA CellsEvaluated ==
    ASSUME CallsInv, NEW c \in Evaluated("z")
    PROVE  \E x \in Int, y \in Int : c.in = <<x, y>> /\ c.out = Cell(x, y)
<1>1. c.f = "z" /\ (IsCall(c) \/ \E b : ReadAgain(b, c))
  BY EvaluatedIs
<1>2. PICK x \in Coordinates, y \in Coordinates : c = Call("z", <<x, y>>, Cell(x, y))
  BY <1>1 DEF IsCall, ReadAgain, Call
<1>3. x \in Int /\ y \in Int
  BY CoordinatesAssumption
<1>4. c.in = <<x, y>> /\ c.out = Cell(x, y)
  BY <1>2 DEF Call
<1>. QED BY <1>3, <1>4

LEMMA CellsHold == CallsInv => CellsKeepOrder
<1>1. ASSUME CallsInv, NEW c \in Evaluated("z"), NEW k \in 0..Half - 1
      PROVE  /\ 2 * k \in BitsOf(c.out) <=> k \in BitsOf(c.in[1])
             /\ 2 * k + 1 \in BitsOf(c.out) <=> k \in BitsOf(c.in[2])
  <2>1. PICK x \in Int, y \in Int : c.in = <<x, y>> /\ c.out = Cell(x, y)
    BY <1>1, CellsEvaluated
  <2>2. c.in[1] = x /\ c.in[2] = y
    BY <2>1
  <2>. QED BY <2>1, <2>2, CellBits
<1>2. ASSUME CallsInv, NEW a \in Evaluated("z"), NEW b \in Evaluated("z"), InBox(a.in, b.in)
      PROVE  a.out <= b.out
  <2>1. PICK x \in Int, y \in Int : a.in = <<x, y>> /\ a.out = Cell(x, y)
    BY <1>2, CellsEvaluated
  <2>2. PICK z \in Int, w \in Int : b.in = <<z, w>> /\ b.out = Cell(z, w)
    BY <1>2, CellsEvaluated
  <2>3. a.in[1] = x /\ a.in[2] = y /\ b.in[1] = z /\ b.in[2] = w
    BY <2>1, <2>2
  <2>4. 0 <= x /\ x <= z /\ z < Power(2, Half) /\ 0 <= y /\ y <= w /\ w < Power(2, Half - 1)
    BY <1>2, <2>3 DEF InBox
  <2>5. x \in Nat /\ y \in Nat /\ z \in Nat /\ w \in Nat
    BY <2>4
  <2>. QED BY <2>1, <2>2, <2>4, <2>5, CellsCompare
<1>. QED BY <1>1, <1>2 DEF CellsKeepOrder

(* The cell of a point has the bits of its coordinates side by side, for    *)
(* words of any size that is a power of two and whatever the coordinates    *)
(* are; and cells keep the order of the points of a box, as long as y       *)
(* leaves its top bit alone (expand_bits_32 and ZOrder2D::eval).            *)
THEOREM CellsStayInOrder == RowSpec => []CellsKeepOrder
<1>. QED BY CallsAlways, CellsHold, PTL
=============================================================================
