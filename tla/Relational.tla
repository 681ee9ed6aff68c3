----------------------------- MODULE Relational -----------------------------
(***************************************************************************)
(* What a query plan means: the operators as functions from relations to   *)
(* relations, with no batches, no calls and no row groups.  A relation is  *)
(* a sequence of rows and a row a sequence of integers; an integer stands  *)
(* for a number, or for a string by its place in the order of strings,     *)
(* with 0 the empty one.  Pipeline.tla is checked against this module.     *)
(*                                                                         *)
(* A plan is a sequence of operators, children before parents, the root    *)
(* last.  Columns are counted from 1, in the code from 0.                  *)
(***************************************************************************)
EXTENDS CxxInts, FiniteSets, Sequences, SequencesExt, Predicates

(* An average is kept multiplied by AvgScale, a multiple of every number of *)
(* rows up to 4, so that it stays an integer and its order.                 *)
AvgScale == 12

NoSkip == [col |-> 0, op |-> "Eq", value |-> 0]

Scan(store, cols, skip) ==
    [kind |-> "scan", store |-> store, cols |-> cols, skip |-> skip]
Filter(child, preds) ==
    [kind |-> "filter", child |-> child, preds |-> preds]
Project(child, exprs) ==
    [kind |-> "project", child |-> child, exprs |-> exprs]
GlobalAggregate(child, specs) ==
    [kind |-> "global", child |-> child, cols |-> <<>>, specs |-> specs]
HashAggregate(child, cols, specs) ==
    [kind |-> "hash", child |-> child, cols |-> cols, specs |-> specs]
Sort(child, keys, limit, offset) ==
    [kind |-> "sort", child |-> child, keys |-> keys, limit |-> limit, offset |-> offset]
HashJoin(build, probe, buildKey, probeKey) ==
    [kind |-> "join", build |-> build, probe |-> probe,
     build_key |-> buildKey, probe_key |-> probeKey]

Agg(kind, col)  == [kind |-> kind, col |-> col]
Key(col, ascending) == [col |-> col, ascending |-> ascending]

(* The rows that are in keep, in their order. *)
Where(rows, keep) ==
    LET upTo[n \in 0..Len(rows)] ==
          IF n = 0 THEN <<>>
          ELSE IF rows[n] \in keep THEN Append(upTo[n - 1], rows[n])
          ELSE upTo[n - 1]
    IN  upTo[Len(rows)]

(* A filter is a conjunction of comparisons of a column with a literal, or  *)
(* with a set: IN, LIKE, and NOT LIKE.                                      *)
Pred(col, op, value) == [col |-> col, op |-> op, value |-> value]
Accepts(p, x) ==
    \/ p.op = "In" /\ x \in p.value
    \/ p.op = "NotIn" /\ x \notin p.value
    \/ apply_cmp(x, p.op, p.value)
Passes(row, preds) == \A p \in Range(preds) : Accepts(p, row[p.col])
Passing(rows, preds) == {row \in Range(rows) : Passes(row, preds)}
ColumnsOfPreds(preds) == {p.col : p \in Range(preds)}

(* The expressions of a projection; col is 0 where no column is read.  A    *)
(* "case" is CASE WHEN the predicates k THEN column col ELSE '' END.        *)
Expr(f, col, k) == [f |-> f, col |-> col, k |-> k]
ColumnsOf(e) ==
    ({e.col} \cup IF e.f = "case" THEN ColumnsOfPreds(e.k) ELSE {}) \ {0}

(* The strings in their order: "", a, ab, b, bb, c, cc, ... *)
StringLength(s) == IF s = 0 THEN 0 ELSE IF s % 2 = 1 THEN 1 ELSE 2

Eval(row, e) ==
    CASE e.f = "col"        -> row[e.col]
      [] e.f = "lit"        -> e.k
      [] e.f = "add"        -> row[e.col] + e.k
      [] e.f = "sub"        -> row[e.col] - e.k
      [] e.f = "length"     -> StringLength(row[e.col])
      [] e.f = "minute"     -> Remainder(Quotient(row[e.col], 60), 60)
      [] e.f = "trunc"      -> row[e.col] - Remainder(row[e.col], 60)
      [] e.f = "case"       -> IF Passes(row, e.k) THEN row[e.col] ELSE 0
Evaluated(rows, exprs) ==
    [i \in 1..Len(rows) |-> [c \in 1..Len(exprs) |-> Eval(rows[i], exprs[c])]]

Pick(row, cols) == [i \in 1..Len(cols) |-> row[cols[i]]]

(* Row a comes before row b. *)
Before(a, b, keys) ==
    \E k \in 1..Len(keys) :
      /\ \A l \in 1..k-1 : a[keys[l].col] = b[keys[l].col]
      /\ IF keys[k].ascending THEN a[keys[k].col] < b[keys[k].col]
                              ELSE a[keys[k].col] > b[keys[k].col]

(* The same rows, each as often, in any order. *)
Orderings(rows) ==
    {s \in [1..Len(rows) -> Range(rows)] :
       \A row \in Range(rows) : Len(Where(s, {row})) = Len(Where(rows, {row}))}
SortedOrderings(rows, keys) ==
    {s \in Orderings(rows) : \A i, j \in 1..Len(s) : i < j => ~Before(s[j], s[i], keys)}

-----------------------------------------------------------------------------
ValueSet(rows, col) == {rows[i][col] : i \in 1..Len(rows)}
Total(rows, col) ==
    LET upTo[n \in 0..Len(rows)] == IF n = 0 THEN 0 ELSE upTo[n - 1] + rows[n][col]
    IN  upTo[Len(rows)]

Aggregate(rows, spec) ==
    LET c == spec.col
    IN  CASE spec.kind \in {"CountStar", "Count"} -> Len(rows)
          [] spec.kind = "CountDistinct" -> Cardinality(ValueSet(rows, c))
          [] OTHER ->
               IF rows = <<>> THEN 0
               ELSE CASE spec.kind = "Sum" -> Total(rows, c)
                      [] spec.kind = "Avg" -> (AvgScale * Total(rows, c)) \div Len(rows)
                      [] spec.kind = "Min" -> Min(ValueSet(rows, c))
                      [] spec.kind = "Max" -> Max(ValueSet(rows, c))

(* The keys of the groups, in the order in which they first appear. *)
KeysOf(rows, cols) ==
    LET upTo[n \in 0..Len(rows)] ==
          IF n = 0 THEN <<>>
          ELSE IF Pick(rows[n], cols) \in Range(upTo[n - 1]) THEN upTo[n - 1]
          ELSE Append(upTo[n - 1], Pick(rows[n], cols))
    IN  upTo[Len(rows)]
OfKey(rows, cols, key) == Where(rows, {row \in Range(rows) : Pick(row, cols) = key})

Grouped(rows, cols, specs) ==
    LET keys == IF cols = <<>> THEN << <<>> >> ELSE KeysOf(rows, cols)
    IN  [g \in 1..Len(keys) |->
           keys[g] \o [s \in 1..Len(specs) |-> Aggregate(OfKey(rows, cols, keys[g]), specs[s])]]

Window(rows, limit, offset) ==
    SubSeq(rows, offset + 1,
           IF limit = 0 THEN Len(rows) ELSE Min({Len(rows), offset + limit}))

Matches(left, leftKey, value) == Where(left, {row \in Range(left) : row[leftKey] = value})
Beside(rows, row) == [m \in 1..Len(rows) |-> rows[m] \o row]
Joined(left, right, leftKey, rightKey) ==
    FlattenSeq([r \in 1..Len(right) |->
                  Beside(Matches(left, leftKey, right[r][rightKey]), right[r])])

(* The rows of all the groups of a store. *)
Scanned(groups, cols) ==
    FlattenSeq([g \in 1..Len(groups) |->
      [i \in 1..Len(groups[g].rows) |-> Pick(groups[g].rows[i], cols)]])

(* The relations an operator may return, given those its children may:      *)
(* more than one where rows tie, or come out of a hash table.               *)
AnswersBy(op, stores, A) ==
    CASE op.kind = "scan"    -> {Scanned(stores[op.store], op.cols)}
      [] op.kind = "filter"  -> {Where(rows, Passing(rows, op.preds)) : rows \in A[op.child]}
      [] op.kind = "project" -> {Evaluated(rows, op.exprs) : rows \in A[op.child]}
      [] op.kind \in {"global", "hash"} ->
           {Grouped(rows, op.cols, op.specs) : rows \in A[op.child]}
      [] op.kind = "sort" ->
           {Window(s, op.limit, op.offset) :
              s \in UNION {SortedOrderings(rows, op.keys) : rows \in A[op.child]}}
      [] op.kind = "join" ->
           UNION {Orderings(Joined(l, r, op.build_key, op.probe_key)) :
                    l \in A[op.build], r \in A[op.probe]}

(* Those of each operator of a plan, and of the plan. *)
AnswersOf(plan, stores) ==
    LET A[o \in 1..Len(plan)] == AnswersBy(plan[o], stores, A)
    IN  A
Answers(plan, stores) == AnswersOf(plan, stores)[Len(plan)]
=============================================================================
