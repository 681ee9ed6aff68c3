------------------------------ MODULE Pipeline ------------------------------
(***************************************************************************)
(* run_query: the operators of a plan pull batches from their children by  *)
(* calling Next().  One process, one thread: at any time a stack of calls  *)
(* is active, and only the topmost operator moves.  It has either just     *)
(* been called (ret is Calling), or its child has handed it a batch or     *)
(* End (std::nullopt).                                                     *)
(*                                                                         *)
(* A batch has a width besides its rows, because a batch without rows may  *)
(* also lack columns, and the operator above it may ask for one of them:   *)
(* std::vector::operator[] is then undefined.                              *)
(***************************************************************************)
EXTENDS Relational

CONSTANTS
    Cases,          \* the plans that are run, each with the stores it runs on
    Int64Min,       \* the numbers std::min and std::max start from; every
    Int64Max        \* number of the stores lies between them

(* A store is a sequence of row groups; its footer has, for each column of  *)
(* a group, bounds of the column's values there.                            *)
StatsSound(group) ==
    \A i \in DOMAIN group.rows : \A c \in DOMAIN group.mn :
      /\ group.rows[i][c] \in Int /\ group.mn[c] \in Int /\ group.mx[c] \in Int
      /\ group.mn[c] <= group.rows[i][c] /\ group.rows[i][c] <= group.mx[c]

(* What the constructors of the operators are given: a scan names a store   *)
(* and columns of it; all others have children that were built before.      *)
ColumnId == Nat \ {0}
AggKind  == {"CountStar", "Count", "CountDistinct", "Sum", "Avg", "Min", "Max"}

ExprOK(e) ==
    /\ e.f \in {"col", "lit", "add", "sub", "length", "minute", "trunc", "case"}
    /\ e.f \in {"lit", "add", "sub"} => e.k \in Int
    /\ e.f # "lit" => e.col \in ColumnId

ScanOK(op, stores) ==
    /\ op.store \in DOMAIN stores
    /\ op.cols \in Seq(ColumnId)
    /\ op.skip.op \in CompareOp /\ op.skip.value \in Int
    /\ \A g \in DOMAIN stores[op.store] :
         /\ Range(op.cols) \subseteq DOMAIN stores[op.store][g].mn
         /\ op.skip.col # 0 => op.skip.col \in DOMAIN stores[op.store][g].mn

OperatorOK(op, stores) ==
    \/ op.kind = "scan" /\ ScanOK(op, stores)
    \/ op.kind = "filter"
    \/ /\ op.kind = "project"
       /\ Len(op.exprs) \in Nat /\ DOMAIN op.exprs = 1..Len(op.exprs)
       /\ \A c \in DOMAIN op.exprs : ExprOK(op.exprs[c])
    \/ /\ \/ op.kind = "global" /\ op.cols = <<>>
          \/ op.kind = "hash" /\ op.cols \in Seq(ColumnId)
       /\ op.specs \in Seq([kind : AggKind, col : ColumnId])
    \/ /\ op.kind = "sort"
       /\ op.keys \in Seq([col : ColumnId, ascending : BOOLEAN])
       /\ op.limit \in Nat /\ op.offset \in Nat
    \/ /\ op.kind = "join"
       /\ op.build # op.probe /\ op.build_key \in ColumnId /\ op.probe_key \in ColumnId

Children(op) ==
    CASE op.kind = "scan" -> {}
      [] op.kind = "join" -> {op.build, op.probe}
      [] OTHER -> {op.child}

(* A plan is a tree of unique_ptrs.  Who gives a scan a predicate to skip   *)
(* by has the scan filtered by the same predicate.                          *)
FilteredBy(op, scan) ==
    /\ op.kind = "filter"
    /\ \E p \in Range(op.preds) :
         /\ p.op = scan.skip.op /\ p.value = scan.skip.value
         /\ p.col \in DOMAIN scan.cols /\ scan.cols[p.col] = scan.skip.col

PlanOK(c) ==
    /\ Len(c.plan) \in Nat \ {0} /\ DOMAIN c.plan = 1..Len(c.plan)
    /\ \A o \in 1..Len(c.plan) :
         /\ OperatorOK(c.plan[o], c.stores)
         /\ Children(c.plan[o]) \subseteq 1..o-1
         /\ \A p \in 1..Len(c.plan) :
              o # p => Children(c.plan[o]) \cap Children(c.plan[p]) = {}
         /\ c.plan[o].kind = "scan" /\ c.plan[o].skip.col # 0 =>
              /\ o # Len(c.plan)
              /\ \A p \in 1..Len(c.plan) :
                   o \in Children(c.plan[p]) => FilteredBy(c.plan[p], c.plan[o])

(* Rows have the columns that are sorted by or aggregated, and a number is  *)
(* an int64_t.                                                              *)
Reckoned(op) ==
    CASE op.kind \in {"global", "hash"} ->
           {op.specs[s].col : s \in {t \in DOMAIN op.specs : op.specs[t].kind # "CountStar"}}
      [] op.kind = "sort" -> {op.keys[k].col : k \in DOMAIN op.keys}
      [] OTHER -> {}
NumbersOK(c) ==
    \A o \in 1..Len(c.plan) : \A child \in Children(c.plan[o]) :
    \A rows \in AnswersOf(c.plan, c.stores)[child] :
    \A i \in DOMAIN rows : \A col \in Reckoned(c.plan[o]) :
      col \in DOMAIN rows[i] /\ rows[i][col] \in Int64Min..Int64Max

(* How many columns an operator's batches have, if any of them has rows,    *)
(* and which of them its parent may index.                                  *)
WidthBy(op, W) ==
    CASE op.kind = "scan" -> Len(op.cols)
      [] op.kind \in {"filter", "sort"} -> W[op.child]
      [] op.kind = "project" -> Len(op.exprs)
      [] op.kind \in {"global", "hash"} -> Len(op.cols) + Len(op.specs)
      [] op.kind = "join" -> W[op.build] + W[op.probe]
WidthsOf(pl) ==
    LET W[o \in 1..Len(pl)] == WidthBy(pl[o], W)
    IN  W

Asked(op, child) ==
    CASE op.kind = "filter"  -> ColumnsOfPreds(op.preds)
      [] op.kind = "project" -> UNION {ColumnsOf(e) : e \in Range(op.exprs)}
      [] op.kind \in {"global", "hash"} -> Range(op.cols) \cup Reckoned(op)
      [] op.kind = "sort"    -> Reckoned(op)
      [] op.kind = "join"    -> {IF child = op.build THEN op.build_key ELSE op.probe_key}

(* The plans ask for columns there are; what answers a row for no rows has  *)
(* only scans, filters and projections before it; and what is grouped or    *)
(* sorted is neither sorted nor joined.                                     *)
KindsUpTo(pl, o) == {pl[p].kind : p \in 1..o}
ColumnsOK(c) ==
    \A o \in 1..Len(c.plan) :
      LET op == c.plan[o]
      IN  /\ \A child \in Children(op) : Asked(op, child) \subseteq 1..WidthsOf(c.plan)[child]
          /\ op.kind \in {"global", "hash"} /\ op.cols = <<>> =>
               KindsUpTo(c.plan, o - 1) \subseteq {"scan", "filter", "project"}
          /\ op.kind \in {"hash", "sort"} =>
               KindsUpTo(c.plan, o - 1) \cap {"sort", "join"} = {}

ASSUME CasesAssumption ==
    /\ Int64Min \in Int /\ Int64Max \in Int
    /\ \A c \in Cases :
         /\ PlanOK(c) /\ NumbersOK(c) /\ ColumnsOK(c)
         /\ \A s \in DOMAIN c.stores :
              /\ Len(c.stores[s]) \in Nat
              /\ c.stores[s] = [g \in 1..Len(c.stores[s]) |-> c.stores[s][g]]
              /\ \A g \in DOMAIN c.stores[s] :
                   c.stores[s][g].rows \in Seq(Seq(Int)) /\ StatsSound(c.stores[s][g])

VARIABLES
    plan,           \* the operators, children first
    stores,         \* the stores the scans read
    stack,          \* the operators whose Next() is active, the topmost last
    ret,            \* what the topmost one has been handed
    rg,             \* rg_ of each scan, counted from 1
    phase,          \* done_ of aggregates and sorts, built_ of joins
    batches,        \* the batches a sort or a join has collected
    states,         \* the groups of each aggregate: key and accumulators
    inited,         \* whether a HashAggregate has seen a batch
    out,            \* the rows run_query has printed
    outcome,        \* how run_query ended
    skipped         \* history: the scans and row groups that were not read

vars == <<plan, stores, stack, ret, rg, phase, batches, states, inited, out,
          outcome, skipped>>
memory == <<rg, phase, batches, states, inited>>

Ops == 1..Len(plan)
Top == Last(stack)
Me  == plan[Top]

Calling         == [tag |-> "calling"]
End             == [tag |-> "end"]
Batch(width, rows) == [tag |-> "batch", width |-> width, rows |-> rows]

Init ==
    /\ \E c \in Cases : plan = c.plan /\ stores = c.stores
    /\ stack = <<Len(plan)>> /\ ret = Calling
    /\ rg = [o \in Ops |-> 1]
    /\ phase = [o \in Ops |-> "new"]
    /\ batches = [o \in Ops |-> <<>>]
    /\ states = [o \in Ops |-> <<>>]
    /\ inited = [o \in Ops |-> FALSE]
    /\ out = <<>> /\ outcome = "running" /\ skipped = {}

-----------------------------------------------------------------------------
(* Calls and returns. *)

(* The columns operator o indexes in the batch b of its child. *)
Touched(o, b) ==
    LET op    == plan[o]
        specs == {op.specs[s].col : s \in {t \in DOMAIN op.specs : op.specs[t].kind # "CountStar"}}
    IN  CASE op.kind = "filter"  -> ColumnsOfPreds(op.preds)
          [] op.kind = "project" -> UNION {ColumnsOf(e) : e \in Range(op.exprs)}
          [] op.kind = "global"  -> specs
          [] op.kind = "hash"    -> IF b.rows # <<>> THEN Range(op.cols) \cup specs
                                    ELSE IF inited[o] THEN {} ELSE Range(op.cols)
          [] op.kind = "sort"    -> IF b.rows = <<>> THEN {}
                                    ELSE {op.keys[k].col : k \in DOMAIN op.keys}
          [] op.kind = "join"    -> {IF phase[o] = "building" THEN op.build_key
                                                              ELSE op.probe_key}

Active(kinds) == outcome = "running" /\ stack # <<>> /\ Me.kind \in kinds
Called(kinds) == Active(kinds) /\ ret = Calling
Ended(kinds)  == Active(kinds) /\ ret = End
Handed(kinds) == Active(kinds) /\ ret.tag = "batch" /\ Touched(Top, ret) \subseteq 1..ret.width

Call(child) == stack' = Append(stack, child) /\ ret' = Calling
Return(b)   == stack' = Front(stack) /\ ret' = b

Silent == UNCHANGED <<plan, stores, out, outcome, skipped>>

(* The topmost operator asks its batch for a column that is not there. *)
MissingColumn ==
    /\ outcome = "running" /\ stack # <<>>
    /\ ret.tag = "batch"
    /\ ~(Touched(Top, ret) \subseteq 1..ret.width)
    /\ outcome' = "undefined"
    /\ UNCHANGED <<plan, stores, stack, ret, memory, out, skipped>>

-----------------------------------------------------------------------------
(* Scan. *)

Groups(o) == stores[plan[o].store]
Group     == Groups(Top)[rg[Top]]

(* By the bounds of the footer, which a group without rows does not have.   *)
CannotMatch(skip, group) ==
    /\ skip.col # 0
    /\ group.rows # <<>>
    /\ ~range_can_match(skip.op, skip.value, group.mn[skip.col], group.mx[skip.col])

SkipGroup ==
    /\ Called({"scan"})
    /\ rg[Top] <= Len(Groups(Top))
    /\ CannotMatch(Me.skip, Group)
    /\ skipped' = skipped \cup {<<Top, rg[Top]>>}
    /\ rg' = [rg EXCEPT ![Top] = @ + 1]
    /\ UNCHANGED <<plan, stores, stack, ret, phase, batches, states, inited, out, outcome>>

ReadGroup ==
    /\ Called({"scan"})
    /\ rg[Top] <= Len(Groups(Top))
    /\ ~CannotMatch(Me.skip, Group)
    /\ Return(Batch(Len(Me.cols),
                    [i \in DOMAIN Group.rows |-> Pick(Group.rows[i], Me.cols)]))
    /\ rg' = [rg EXCEPT ![Top] = @ + 1]
    /\ UNCHANGED <<phase, batches, states, inited>>
    /\ Silent

ScanEnd ==
    /\ Called({"scan"})
    /\ rg[Top] > Len(Groups(Top))
    /\ Return(End)
    /\ UNCHANGED memory /\ Silent

-----------------------------------------------------------------------------
(* Filters and Project: one call, one child batch at a time. *)

AskChild ==
    /\ Called({"filter", "project"})
    /\ Call(Me.child)
    /\ UNCHANGED memory /\ Silent

(* FilterOperator, StringFilterOperator and ExprFilterOperator. *)
FilterBatch ==
    /\ Handed({"filter"})
    /\ LET sel == Where(ret.rows, Passing(ret.rows, Me.preds))
       IN  IF sel = <<>> THEN Call(Me.child) ELSE Return(Batch(ret.width, sel))
    /\ UNCHANGED memory /\ Silent

ProjectBatch ==
    /\ Handed({"project"})
    /\ Return(Batch(Len(Me.exprs), Evaluated(ret.rows, Me.exprs)))
    /\ UNCHANGED memory /\ Silent

PassEnd ==
    /\ Ended({"filter", "project"})
    /\ Return(End)
    /\ UNCHANGED memory /\ Silent

-----------------------------------------------------------------------------
(* Aggregates and Sort consume their child in the first call, answer it     *)
(* with one batch, and every later call with End.                           *)

(* Fault: done_ is set for nobody. *)
ConsumeAgain ==
    /\ Called({"global", "hash", "sort"})
    /\ Call(Me.child)
    /\ UNCHANGED memory /\ Silent

Consume ==
    /\ Called({"global", "hash", "sort"})
    /\ IF phase[Top] = "new"
         THEN phase' = [phase EXCEPT ![Top] = "done"] /\ Call(Me.child)
         ELSE phase' = phase /\ Return(End)
    /\ UNCHANGED <<rg, batches, states, inited>>
    /\ Silent

Acc(count, sum, least, greatest, distinct) ==
    [count |-> count, sum |-> sum, min |-> least, max |-> greatest, distinct |-> distinct]
NoAcc == Acc(0, 0, Int64Max, Int64Min, {})

(* Fault: sum and extremes of an earlier batch are forgotten. *)
AccumulateAfresh(a, rows, spec) ==
    LET values == ValueSet(rows, spec.col)
    IN  CASE spec.kind = "CountStar" ->
               Acc(a.count + Len(rows), a.sum, a.min, a.max, a.distinct)
          [] spec.kind = "CountDistinct" -> Acc(a.count, a.sum, a.min, a.max, values)
          [] OTHER ->
               Acc(a.count + Len(rows), Total(rows, spec.col),
                   Min({Int64Max} \cup values), Max({Int64Min} \cup values), a.distinct)

(* What the rows of one batch add to the accumulator of an AggSpec. *)
Accumulate(a, rows, spec) ==
    LET values == ValueSet(rows, spec.col)
    IN  CASE spec.kind = "CountStar" ->
               Acc(a.count + Len(rows), a.sum, a.min, a.max, a.distinct)
          [] spec.kind = "CountDistinct" ->
               Acc(a.count, a.sum, a.min, a.max, a.distinct \cup values)
          [] OTHER ->
               Acc(a.count + Len(rows), a.sum + Total(rows, spec.col),
                   Min({a.min} \cup values), Max({a.max} \cup values), a.distinct)

(* The groups after a batch: keys not yet known start new ones. *)
NewGroups(op, keys) ==
    [g \in DOMAIN keys |-> [key |-> keys[g], accs |-> [s \in DOMAIN op.specs |-> NoAcc]]]
WithBatch(op, groups, rows) ==
    LET keys  == KeysOf(rows, op.cols)
        known == {groups[g].key : g \in DOMAIN groups}
        all   == groups \o NewGroups(op, Where(keys, Range(keys) \ known))
    IN  [g \in DOMAIN all |->
           [key  |-> all[g].key,
            accs |-> [s \in DOMAIN op.specs |->
                        Accumulate(all[g].accs[s], OfKey(rows, op.cols, all[g].key), op.specs[s])]]]

AggregateBatch ==
    /\ Handed({"global", "hash"})
    /\ states' = [states EXCEPT ![Top] = WithBatch(Me, @, ret.rows)]
    /\ inited' = [inited EXCEPT ![Top] = TRUE]
    /\ Call(Me.child)
    /\ UNCHANGED <<rg, phase, batches>>
    /\ Silent

Result(a, spec) ==
    CASE spec.kind \in {"CountStar", "Count"} -> a.count
      [] spec.kind = "CountDistinct" -> Cardinality(a.distinct)
      [] OTHER ->
           IF a.count = 0 THEN 0
           ELSE CASE spec.kind = "Sum" -> a.sum
                  [] spec.kind = "Avg" -> (AvgScale * a.sum) \div a.count
                  [] spec.kind = "Min" -> a.min
                  [] spec.kind = "Max" -> a.max

(* Fault: no batch has the group columns. *)
AggregateWidthNarrow(o) == Len(plan[o].specs)

(* The group columns are made from the first batch. *)
AggregateWidth(o) ==
    (IF inited[o] THEN Len(plan[o].cols) ELSE 0) + Len(plan[o].specs)

(* Without group columns there is one group, also where there are no rows.  *)
ResultRows(op, groups) ==
    LET all == IF groups = <<>> /\ op.cols = <<>> THEN NewGroups(op, << <<>> >>) ELSE groups
    IN  [g \in DOMAIN all |->
           all[g].key \o [s \in DOMAIN op.specs |-> Result(all[g].accs[s], op.specs[s])]]

AggregateResult ==
    /\ Ended({"global", "hash"})
    /\ Return(Batch(AggregateWidth(Top), ResultRows(Me, states[Top])))
    /\ UNCHANGED memory /\ Silent

(* A sort or the build side of a join keeps the batch. *)
Keep(child) ==
    /\ batches' = [batches EXCEPT ![Top] = Append(@, ret)]
    /\ Call(child)
    /\ UNCHANGED <<rg, phase, states, inited>>
    /\ Silent

AllRows(bs)   == FlattenSeq([i \in DOMAIN bs |-> bs[i].rows])
WidthOf(bs)   == IF bs = <<>> THEN 0 ELSE bs[1].width

SortBatch == Handed({"sort"}) /\ Keep(Me.child)

(* [start, end) in the sorted rows. *)
SortBounds(total, limit, offset) ==
    LET start == Min({offset, total})
    IN  [start |-> start,
         end   |-> IF limit > 0 /\ start + limit < total THEN start + limit ELSE total]

(* std::sort and std::partial_sort leave rows that tie in any order. *)
SortResult ==
    /\ Ended({"sort"})
    /\ LET rows == AllRows(batches[Top])
           b    == SortBounds(Len(rows), Me.limit, Me.offset)
       IN  \E s \in SortedOrderings(rows, Me.keys) :
             Return(Batch(WidthOf(batches[Top]), SubSeq(s, b.start + 1, b.end)))
    /\ UNCHANGED memory /\ Silent

-----------------------------------------------------------------------------
(* HashJoin: the first call takes all of the build side, then every call    *)
(* answers with the matches of one probe batch that has any.                *)

JoinBuild ==
    /\ Called({"join"})
    /\ phase[Top] = "new"
    /\ phase' = [phase EXCEPT ![Top] = "building"]
    /\ Call(Me.build)
    /\ UNCHANGED <<rg, batches, states, inited>>
    /\ Silent

JoinBuildBatch == Handed({"join"}) /\ phase[Top] = "building" /\ Keep(Me.build)

Probe == IF batches[Top] = <<>> THEN Return(End) ELSE Call(Me.probe)

(* The build side is complete; the rows of the multimap come back in any    *)
(* order.                                                                   *)
JoinBuilt ==
    /\ Ended({"join"})
    /\ phase[Top] = "building"
    /\ phase' = [phase EXCEPT ![Top] = "done"]
    /\ \E s \in Orderings(AllRows(batches[Top])) :
         batches' = [batches EXCEPT ![Top] =
                       IF @ = <<>> THEN @ ELSE <<Batch(WidthOf(@), s)>>]
    /\ Probe
    /\ UNCHANGED <<rg, states, inited>>
    /\ Silent

JoinProbe ==
    /\ Called({"join"})
    /\ phase[Top] = "done"
    /\ Probe
    /\ UNCHANGED memory /\ Silent

JoinBatch ==
    /\ Handed({"join"})
    /\ phase[Top] = "done"
    /\ LET rows == Joined(AllRows(batches[Top]), ret.rows, Me.build_key, Me.probe_key)
       IN  IF rows = <<>> THEN Call(Me.probe)
                          ELSE Return(Batch(WidthOf(batches[Top]) + ret.width, rows))
    /\ UNCHANGED memory /\ Silent

JoinEnd ==
    /\ Ended({"join"})
    /\ phase[Top] = "done"
    /\ Return(End)
    /\ UNCHANGED memory /\ Silent

-----------------------------------------------------------------------------
(* run_query prints the rows of a batch and asks the root for the next. *)

Deliver ==
    /\ outcome = "running" /\ stack = <<>>
    /\ ret.tag = "batch"
    /\ out' = out \o ret.rows
    /\ stack' = <<Len(plan)>> /\ ret' = Calling
    /\ UNCHANGED <<plan, stores, memory, outcome, skipped>>

Finish ==
    /\ outcome = "running" /\ stack = <<>>
    /\ ret = End
    /\ outcome' = "done"
    /\ UNCHANGED <<plan, stores, stack, ret, memory, out, skipped>>

Next ==
    \/ MissingColumn
    \/ SkipGroup \/ ReadGroup \/ ScanEnd
    \/ AskChild \/ FilterBatch \/ ProjectBatch \/ PassEnd
    \/ Consume \/ AggregateBatch \/ AggregateResult \/ SortBatch \/ SortResult
    \/ JoinBuild \/ JoinBuildBatch \/ JoinBuilt \/ JoinProbe \/ JoinBatch \/ JoinEnd
    \/ Deliver \/ Finish

Spec == Init /\ [][Next]_vars

(* A single thread runs the query, and it keeps running. *)
FairSpec == Spec /\ WF_vars(Next)

-----------------------------------------------------------------------------
(* Well-formedness of the state. *)
TypeOK ==
    /\ stack \in Seq(Ops)
    /\ ret \in {Calling, End} \/
         /\ ret.tag = "batch"
         /\ \A i \in DOMAIN ret.rows : Len(ret.rows[i]) = ret.width
    /\ \A o \in Ops :
         /\ phase[o] \in {"new", "building", "done"}
         /\ rg[o] \in 1..(IF plan[o].kind = "scan" THEN Len(Groups(o)) + 1 ELSE 1)
         /\ batches[o] # <<>> => plan[o].kind \in {"sort", "join"}
         /\ states[o] # <<>> => plan[o].kind \in {"global", "hash"}
         /\ IsInjective([g \in DOMAIN states[o] |-> states[o][g].key])
    /\ outcome \in {"running", "done", "undefined"}

(* What a query prints is an answer its plan has on the whole table: the    *)
(* cut into row groups, the groups that are skipped, the batches in which   *)
(* rows travel and the accumulators kept from batch to batch never show.    *)
ResultIsAnAnswer == outcome = "done" => out \in Answers(plan, stores)

(* A row group a scan leaves out has no row that its predicate accepts      *)
(* (ScanOperator::Next and range_can_match).                                *)
SkippedGroupsHoldNoMatch ==
    \A s \in skipped :
      LET skip == plan[s[1]].skip
          rows == Groups(s[1])[s[2]].rows
      IN  \A i \in DOMAIN rows : ~apply_cmp(rows[i][skip.col], skip.op, skip.value)

(* No operator indexes a column its batch lacks, whatever the table holds   *)
(* (README.md:75: any of the queries 0..42 can be run).  Queries 24, 26 and *)
(* 27 break it: the next property says how far.                             *)
ColumnsExist == outcome # "undefined"

(* An operator indexes a column its batch lacks only where the answer has   *)
(* no row: a batch that has rows has all its columns, in whatever batch a   *)
(* group or a key was first seen (HashAggregateOperator's group_out and     *)
(* SortOperator's columns are made from the first batch).                   *)
ColumnsComeWithRows == outcome = "undefined" => Answers(plan, stores) = {<<>>}

(* Every query ends, because each operator that has answered End once goes  *)
(* on answering End.                                                        *)
QueryEnds == <>(outcome # "running")
=============================================================================
