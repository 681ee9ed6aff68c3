----------------------------- MODULE QueryPlans -----------------------------
(***************************************************************************)
(* The plans that build_query makes: q<n> is query n.  A scan lists        *)
(* columns by name; here a store has just the columns of the scan, in the  *)
(* scan's order, so the columns of the scan are 1, 2, ...  The literals of *)
(* the queries are the constants of this module, whose values a model      *)
(* chooses small.  A LIKE is the set of the strings it accepts; which ones *)
(* those are is the subject of Like.tla.                                   *)
(***************************************************************************)
EXTENDS Relational

CONSTANTS
    Target,         \* the user query 19 looks for
    CounterId,      \* the counter of queries 36 to 42: 62
    FirstDay,       \* the first and the last day of those queries
    LastDay,
    RefererHash,    \* the hashes queries 40 and 41 look for
    UrlHash,
    GoogleUrls,     \* the strings like %google%
    GoogleHosts,    \* the strings like %.google.%
    GoogleTitles,   \* the strings like %Google%
    Shifts,         \* the sums of query 29: 90
    TopK,           \* the LIMIT of most queries: 10, or 25 (27 and 28)
    Skipped,        \* the OFFSET of queries 38 to 42: 100, 1000 or 10000
    ManyRows        \* the HAVING bound of queries 27 and 28: 100000

Columns(n)  == [i \in 1..n |-> i]
ScanAll(n)  == Scan(1, Columns(n), NoSkip)
NotEmpty(c) == <<Pred(c, "Ne", 0)>>
Col(c)      == Expr("col", c, 0)
Rows        == Agg("CountStar", 1)

(* The groups of a plan's rows, those with the most of column by first. *)
TopGroups(plan, cols, specs, by, limit, offset) ==
    plan \o << HashAggregate(Len(plan), cols, specs),
               Sort(Len(plan) + 1, <<Key(by, FALSE)>>, limit, offset) >>

(* Columns 1 to n of the rows whose column c is not the empty string. *)
ScanNotEmpty(n, c) == << ScanAll(n), Filter(1, NotEmpty(c)) >>

q0 == << ScanAll(0), GlobalAggregate(1, <<Rows>>) >>

q1 == << Scan(1, <<1>>, Pred(1, "Ne", 0)),
         Filter(1, <<Pred(1, "Ne", 0)>>),
         GlobalAggregate(2, <<Rows>>) >>

q2 == << ScanAll(2),
         GlobalAggregate(1, <<Agg("Sum", 1), Rows, Agg("Avg", 2)>>) >>

q3 == << ScanAll(1), GlobalAggregate(1, <<Agg("Avg", 1)>>) >>

q4 == << ScanAll(1), HashAggregate(1, <<>>, <<Agg("CountDistinct", 1)>>) >>

q5 == << ScanAll(1), HashAggregate(1, <<>>, <<Agg("CountDistinct", 1)>>) >>

q6 == << ScanAll(1), GlobalAggregate(1, <<Agg("Min", 1), Agg("Max", 1)>>) >>

q7 == TopGroups(<< Scan(1, <<1>>, Pred(1, "Ne", 0)), Filter(1, <<Pred(1, "Ne", 0)>>) >>,
                <<1>>, <<Rows>>, 2, 0, 0)

q8 == TopGroups(<< ScanAll(2) >>, <<1>>, <<Agg("CountDistinct", 2)>>, 2, TopK, 0)

q9 == TopGroups(<< ScanAll(4) >>, <<1>>,
                <<Agg("Sum", 2), Rows, Agg("Avg", 3), Agg("CountDistinct", 4)>>, 3, TopK, 0)

q10 == TopGroups(ScanNotEmpty(2, 1), <<1>>, <<Agg("CountDistinct", 2)>>, 2, TopK, 0)

q11 == TopGroups(ScanNotEmpty(3, 2), <<1, 2>>, <<Agg("CountDistinct", 3)>>, 3, TopK, 0)

q12 == TopGroups(ScanNotEmpty(1, 1), <<1>>, <<Rows>>, 2, TopK, 0)

q13 == TopGroups(ScanNotEmpty(2, 1), <<1>>, <<Agg("CountDistinct", 2)>>, 2, TopK, 0)

q14 == TopGroups(ScanNotEmpty(2, 2), <<1, 2>>, <<Rows>>, 3, TopK, 0)

q15 == TopGroups(<< ScanAll(1) >>, <<1>>, <<Rows>>, 2, TopK, 0)

q16 == TopGroups(<< ScanAll(2) >>, <<1, 2>>, <<Rows>>, 3, TopK, 0)

q17 == TopGroups(<< ScanAll(2) >>, <<1, 2>>, <<Rows>>, 3, TopK, 0)

q18 == TopGroups(<< ScanAll(3), Project(1, <<Col(1), Expr("minute", 2, 0), Col(3)>>) >>,
                 <<1, 2, 3>>, <<Rows>>, 4, TopK, 0)

q19 == << Scan(1, <<1>>, Pred(1, "Eq", Target)),
          Filter(1, <<Pred(1, "Eq", Target)>>) >>

q20 == << ScanAll(1), Filter(1, <<Pred(1, "In", GoogleUrls)>>),
          GlobalAggregate(2, <<Rows>>) >>

q21 == TopGroups(<< ScanAll(2), Filter(1, <<Pred(2, "In", GoogleUrls)>> \o NotEmpty(1)) >>,
                 <<1>>, <<Agg("Min", 2), Rows>>, 3, TopK, 0)

q22 == TopGroups(<< ScanAll(4),
                    Filter(1, <<Pred(3, "In", GoogleTitles), Pred(2, "NotIn", GoogleHosts)>>
                              \o NotEmpty(1)) >>,
                 <<1>>, <<Agg("Min", 2), Agg("Min", 3), Rows, Agg("CountDistinct", 4)>>,
                 4, TopK, 0)

(* Query 23 scans every column of the table; of three, URL is the second    *)
(* and EventTime the third.                                                 *)
q23 == << ScanAll(3), Filter(1, <<Pred(2, "In", GoogleUrls)>>),
          Sort(2, <<Key(3, TRUE)>>, TopK, 0) >>

q24 == ScanNotEmpty(2, 1) \o << Sort(2, <<Key(2, TRUE)>>, TopK, 0), Project(3, <<Col(1)>>) >>

q25 == ScanNotEmpty(1, 1) \o << Sort(2, <<Key(1, TRUE)>>, TopK, 0) >>

q26 == ScanNotEmpty(2, 1) \o
       << Sort(2, <<Key(2, TRUE), Key(1, TRUE)>>, TopK, 0), Project(3, <<Col(1)>>) >>

q27 == ScanNotEmpty(2, 2) \o
       << Project(2, <<Col(1), Expr("length", 2, 0)>>),
          HashAggregate(3, <<1>>, <<Agg("Avg", 2), Rows>>),
          Filter(4, <<Pred(3, "Gt", ManyRows)>>),
          Sort(5, <<Key(2, FALSE)>>, TopK, 0) >>

q28 == ScanNotEmpty(1, 1) \o
       << Project(2, <<Col(1), Expr("length", 1, 0), Col(1)>>),
          HashAggregate(3, <<1>>, <<Agg("Avg", 2), Rows, Agg("Min", 3)>>),
          Filter(4, <<Pred(3, "Gt", ManyRows)>>),
          Sort(5, <<Key(2, FALSE)>>, TopK, 0) >>

q29 == << ScanAll(1),
          Project(1, [i \in 1..Shifts |-> IF i = 1 THEN Col(1) ELSE Expr("add", 1, i - 1)]),
          GlobalAggregate(2, [i \in 1..Shifts |-> Agg("Sum", i)]) >>

Sessions == <<Rows, Agg("Sum", 3), Agg("Avg", 4)>>

q30 == TopGroups(ScanNotEmpty(5, 5), <<1, 2>>, Sessions, 3, TopK, 0)

q31 == TopGroups(ScanNotEmpty(5, 5), <<1, 2>>, Sessions, 3, TopK, 0)

q32 == TopGroups(<< ScanAll(4) >>, <<1, 2>>, Sessions, 3, TopK, 0)

q33 == TopGroups(<< ScanAll(1) >>, <<1>>, <<Rows>>, 2, TopK, 0)

q34 == TopGroups(<< ScanAll(1), Project(1, <<Expr("lit", 0, 1), Col(1)>>) >>,
                 <<1, 2>>, <<Rows>>, 3, TopK, 0)

q35 == TopGroups(<< ScanAll(1),
                    Project(1, <<Col(1), Expr("sub", 1, 1), Expr("sub", 1, 2), Expr("sub", 1, 3)>>) >>,
                 <<1, 2, 3, 4>>, <<Rows>>, 5, TopK, 0)

OneCounter(counter, day) ==
    <<Pred(counter, "Eq", CounterId), Pred(day, "Ge", FirstDay), Pred(day, "Le", LastDay)>>

(* What queries 36 and 37 share: one counts URLs, the other titles. *)
PageViews == TopGroups(
    << ScanAll(5),
       Filter(1, OneCounter(2, 3) \o <<Pred(4, "Eq", 0), Pred(5, "Eq", 0)>> \o NotEmpty(1)) >>,
    <<1>>, <<Rows>>, 2, TopK, 0)

q36 == PageViews
q37 == PageViews

q38 == TopGroups(
    << ScanAll(6),
       Filter(1, OneCounter(2, 3) \o <<Pred(4, "Eq", 0), Pred(5, "Ne", 0), Pred(6, "Eq", 0)>>) >>,
    <<1>>, <<Rows>>, 2, TopK, Skipped)

q39 == TopGroups(
    << ScanAll(8),
       Filter(1, OneCounter(6, 7) \o <<Pred(8, "Eq", 0)>>),
       Project(2, <<Col(1), Col(2), Col(3),
                    Expr("case", 4, <<Pred(2, "Eq", 0), Pred(3, "Eq", 0)>>), Col(5)>>) >>,
    <<1, 2, 3, 4, 5>>, <<Rows>>, 6, TopK, Skipped)

q40 == TopGroups(
    << ScanAll(6),
       Filter(1, OneCounter(3, 2) \o
                 <<Pred(4, "Eq", 0), Pred(5, "In", {-1, 6}), Pred(6, "Eq", RefererHash)>>) >>,
    <<1, 2>>, <<Rows>>, 3, TopK, Skipped)

q41 == TopGroups(
    << ScanAll(7),
       Filter(1, OneCounter(3, 4) \o
                 <<Pred(5, "Eq", 0), Pred(6, "Eq", 0), Pred(7, "Eq", UrlHash)>>) >>,
    <<1, 2>>, <<Rows>>, 3, TopK, Skipped)

q42 == << ScanAll(5),
          Filter(1, OneCounter(2, 3) \o <<Pred(4, "Eq", 0), Pred(5, "Eq", 0)>>),
          Project(2, <<Expr("trunc", 1, 0)>>),
          HashAggregate(3, <<1>>, <<Rows>>),
          Sort(4, <<Key(1, TRUE)>>, TopK, Skipped) >>

(* The join of tests/join_smoke.cpp, users with orders; no query has one. *)
join_smoke == << Scan(1, <<1, 2>>, NoSkip), Scan(2, <<1, 2, 3>>, NoSkip),
                 HashJoin(1, 2, 1, 2) >>
=============================================================================
