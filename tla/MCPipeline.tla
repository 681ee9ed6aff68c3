----------------------------- MODULE MCPipeline -----------------------------
(* Queries on all small tables, cut into row groups of two rows. *)
EXTENDS Pipeline, QueryPlans

RowsPerGroup == 2
MCInt64Min   == -9999
MCGoogleUrls   == {1, 2}
MCGoogleHosts  == {2}
MCGoogleTitles == {1}

GroupOf(rows, width) ==
    [rows |-> rows,
     mn   |-> [c \in 1..width |-> IF rows = <<>> THEN 0 ELSE Min(ValueSet(rows, c))],
     mx   |-> [c \in 1..width |-> IF rows = <<>> THEN 0 ELSE Max(ValueSet(rows, c))]]

(* The row groups convert_csv makes of a table: one without rows if the     *)
(* table has none.                                                          *)
Store(rows, width) ==
    LET n == IF rows = <<>> THEN 1 ELSE (Len(rows) + RowsPerGroup - 1) \div RowsPerGroup
    IN  [g \in 1..n |-> GroupOf(SubSeq(rows, RowsPerGroup * (g - 1) + 1,
                                     Min({RowsPerGroup * g, Len(rows)})), width)]

CasesOf(plans, width, tables) ==
    {[plan |-> p, stores |-> <<Store(t, width)>>] : p \in plans, t \in tables}

Tables(values, n) == BoundedSeq(values, n)
Pairs == (0..1) \X (0..2)

(* Rows that pass the filters of queries 20 to 23 and 36 to 42, and a few   *)
(* that do not.                                                             *)
Clicks36 == {<<1, 1, 1, 0, 0>>, <<2, 1, 2, 0, 0>>, <<0, 1, 1, 0, 0>>, <<1, 2, 1, 0, 0>>, <<1, 1, 3, 0, 0>>}
Clicks38 == {<<1, 1, 1, 0, 1, 0>>, <<2, 1, 2, 0, 1, 0>>, <<3, 1, 1, 0, 1, 0>>, <<1, 1, 0, 0, 1, 0>>}
Clicks39 == {<<1, 0, 0, 1, 1, 1, 1, 0>>, <<1, 0, 1, 1, 1, 1, 1, 0>>, <<1, 0, 1, 2, 1, 1, 2, 0>>,
             <<1, 1, 0, 2, 1, 1, 3, 0>>}
Clicks40 == {<<1, 1, 1, 0, -1, 1>>, <<1, 2, 1, 0, 6, 1>>, <<2, 1, 1, 0, 1, 1>>, <<1, 1, 1, 0, 6, 2>>}
Clicks41 == {<<1, 1, 1, 1, 0, 0, 1>>, <<1, 2, 1, 2, 0, 0, 1>>, <<2, 2, 1, 1, 0, 0, 2>>, <<2, 2, 1, 1, 0, 1, 1>>}
Clicks42 == {<<61, 1, 1, 0, 0>>, <<119, 1, 1, 0, 0>>, <<120, 1, 2, 0, 0>>, <<61, 1, 1, 0, 1>>}
Visits9  == {<<1, 0, 1, 1>>, <<1, 1, 3, 1>>, <<2, 1, 1, 2>>, <<1, 2, 1, 2>>}
Visits11 == {<<1, 0, 1>>, <<1, 1, 1>>, <<1, 1, 2>>, <<2, 1, 1>>}
Visits18 == {<<1, 59, 0>>, <<1, 60, 0>>, <<1, 119, 0>>, <<1, 3660, 0>>}
Visits22 == {<<1, 1, 1, 1>>, <<1, 3, 1, 2>>, <<2, 2, 1, 1>>, <<1, 1, 2, 2>>, <<0, 1, 1, 1>>}
Visits23 == {<<1, 1, 2>>, <<2, 2, 1>>, <<1, 2, 2>>, <<1, 3, 1>>}
Visits31 == {<<1, 1, 0, 1, 1>>, <<1, 1, 1, 2, 1>>, <<1, 2, 1, 1, 2>>, <<2, 1, 1, 1, 0>>}
Users    == {<<1, 7>>, <<2, 8>>}
Orders   == {<<1, 1, 5>>, <<2, 2, 5>>, <<3, 9, 5>>}

MCCases ==
    CasesOf({q0}, 0, Tables({<<>>}, 4))
      \cup CasesOf({q1, q3, q4, q6, q7, q15, q19, q29}, 1, Tables({<<v>> : v \in -1..1}, 4))
      \cup CasesOf({q5, q12, q20, q25, q28, q33, q34}, 1, Tables({<<v>> : v \in 0..2}, 4))
      \cup CasesOf({q35}, 1, Tables({<<v>> : v \in 1..2}, 4))
      \cup CasesOf({q2, q8, q10, q13, q14, q16, q17, q21, q24, q26, q27}, 2, Tables(Pairs, 3))
      \cup CasesOf({q9}, 4, Tables(Visits9, 3)) \cup CasesOf({q11}, 3, Tables(Visits11, 3))
      \cup CasesOf({q18}, 3, Tables(Visits18, 3)) \cup CasesOf({q22}, 4, Tables(Visits22, 3))
      \cup CasesOf({q23}, 3, Tables(Visits23, 3))
      \cup CasesOf({q30, q31, q32}, 5, Tables(Visits31, 3))
      \cup CasesOf({q36, q37}, 5, Tables(Clicks36, 3)) \cup CasesOf({q42}, 5, Tables(Clicks42, 3))
      \cup CasesOf({q38}, 6, Tables(Clicks38, 4)) \cup CasesOf({q39}, 8, Tables(Clicks39, 4))
      \cup CasesOf({q40}, 6, Tables(Clicks40, 4)) \cup CasesOf({q41}, 7, Tables(Clicks41, 3))
      \cup {[plan |-> join_smoke, stores |-> <<Store(u, 2), Store(o, 3)>>] :
              u \in Tables(Users, 2), o \in Tables(Orders, 3)}
=============================================================================
