---------------------------- MODULE MCExpressions ----------------------------
(* Trees: every node over two columns of each type and two literals, and    *)
(* the ways to put a division, a comparison and a CASE, AND, OR or NOT      *)
(* together.  And where there is no tree, the functions of rows: patterns   *)
(* and strings of up to four characters, decimals of nine bits and texts of *)
(* up to five characters, pairs of points of four bits a coordinate and a   *)
(* few beyond, objects of up to three members whose names and values        *)
(* contain each other and the marks of JSON, arrays of up to four integers. *)
EXTENDS Exprs, RowFunctions

Leaves == << Node("col", "", <<1>>, <<>>), Node("col", "", <<2>>, <<>>), Node("col", "", <<3>>, <<>>),
             Node("col", "", <<4>>, <<>>), Node("col", "", <<5>>, <<>>), Node("col", "", <<6>>, <<>>),
             Node("int", "", <<0>>, <<>>), Node("str", "", <<0>>, <<>>) >>
Ints  == {1, 2, 7}

Compares(A)  == {Node("cmp", k, <<>>, <<a, b>>) : k \in CmpKinds, a \in A, b \in A}
Ariths(A)    == {Node("arith", k, <<>>, <<a, b>>) : k \in Arith, a \in A, b \in A}
Joins(A, B)  == {Node(f, "", <<>>, <<a, b>>) : f \in {"and", "or"}, a \in A, b \in B}
Cases(A, B, C) == {Node("case", "", <<>>, <<a, b, c>>) : a \in A, b \in B, c \in C}

One == Compares(1..8) \cup Ariths({1, 2, 3, 5, 7}) \cup Joins({1, 3, 5, 7}, {1, 3, 5, 7})
         \cup Cases({1, 3, 5}, 1..8, 1..8)
         \cup {Node("not", "", <<>>, <<a>>) : a \in {1, 3, 5}}
         \cup {Node("in", "", <<-1, 2>>, <<a>>) : a \in {1, 3, 5}}
Divisions == {Node("arith", k, <<>>, <<1, 2>>) : k \in {"Div", "Mod", "Mul"}}
Tests     == {Node("cmp", k, <<>>, <<2, 7>>) : k \in {"Eq", "Ne", "Lt"}}

MCExprs == {<<>>} \cup
    {Leaves \o <<n>> : n \in One}
      \cup {Leaves \o <<n, m>> : n \in Compares(Ints) \cup Ariths(Ints),
                                 m \in Joins({9}, Ints) \cup Cases({9}, {1, 3}, {2, 4})
                                         \cup Ariths({9, 2}) \cup {Node("not", "", <<>>, <<9>>)}}
      \cup {Leaves \o <<t, d, m>> : t \in Tests, d \in Divisions,
                                    m \in Cases({9}, {7}, {10}) \cup Cases({9}, {10}, {1})
                                            \cup Joins({9}, {10})}
RowOf(x, y, d, e) ==
    << Value("Int64", x), Value("Int64", y), Value("String", 1), Value("String", y % 2),
       Value("Float64", d), Value("Float64", e) >>
Minus1 == Double(TRUE, 1)
Plus2  == Double(FALSE, 2)

MCRows ==
    {RowOf(x, y, Plus2, Plus2) : x \in {-4, 0, 3}, y \in {-1, 0, 2}}
      \cup {RowOf(3, 2, d, e) : d \in {Minus1, Plus2, Double(FALSE, 0)},
                                e \in {Plus2, Double(TRUE, 2), Double(TRUE, 0)}}
MCPatterns     == UNION {[1..n -> {"a", ".", "%", "_"}] : n \in 0..4}
MCSubjects     == UNION {[1..n -> {"a", ".", "n"}] : n \in 0..4}
MCDecimalTexts == UNION {[1..n -> {Minus, Plus, Dot, 0, 1, 5}] : n \in 0..5}
MCCoordinates  == -1..16
MCShifts       == <<2, 1>>

MCKeys    == {<<"a">>, <<"a", "b">>, <<"b">>}
MCValues  == {<<>>, <<"a">>, <<"a", "b">>, <<":", "a">>, <<"}">>, <<"1", ",">>}
MCMembers == [key : MCKeys, value : MCValues, quoted : {TRUE}]
               \cup [key : MCKeys, value : {<<"1">>, <<"a", "b">>}, quoted : {FALSE}]
MCObjects  == BoundedSeq(MCMembers, 3)
MCElements == {<<"1">>, <<"1", "1">>, <<"-", "1">>, <<"2">>, <<"1", "2">>}
MCArrays   == BoundedSeq(MCElements, 4)

NoTree == expr = <<>>
FirstRow == CHOOSE r \in MCRows : TRUE

MCInit == Init /\ NoCalls /\ (NoTree => row = FirstRow)
MCNext ==
    \/ Next /\ UNCHANGED calls
    \/ NoTree /\ EvalRow /\ UNCHANGED vars
MCSpec == MCInit /\ [][MCNext]_<<vars, calls>>
=============================================================================
