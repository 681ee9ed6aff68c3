------------------------------- MODULE MCStore -------------------------------
(* Instances of Store for TLC: an Int64 and a String column, groups of two *)
(* rows, and data CSVs with good rows, a number std::stoll rejects and a   *)
(* row with a missing field.                                               *)
EXTENDS StoreTable

MCTypes   == <<"Int64", "String">>
MCIntMin  == -1
MCGood    == {<<-1, 7>>, <<2, 0>>}
MCCsvRows == MCGood \cup {<<3, 0>>, <<1>>}
=============================================================================
