----------------------------- MODULE MCStoreScan -----------------------------
(* Instances of StoreScan for TLC: an Int64 and a Float64 column, groups of *)
(* two rows, two predicates, and a second conversion that rewrites the *)
(* store while the scan is under way.                                       *)
EXTENDS StoreScan, StoreTable

MCTypes   == <<"Int64", "Float64">>
MCIntMin  == -1
MCCsvRows == {<<1, -1>>, <<-1, 1>>}
MCColIds  == <<2, 1>>
MCSkips   == [col : {1}, op : {"Ne", "Gt"}, value : {1}]
=============================================================================
