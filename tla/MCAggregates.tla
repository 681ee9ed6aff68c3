----------------------------- MODULE MCAggregates -----------------------------
(* The two halves of a hash aggregate.  Its accumulators, over integers of  *)
(* three bits, so that three rows overflow in both directions and back,     *)
(* doubles that print alike and doubles that do not, the empty string and   *)
(* two others.  And, before any row is accumulated, the keys of two rows:   *)
(* two-byte numbers and one-byte lengths over three bytes, so that the      *)
(* bytes of a number, of a length and of a string look alike.               *)
EXTENDS RowKeys, Accumulators

MCInt64s   == {-4, -1, 2, 3}
MCFloat64s == {-8, -3, -1, 0, 3, 4}
MCStrings  == {0, 1, 2}

MCByte        == 0..2
MCNumber      == 0..3
MCNumberBytes == [n \in 0..3 |-> <<n \div 2, n % 2>>]
MCLengthBytes == [n \in 0..2 |-> <<n>>]
MCGroupTypes  == <<"String", "Int64", "String">>

MCInit == Init /\ AccInit
MCNext ==
    \/ left = <<>> /\ AccNext /\ UNCHANGED vars
    \/ seen = <<>> /\ type = "Int64" /\ EncodeCells /\ UNCHANGED accVars
MCSpec == MCInit /\ [][MCNext]_<<vars, accVars>>
=============================================================================
