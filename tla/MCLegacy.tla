------------------------------- MODULE MCLegacy -------------------------------
(* The older parts that only the tests still use: tables of up to two       *)
(* columns and two rows in the legacy file, converted twice; or, with no    *)
(* table at all, bytes of two values in runs of up to two more than a count *)
(* can hold.                                                                *)
EXTENDS LegacyFile, ByteRle, TLC

MCSchemas == {<<>>, <<"Int64">>, <<"String">>, <<"Float64", "Int64">>, <<"String", "Int64">>}
MCTexts   == {"", "07", "x", "0.5"}
MCPrinted == [Int64   |-> ("0" :> "0" @@ "7" :> "7" @@ "07" :> "7"),
              Float64 |-> ("0.5" :> "0.500000" @@ "0.500000" :> "0.500000" @@ "0.000000" :> "0.000000")]
MCZero    == [Int64 |-> "0", Float64 |-> "0.000000", String |-> ""]
MCInputs  == UNION {[1..n -> {0, 2}] : n \in 0..10}

NoBytes == data = <<>> /\ type = "None" /\ stage = "compress"
NoTable == schema = <<>> /\ csv = <<>> /\ bc = FALSE /\ disk = NoFile /\ pc = "reading"

MCInit ==
    \/ NoBytes /\ RleInit /\ Init
    \/ NoTable /\ Init /\ RleInit
MCNext ==
    \/ NoBytes /\ Next /\ UNCHANGED rleVars
    \/ NoTable /\ RleNext /\ UNCHANGED vars
MCSpec == MCInit /\ [][MCNext]_<<vars, rleVars>>
=============================================================================
