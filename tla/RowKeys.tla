------------------------------- MODULE RowKeys -------------------------------
(***************************************************************************)
(* RowEncoder: the cells of a row, one after the other, as a string of     *)
(* bytes that serves as the key of the row's group in HashAggregate.  Two  *)
(* rows with the same column types are encoded here side by side, to say   *)
(* when they fall into one group.                                          *)
(*                                                                         *)
(* A number is what its bytes are: two doubles that compare equal but have *)
(* different bits (0.0 and -0.0) are two numbers here, and two groups in   *)
(* the code.                                                               *)
(***************************************************************************)
EXTENDS Integers, Sequences

CONSTANTS
    Byte,           \* the bytes
    Number,         \* the values of Int64 and Float64 cells
    NumberWidth,    \* sizeof(int64_t), sizeof(double): 8
    NumberBytes,    \* the bytes of a number, as memory has them
    LengthWidth,    \* sizeof(uint32_t): 4
    MaxLength,      \* the longest string, below 2^32
    LengthBytes,    \* the bytes of a length
    GroupTypes      \* the types of the columns of group_cols

ASSUME WidthAssumption == NumberWidth \in Nat /\ LengthWidth \in Nat /\ MaxLength \in Nat

(* Different numbers have different bytes, and so have different lengths.   *)
ASSUME NumberBytesAssumption ==
    /\ NumberBytes \in [Number -> [1..NumberWidth -> Byte]]
    /\ \A m, n \in Number : NumberBytes[m] = NumberBytes[n] => m = n
ASSUME LengthBytesAssumption ==
    /\ LengthBytes \in [0..MaxLength -> [1..LengthWidth -> Byte]]
    /\ \A m, n \in 0..MaxLength : LengthBytes[m] = LengthBytes[n] => m = n
ASSUME GroupTypesAssumption == GroupTypes \in Seq({"Int64", "Float64", "String"})

String == UNION {[1..n -> Byte] : n \in 0..MaxLength}
Cell(t) == IF t = "String" THEN String ELSE Number

VARIABLES
    left,           \* the cells of one row encoded so far
    right,          \* and of the other
    left_key,       \* their keys so far
    right_key

vars == <<left, right, left_key, right_key>>

(* Fault: a string goes into the key without its length. *)
EncodeCellBare(t, v) == IF t = "String" THEN v ELSE NumberBytes[v]

encode_cell(t, v) == IF t = "String" THEN LengthBytes[Len(v)] \o v ELSE NumberBytes[v]

Init == left = <<>> /\ right = <<>> /\ left_key = <<>> /\ right_key = <<>>

EncodeCells ==
    /\ Len(left) < Len(GroupTypes)
    /\ LET t == GroupTypes[Len(left) + 1]
       IN  \E v, w \in Cell(t) :
             /\ left' = Append(left, v) /\ right' = Append(right, w)
             /\ left_key' = left_key \o encode_cell(t, v)
             /\ right_key' = right_key \o encode_cell(t, w)

Spec == Init /\ [][EncodeCells]_vars

-----------------------------------------------------------------------------
(* The keys differ at a place both have, whatever is appended to them.      *)
Apart(k, l) == \E p \in 1..Len(k) : p <= Len(l) /\ k[p] # l[p]

(* The cells have their columns' types, and the keys are bytes.             *)
Cells(row) ==
    /\ Len(row) <= Len(GroupTypes) /\ row = [c \in 1..Len(row) |-> row[c]]
    /\ \A c \in 1..Len(row) : row[c] \in Cell(GroupTypes[c])

TypeOK ==
    /\ Cells(left) /\ Cells(right) /\ Len(left) = Len(right)
    /\ left_key \in Seq(Byte) /\ right_key \in Seq(Byte)

(* Two rows have the same key exactly when their cells are the same: no     *)
(* split of the bytes between neighbouring columns can make two groups one. *)
KeysTellRowsApart == left_key = right_key <=> left = right

(* And neither key is ever the beginning of the other, so what holds for    *)
(* the first columns goes on holding for all.                               *)
KeysArePrefixFree == left = right \/ Apart(left_key, right_key)
=============================================================================
