-------------------------------- MODULE Store --------------------------------
(***************************************************************************)
(* A conversion and a query on the same store file: `columnar convert' and *)
(* `columnar query' are separate processes that share nothing but the file *)
(* and lock nothing.                                                       *)
(***************************************************************************)
EXTENDS StoreWriter, StoreReader

vars == <<diskVars, writerVars, readerVars>>

Init == WriterInit /\ ReaderInit

Next == \/ WriterNext /\ UNCHANGED readerVars
        \/ ReaderNext /\ UNCHANGED writerVars

Spec == Init /\ [][Next]_vars


-----------------------------------------------------------------------------
(* Type invariant. *)

WriterPc == {"idle", "open", "rows", "flush", "footer", "close"}

WriterTypeOK ==
    /\ file \in Seq(Cell) /\ durable \in 0..Len(file) /\ gen \in Nat
    /\ wpc \in WriterPc
    /\ columns \in [1..NCols -> Seq(Int)]
    /\ buffered \in Nat /\ total_rows \in Nat
    /\ groups \in Seq(RowGroupMeta) /\ cmetas \in Seq(ChunkMeta)
    /\ eof \in BOOLEAN /\ failed \in BOOLEAN
    /\ exit \in {"none", "done", "failed", "killed"}
    /\ input \in Seq(Seq(Int)) /\ starts \in Seq(Nat)

ReaderTypeOK ==
    /\ rpc \in {"closed", "checked", "open", "garbage", "rejected"}
    /\ rsize \in Nat /\ rtypes \in Seq(DataType) /\ rgroups \in Seq(RowGroupMeta)
    /\ rfail \in BOOLEAN /\ rgen \in Nat
    /\ got \in [rg : Nat, col : Nat, how : {"none", "values", "throw", "garbage"},
                vals : Seq(Int)]

TypeOK == WriterTypeOK /\ ReaderTypeOK

-----------------------------------------------------------------------------
(* The rows of the CSV that row group g holds, column c. *)
Slice(g, c) == [i \in 1..groups[g].num_rows |-> input[starts[g] + i][c]]

(* The open reader read the footer of the file that is there now. *)
Current == rpc = "open" /\ rgen = gen

(* Whether the codecs keep the values of a column of type t: all but        *)
(* integers that are packed and lie too far apart.                          *)
Keeps(t, vals) == t = "Int64" /\ Compress => Narrow(vals)

(* vals are those of group g, column c, as far as the codecs keep them. *)
ReadBack(g, c, vals) ==
    /\ Len(vals) = groups[g].num_rows
    /\ Keeps(Types[c], Slice(g, c)) => vals = Slice(g, c)

(* What read_chunk returns is what the CSV held in those rows of that       *)
(* column, as long as no conversion has truncated the file since the        *)
(* footer was read: the offsets and counts of the footer, the encoding of   *)
(* each chunk and the buffers convert_csv resets between groups agree.      *)
(* Integers of a group that lie too far apart for packing may come back     *)
(* changed, but as many as there were and without an exception.             *)
ReadsReturnTheCsv ==
    Current /\ got.how # "none" =>
        got.how = "values" /\ ReadBack(got.rg, got.col, got.vals)

(* The groups an open store shows are all the rows of the CSV, each once    *)
(* and in order, or the store shows no column at all: never a part of a     *)
(* table, whatever the moment convert_csv was killed or the disk filled.    *)
AllRowsOrNone ==
    Current /\ rtypes # <<>> =>
        /\ rtypes = Types
        /\ rgroups # <<>>
        /\ starts[1] = 0
        /\ \A g \in 1..Len(rgroups) :
             starts[g] + rgroups[g].num_rows =
                 IF g = Len(rgroups) THEN Len(input) ELSE starts[g + 1]
        /\ eof

(* Only the last group may be short, and a group is empty only in a store   *)
(* of an empty CSV: `rows_in_group' never sends an empty batch into a plan  *)
(* over a table with rows.                                                  *)
GroupsAreFull ==
    \A g \in 1..Len(groups) :
        /\ groups[g].num_rows <= RowsPerGroup
        /\ groups[g].num_rows < RowsPerGroup => g = Len(groups) /\ eof
        /\ groups[g].num_rows = 0 => total_rows = 0

(* The minimum and maximum of a chunk are those of the rows it holds: the   *)
(* scan skips a group on their word alone.                                  *)
StatsAreTheRange ==
    \A g \in 1..Len(groups) : \A c \in 1..NCols :
        LET m == groups[g].columns[c]
        IN  m.has_stats /\ Types[c] = "Int64" =>
              /\ \A i \in 1..groups[g].num_rows : Slice(g, c)[i] \in m.min_i..m.max_i
              /\ \E i, j \in 1..groups[g].num_rows :
                   Slice(g, c)[i] = m.min_i /\ Slice(g, c)[j] = m.max_i

(* A conversion that reports success has left a finished store, unless the  *)
(* stream failed.                                                           *)
SuccessMeansSealed == exit = "done" /\ ~failed => Sealed

(* What is on disk stays as it is until a conversion truncates the file:    *)
(* a conversion only appends, and a query changes nothing.                  *)
DiskOnlyGrows ==
    [][gen' = gen => /\ durable' >= durable
                     /\ \A i \in 1..durable : file'[i] = file[i]]_vars



(* README.md:80-96 describes the file every store is: magic, row groups,    *)
(* footer, footer length and magic.  When no conversion is running, a file  *)
(* that has any contents and that a reader opens is such a file.            *)
OpenStoreIsFinished == Current /\ wpc = "idle" /\ durable > 0 => Sealed
=============================================================================
