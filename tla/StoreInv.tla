------------------------------- MODULE StoreInv -------------------------------
(***************************************************************************)
(* The inductive invariant of Store, from which StoreProofs derives the    *)
(* type invariant and the safety properties.                               *)
(***************************************************************************)
EXTENDS Store

(* The trailing magic has been written to the stream. *)
FooterWritten == Len(file) > 1 /\ file[Len(file)].k = "magic"

(* How much of the file is magic and chunks. *)
DataLen == IF FooterWritten THEN Len(file) - Len(groups) - 4 ELSE Len(file)

(* Data cells only, up to the footer; and the footer after them. *)
FileInv ==
    /\ gen > 0 => file # <<>> /\ file[1].k = "magic"
    /\ gen = 0 => file = <<>> /\ wpc = "idle"
    /\ gen > 0 => DataLen >= 1
    /\ \A i \in 2..DataLen : file[i].k \in {"codec", "num"}
    /\ FooterWritten =>
         /\ file[DataLen + 1] = SchemaCell
         /\ file[DataLen + 2] = NumCell(Len(groups))
         /\ \A g \in 1..Len(groups) : file[DataLen + 2 + g] = GroupCell(groups[g])
         /\ file[Len(file) - 1] = LenCell(Len(groups) + 2)

(* Where convert_csv is, and what that says of its local variables. *)
PcInv ==
    /\ wpc = "open" => input = <<>> /\ ~eof
    /\ wpc = "rows" => ~eof /\ buffered < RowsPerGroup
    /\ wpc = "flush" =>
         /\ buffered <= RowsPerGroup
         /\ IF eof THEN buffered > 0 \/ total_rows = 0 ELSE buffered = RowsPerGroup
    /\ wpc \in {"footer", "close"} => eof /\ buffered = 0 /\ groups # <<>>
    /\ wpc \in {"open", "rows"} => cmetas = <<>>
    /\ Len(cmetas) <= NCols
    /\ FooterWritten => wpc \in {"close", "idle"} /\ eof /\ buffered = 0 /\ groups # <<>>
    /\ wpc = "close" /\ ~failed => FooterWritten
    /\ wpc # "idle" => exit = "none"
    /\ exit = "done" /\ ~failed => Sealed

(* The column buffers hold the last rows read. *)
RowsInv ==
    /\ total_rows = Len(input)
    /\ buffered <= Len(input)
    /\ \A i \in 1..Len(input) : Accepted(input[i])
    /\ \A c \in 1..NCols :
         columns[c] = [i \in 1..buffered |-> input[Len(input) - buffered + i][c]]

(* The groups written tile the rows before them. *)
TilesInv ==
    /\ Len(starts) = Len(groups)
    /\ groups = <<>> => buffered = Len(input)
    /\ groups # <<>> => starts[1] = 0
    /\ \A g \in 1..Len(groups) :
         /\ Len(groups[g].columns) = NCols
         /\ starts[g] + groups[g].num_rows <= Len(input)
         /\ starts[g] + groups[g].num_rows =
              IF g = Len(groups) THEN Len(input) - buffered ELSE starts[g + 1]

(* Groups are full, but the last one of a CSV that has ended. *)
FullInv ==
    /\ GroupsAreFull
    /\ wpc \in {"open", "rows", "flush"} =>
         \A g \in 1..Len(groups) : groups[g].num_rows = RowsPerGroup

(* A chunk with metadata m holds n values of column c, from row start on. *)
Rows(c, start, n) == [i \in 1..n |-> input[start + i][c]]

ChunkHolds(m, c, start, n) ==
    /\ Decodable(file, DataLen, m.offset, Types[c], n)
    /\ Keeps(Types[c], Rows(c, start, n)) =>
         DecodeChunk(file, m.offset, n) = Rows(c, start, n)

StatsHold(m, c, start, n) ==
    m.has_stats /\ Types[c] = "Int64" =>
        /\ \A i \in 1..n : input[start + i][c] \in m.min_i..m.max_i
        /\ \E i, j \in 1..n :
             input[start + i][c] = m.min_i /\ input[start + j][c] = m.max_i

(* Every offset is good while the stream has not failed, and for ever once  *)
(* the footer has been written; statistics are good in any case.            *)
ChunkInv ==
    /\ \A g \in 1..Len(groups) : \A c \in 1..NCols :
         /\ StatsHold(groups[g].columns[c], c, starts[g], groups[g].num_rows)
         /\ ~failed \/ FooterWritten =>
              ChunkHolds(groups[g].columns[c], c, starts[g], groups[g].num_rows)
    /\ wpc = "flush" =>
         \A c \in 1..Len(cmetas) :
           /\ StatsHold(cmetas[c], c, Len(input) - buffered, buffered)
           /\ ~failed => ChunkHolds(cmetas[c], c, Len(input) - buffered, buffered)

(* A reader of the current file has its footer, or nothing at all. *)
ReaderInv ==
    /\ rgen <= gen
    /\ rpc = "checked" => gen > 0
    /\ rpc \in {"closed", "checked"} =>
         rtypes = <<>> /\ rgroups = <<>> /\ ~rfail /\ got = NothingRead
    /\ Current /\ (rtypes # <<>> \/ rgroups # <<>>) =>
         /\ FooterWritten /\ durable >= Len(file) - 1
         /\ rtypes = Types /\ rgroups = groups /\ ~rfail
    /\ Current /\ got.how # "none" =>
         /\ rgroups # <<>>
         /\ got.rg \in 1..Len(groups) /\ got.col \in 1..NCols
    /\ ReadsReturnTheCsv

IInv == /\ TypeOK /\ FileInv /\ PcInv /\ RowsInv /\ TilesInv
        /\ FullInv /\ ChunkInv /\ ReaderInv
=============================================================================
