----------------------------- MODULE StoreWriter -----------------------------
(***************************************************************************)
(* ColumnStoreWriter::convert_csv as a process: it truncates the store,    *)
(* reads the data CSV row by row, writes a row group whenever its buffers  *)
(* hold RowsPerGroup rows, and writes the footer when the CSV ends.  What  *)
(* it writes goes to an output stream; the disk receives a prefix of it    *)
(* that grows at any time (WriteBack) and is completed when the stream is  *)
(* closed.  The process may be killed between any two steps, and the disk  *)
(* may become full, after which the stream drops every write.              *)
(*                                                                         *)
(* When the process has ended, file keeps what it had written: only the    *)
(* first durable cells are on disk.                                        *)
(***************************************************************************)
EXTENDS StoreFile

CONSTANTS
    CsvRows,        \* the rows a data CSV may hold
    MaxRows,        \* bound: accepted rows of one data CSV
    MaxConverts,    \* bound: conversions that truncate the store
    DiskMayFill     \* whether the disk can become full

ASSUME CsvRowsAssumption == CsvRows \subseteq Seq(Int)
ASSUME BoundsAssumption == MaxRows \in Nat /\ MaxConverts \in Nat
ASSUME DiskAssumption == DiskMayFill \in BOOLEAN

VARIABLES
    wpc,            \* where convert_csv is; "idle" when no conversion runs
    columns,        \* the column buffers of the group being read
    buffered,       \* rows in them
    total_rows,     \* rows accepted so far
    groups,         \* metadata of the groups written
    cmetas,         \* metadata of the chunks of the group being written
    eof,            \* the data CSV has ended
    failed,         \* the output stream has failed
    exit,           \* how the last conversion ended
    input,          \* history: the rows accepted from the CSV
    starts          \* history: how many rows precede each written group

writerVars == <<wpc, columns, buffered, total_rows, groups, cmetas, eof,
                failed, exit, input, starts>>

EmptyColumns == [c \in 1..NCols |-> <<>>]

WriterInit ==
    /\ file = <<>> /\ durable = 0 /\ gen = 0
    /\ wpc = "idle" /\ exit = "none"
    /\ columns = EmptyColumns /\ buffered = 0 /\ total_rows = 0
    /\ groups = <<>> /\ cmetas = <<>>
    /\ eof = FALSE /\ failed = FALSE
    /\ input = <<>> /\ starts = <<>>

(* Fault: writes go to the start of the file. *)
WrittenAtStart(cells) ==
    IF failed THEN file ELSE cells \o SubSeq(file, Len(cells) + 1, Len(file))

(* A failed stream drops what is written to it, and tellp() is -1. *)
Written(cells) == IF failed THEN file ELSE file \o cells

(* Fault: positions count from 1. *)
TellpFromOne(f) == IF failed THEN -1 ELSE Len(f) + 1

Tellp(f) == IF failed THEN -1 ELSE Len(f)

-----------------------------------------------------------------------------
(* The schema CSV is missing or malformed: nothing has been touched yet. *)
RejectSchema ==
    /\ wpc = "idle"
    /\ exit' = "failed"
    /\ UNCHANGED <<diskVars, wpc, columns, buffered, total_rows, groups, cmetas,
                   eof, failed, input, starts>>

(* Fault: the list of written groups survives from one conversion to the    *)
(* next.                                                                    *)
StartWithOldGroups ==
    /\ wpc = "idle"
    /\ gen < MaxConverts
    /\ file' = <<MagicCell>> /\ durable' = 0 /\ gen' = gen + 1
    /\ wpc' = "open" /\ exit' = "none"
    /\ columns' = EmptyColumns /\ buffered' = 0 /\ total_rows' = 0
    /\ UNCHANGED <<groups, starts>> /\ cmetas' = <<>>
    /\ eof' = FALSE /\ failed' = FALSE
    /\ input' = <<>>

(* The schema is good: the store is truncated and the magic written. *)
StartConvert ==
    /\ wpc = "idle"
    /\ gen < MaxConverts
    /\ file' = <<MagicCell>> /\ durable' = 0 /\ gen' = gen + 1
    /\ wpc' = "open" /\ exit' = "none"
    /\ columns' = EmptyColumns /\ buffered' = 0 /\ total_rows' = 0
    /\ groups' = <<>> /\ cmetas' = <<>>
    /\ eof' = FALSE /\ failed' = FALSE
    /\ input' = <<>> /\ starts' = <<>>

OpenCsv ==
    /\ wpc = "open"
    /\ wpc' = "rows"
    /\ UNCHANGED <<diskVars, columns, buffered, total_rows, groups, cmetas, eof,
                   failed, exit, input, starts>>

(* An exception leaves convert_csv: the stream is destroyed, which writes   *)
(* what it still buffers.                                                   *)
Throw ==
    /\ wpc' = "idle" /\ exit' = "failed"
    /\ durable' = IF failed THEN durable ELSE Len(file)
    /\ UNCHANGED <<file, gen, columns, buffered, total_rows, groups, cmetas, eof,
                   failed, input, starts>>

(* CsvReader cannot open the data CSV. *)
MissingCsv == wpc = "open" /\ Throw

(* A row convert_csv accepts: the right number of fields, and numbers where *)
(* the schema has numbers.                                                  *)
Accepted(row) ==
    /\ Len(row) = NCols
    /\ \A c \in 1..NCols : Types[c] # "String" => row[c] \in Int64

BadRow ==
    /\ wpc = "rows"
    /\ \E row \in CsvRows : ~Accepted(row)
    /\ Throw

(* Fault: a group is flushed one row late. *)
AppendRowFlushesLate(row) ==
    /\ wpc = "rows"
    /\ Len(input) < MaxRows
    /\ Accepted(row)
    /\ columns' = [c \in 1..NCols |-> Append(columns[c], row[c])]
    /\ buffered' = buffered + 1
    /\ total_rows' = total_rows + 1
    /\ wpc' = IF buffered + 1 > RowsPerGroup THEN "flush" ELSE "rows"
    /\ input' = Append(input, row)
    /\ UNCHANGED <<diskVars, groups, cmetas, eof, failed, exit, starts>>

AppendRow(row) ==
    /\ wpc = "rows"
    /\ Len(input) < MaxRows
    /\ Accepted(row)
    /\ columns' = [c \in 1..NCols |-> Append(columns[c], row[c])]
    /\ buffered' = buffered + 1
    /\ total_rows' = total_rows + 1
    /\ wpc' = IF buffered + 1 = RowsPerGroup THEN "flush" ELSE "rows"
    /\ input' = Append(input, row)
    /\ UNCHANGED <<diskVars, groups, cmetas, eof, failed, exit, starts>>

(* Fault: the end of the CSV always flushes, even if the last group was full. *)
EndOfCsvAlwaysFlushes ==
    /\ wpc = "rows"
    /\ eof' = TRUE
    /\ wpc' = "flush"
    /\ UNCHANGED <<diskVars, columns, buffered, total_rows, groups, cmetas,
                   failed, exit, input, starts>>

(* Fault: the rows of a last group that is not full are dropped. *)
EndOfCsvDropsTheRest ==
    /\ wpc = "rows"
    /\ eof' = TRUE
    /\ wpc' = IF total_rows = 0 THEN "flush" ELSE "footer"
    /\ UNCHANGED <<diskVars, columns, buffered, total_rows, groups, cmetas,
                   failed, exit, input, starts>>

EndOfCsv ==
    /\ wpc = "rows"
    /\ eof' = TRUE
    /\ wpc' = IF buffered > 0 \/ total_rows = 0 THEN "flush" ELSE "footer"
    /\ UNCHANGED <<diskVars, columns, buffered, total_rows, groups, cmetas,
                   failed, exit, input, starts>>

-----------------------------------------------------------------------------
(* flush_group, one column at a time. *)

FlushColumn ==
    /\ wpc = "flush"
    /\ Len(cmetas) < NCols
    /\ LET c == Len(cmetas) + 1
       IN  \E id \in Candidates(Types[c], buffered) : \E kept \in Kept(id, columns[c]) :
             /\ file' = Written(EncodeChunk(id, columns[c], kept))
             /\ cmetas' = Append(cmetas,
                                 MetaOf(Types[c], columns[c], Tellp(file),
                                        Tellp(file') - Tellp(file)))
    /\ UNCHANGED <<durable, gen, wpc, columns, buffered, total_rows, groups, eof,
                   failed, exit, input, starts>>

(* Fault: the column buffers are not emptied for the next group. *)
FinishGroupKeepsColumns ==
    /\ wpc = "flush"
    /\ Len(cmetas) = NCols
    /\ groups' = Append(groups, [num_rows |-> buffered, columns |-> cmetas])
    /\ cmetas' = <<>>
    /\ buffered' = 0
    /\ wpc' = IF eof THEN "footer" ELSE "rows"
    /\ starts' = Append(starts, Len(input) - buffered)
    /\ UNCHANGED <<diskVars, columns, total_rows, eof, failed, exit, input>>

FinishGroup ==
    /\ wpc = "flush"
    /\ Len(cmetas) = NCols
    /\ groups' = Append(groups, [num_rows |-> buffered, columns |-> cmetas])
    /\ cmetas' = <<>>
    /\ columns' = EmptyColumns
    /\ buffered' = 0
    /\ wpc' = IF eof THEN "footer" ELSE "rows"
    /\ starts' = Append(starts, Len(input) - buffered)
    /\ UNCHANGED <<diskVars, total_rows, eof, failed, exit, input>>

WriteFooter ==
    /\ wpc = "footer"
    /\ file' = Written(Footer(groups))
    /\ wpc' = "close"
    /\ UNCHANGED <<durable, gen, columns, buffered, total_rows, groups, cmetas,
                   eof, failed, exit, input, starts>>

(* convert_csv reports success and its stream is closed; a failure of the  *)
(* stream is never looked at.                                              *)
Close ==
    /\ wpc = "close"
    /\ wpc' = "idle" /\ exit' = "done"
    /\ durable' = IF failed THEN durable ELSE Len(file)
    /\ UNCHANGED <<file, gen, columns, buffered, total_rows, groups, cmetas, eof,
                   failed, input, starts>>

-----------------------------------------------------------------------------
(* The environment of the process. *)

(* The stream's buffer or the operating system writes some cells out. *)
WriteBack ==
    /\ wpc # "idle"
    /\ \E n \in durable+1..Len(file) : durable' = n
    /\ UNCHANGED <<file, gen, writerVars>>

DiskFull ==
    /\ DiskMayFill
    /\ wpc # "idle"
    /\ ~failed
    /\ failed' = TRUE
    /\ UNCHANGED <<diskVars, wpc, columns, buffered, total_rows, groups, cmetas,
                   eof, exit, input, starts>>

Kill ==
    /\ wpc # "idle"
    /\ wpc' = "idle" /\ exit' = "killed"
    /\ UNCHANGED <<diskVars, columns, buffered, total_rows, groups, cmetas, eof,
                   failed, input, starts>>

(* The steps convert_csv takes by itself. *)
ConvertStep ==
    \/ OpenCsv \/ MissingCsv
    \/ BadRow \/ \E row \in CsvRows : AppendRow(row)
    \/ EndOfCsv
    \/ FlushColumn \/ FinishGroup
    \/ WriteFooter \/ Close

WriterNext ==
    \/ RejectSchema \/ StartConvert
    \/ ConvertStep
    \/ WriteBack \/ DiskFull \/ Kill
=============================================================================
