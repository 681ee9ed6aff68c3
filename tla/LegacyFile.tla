------------------------------ MODULE LegacyFile ------------------------------
(***************************************************************************)
(* ColumnarFile: the format from before row groups.  csv_to_columnar reads *)
(* a whole CSV and writes a .bc file, which columnar_to_csv reads back and *)
(* writes as a CSV again.  The reader never asks its stream whether a read *)
(* succeeded, so what it makes of a file that was cut off (the writer was  *)
(* killed, or the disk was full, which the writer does not ask either)     *)
(* depends on where the file ends: an integer local to read_file stays     *)
(* uninitialised, a cell is zero or empty.                                 *)
(*                                                                         *)
(* A file is the sequence of the items written to it; one that was cut off *)
(* within an item ends with a Part of it.                                  *)
(***************************************************************************)
EXTENDS Integers, FiniteSets, SequencesExt

CONSTANTS
    Schemas,        \* sequences of types, one for each column
    Texts,          \* the cells of a CSV
    Printed,        \* for each number type, the texts its parser accepts,
                    \* and how the number is printed
    Zero,           \* for each type, how the default value is printed
    MaxRows,        \* bound: rows of a CSV
    MaxRounds       \* bound: conversions one after the other

Numeric == {"Int64", "Float64"}

ASSUME SchemasAssumption == Schemas \subseteq Seq(Numeric \cup {"String"})
ASSUME EmptyAssumption == Zero["String"] = ""

(* stoll, stod and to_string: what is printed is read as what was printed,  *)
(* zero too, and no number is empty.                                        *)
ASSUME PrintedAssumption ==
    \A t \in Numeric :
      /\ "" \notin DOMAIN Printed[t]
      /\ Zero[t] \in DOMAIN Printed[t] /\ Printed[t][Zero[t]] = Zero[t]
      /\ \A x \in DOMAIN Printed[t] :
           Printed[t][x] \in DOMAIN Printed[t] /\ Printed[t][Printed[t][x]] = Printed[t][x]

ASSUME BoundsAssumption == MaxRows \in Nat /\ MaxRounds \in Nat

VARIABLES
    schema, csv,    \* the schema and the rows that are converted
    bc,             \* whether the output path ends in .bc
    at,             \* how many rows have been read
    columns,        \* the columns filled so far
    buf,            \* what has been written to the output stream
    disk,           \* the file, or NoFile
    pc,             \* where the process is, or how it ended
    back,           \* the rows columnar_to_csv has written
    round,          \* how many conversions there have been
    was,            \* history: the file before the conversion
    from            \* history: the rows the file was made of

vars == <<schema, csv, bc, at, columns, buf, disk, pc, back, round, was, from>>
input == <<schema, csv, bc>>

Nothing == <<>>
Item(kind, value) == [kind |-> kind, value |-> value]
Part    == Item("part", "")
NoFile  == <<Item("no file", "")>>
Another == <<Item("another", "")>>      \* what a path that is not a .bc may hold
Torn    == "torn"

(* The rows of a CSV for width many columns, and one of the wrong length; a *)
(* row has a field at least.                                                *)
LongRow(width) == [c \in 1..width + 1 |-> ""]
Rows(width)    == ([1..width -> Texts] \ {<<>>}) \cup {LongRow(width)}

Init ==
    /\ schema \in Schemas
    /\ csv \in BoundedSeq(Rows(Len(schema)), MaxRows)
    /\ bc \in BOOLEAN
    /\ at = 0 /\ columns = [c \in DOMAIN schema |-> <<>>]
    /\ buf = Nothing /\ pc = "reading" /\ back = <<>>
    /\ disk \in {NoFile} \cup (IF bc THEN {} ELSE {Another})
    /\ round = 1 /\ was = disk /\ from = Nothing

-----------------------------------------------------------------------------
(* csv_to_columnar.  *)

(* append_from_string: an empty number is zero, another must be one. *)
Accepted(type, text) == type \in Numeric => text \in {""} \cup DOMAIN Printed[type]
Stored(type, text) ==
    IF type = "String" THEN text
    ELSE IF text = "" THEN Zero[type] ELSE Printed[type][text]

Fits(row) == Len(row) = Len(schema) /\ \A c \in DOMAIN row : Accepted(schema[c], row[c])

ReadRow ==
    /\ pc = "reading" /\ at < Len(csv)
    /\ Fits(csv[at + 1])
    /\ at' = at + 1
    /\ columns' = [c \in DOMAIN columns |-> Append(columns[c], Stored(schema[c], csv[at + 1][c]))]
    /\ UNCHANGED <<input, buf, disk, pc, back, round, was, from>>

(* Fault: the file is opened before the CSV is read. *)
RejectRowTooLate ==
    /\ pc = "reading" /\ at < Len(csv)
    /\ ~Fits(csv[at + 1])
    /\ pc' = "failed"
    /\ disk' = Nothing
    /\ UNCHANGED <<input, at, columns, buf, back, round, was, from>>

(* A row of the wrong length, or a number that is none, throws. *)
RejectRow ==
    /\ pc = "reading" /\ at < Len(csv)
    /\ ~Fits(csv[at + 1])
    /\ pc' = "failed"
    /\ UNCHANGED <<input, at, columns, buf, disk, back, round, was, from>>

Header(s, rows) ==
    <<Item("columns", Len(s)), Item("rows", rows)>> \o [c \in DOMAIN s |-> Item("type", s[c])]

(* The cells follow, column by column. *)
Image(s, cols) ==
    LET rows == IF cols = <<>> THEN 0 ELSE Len(cols[1])
    IN  Header(s, rows)
          \o [k \in 1..Len(s) * rows |->
                Item("cell", cols[((k - 1) \div rows) + 1][((k - 1) % rows) + 1])]

(* write_file truncates the file, then looks at its extension, then writes  *)
(* to a stream that nobody sees the end of before it is closed.             *)
WriteFile ==
    /\ pc = "reading" /\ at = Len(csv)
    /\ disk' = Nothing
    /\ IF bc THEN /\ pc' = "writing"
                  /\ buf' = Image(schema, columns)
                  /\ from' = csv
             ELSE pc' = "failed" /\ UNCHANGED <<buf, from>>
    /\ UNCHANGED <<input, at, columns, back, round, was>>

Close ==
    /\ pc = "writing"
    /\ disk' = buf /\ pc' = "written"
    /\ UNCHANGED <<input, at, columns, buf, back, round, was, from>>

CutOff(items) ==
    UNION {{SubSeq(items, 1, n), Append(SubSeq(items, 1, n), Part)} : n \in 0..Len(items) - 1}

(* The process is killed, or the disk is full: that goes unnoticed. *)
CloseShort ==
    /\ pc = "writing"
    /\ disk' \in CutOff(buf) /\ pc' \in {"killed", "written"}
    /\ UNCHANGED <<input, at, columns, buf, back, round, was, from>>

-----------------------------------------------------------------------------
(* columnar_to_csv. *)

HeaderLength(file) == 2 + file[1].value

HeaderRead(file) ==
    /\ file # NoFile /\ Len(file) >= 2 /\ file[2].kind = "rows"
    /\ Len(file) >= HeaderLength(file)
    /\ \A i \in 3..HeaderLength(file) : file[i].kind = "type"

(* Fault: a read that fails leaves the cell the value of an earlier one. *)
CellStale(file, c, r) ==
    LET i == HeaderLength(file) + (c - 1) * file[2].value + r
    IN  IF i > Len(file) THEN Last(file).value
        ELSE IF file[i] = Part THEN Torn ELSE file[i].value

(* The cells are read column by column; a read that fails leaves a number   *)
(* zero and a string empty.                                                 *)
Cell(file, c, r) ==
    LET i == HeaderLength(file) + (c - 1) * file[2].value + r
    IN  IF i > Len(file) THEN Zero[file[2 + c].value]
        ELSE IF file[i] = Part THEN Torn ELSE file[i].value

CanRestore == pc \in {"written", "failed", "killed"} /\ bc

NoFileToRestore ==
    /\ CanRestore /\ disk = NoFile
    /\ pc' = "no file"
    /\ UNCHANGED <<input, at, columns, buf, disk, back, round, was, from>>

(* A number of the header that was not read is uninitialised; without a     *)
(* column there is no columns[0] to print the size of.                      *)
Undefined ==
    /\ CanRestore /\ disk # NoFile
    /\ HeaderRead(disk) => disk[1].value = 0
    /\ pc' = "undefined"
    /\ UNCHANGED <<input, at, columns, buf, disk, back, round, was, from>>

(* Fault: the first row is taken for a heading. *)
RestoreFromSecondRow ==
    /\ CanRestore
    /\ HeaderRead(disk) /\ disk[1].value > 0
    /\ back' = [r \in 1..disk[2].value - 1 |-> [c \in 1..disk[1].value |-> Cell(disk, c, r + 1)]]
    /\ pc' = "restored"
    /\ UNCHANGED <<input, at, columns, buf, disk, round, was, from>>

Restore ==
    /\ CanRestore
    /\ HeaderRead(disk) /\ disk[1].value > 0
    /\ back' = [r \in 1..disk[2].value |-> [c \in 1..disk[1].value |-> Cell(disk, c, r)]]
    /\ pc' = "restored"
    /\ UNCHANGED <<input, at, columns, buf, disk, round, was, from>>

-----------------------------------------------------------------------------
(* Another conversion to the same path, of the CSV that came back or of one *)
(* that has a bad row.                                                      *)
ConvertAgain ==
    /\ pc = "restored" /\ round < MaxRounds
    /\ \A r \in DOMAIN back : \A c \in DOMAIN back[r] : back[r][c] # Torn
    /\ \E bad \in {<<>>, << LongRow(Len(schema)) >>} : csv' = back \o bad
    /\ at' = 0 /\ columns' = [c \in DOMAIN schema |-> <<>>]
    /\ buf' = Nothing /\ pc' = "reading" /\ back' = <<>>
    /\ round' = round + 1 /\ was' = disk
    /\ UNCHANGED <<schema, bc, disk, from>>

Next ==
    \/ ReadRow \/ RejectRow \/ WriteFile \/ Close \/ CloseShort
    \/ NoFileToRestore \/ Undefined \/ Restore \/ ConvertAgain

Spec == Init /\ [][Next]_vars

-----------------------------------------------------------------------------
Columns(rows, n) == [c \in DOMAIN schema |-> [r \in 1..n |-> Stored(schema[c], rows[r][c])]]
Given(r, c) == Stored(schema[c], from[r][c])
Whole == disk = Image(schema, Columns(from, Len(from)))

(* A conversion that throws leaves the file of an earlier one as it was,    *)
(* because the whole CSV is read before the file is opened: unless it is    *)
(* the extension that is wrong, which write_file finds out too late.        *)
FailureKeepsTheFile == pc = "failed" => disk = IF at = Len(csv) THEN Nothing ELSE was

(* The CSV that came back converts, and comes back the same: one trip is    *)
(* enough to lose what is going to be lost (digits of a Float64, the sign   *)
(* and the zeros before a number).                                          *)
SecondTripIsExact ==
    pc = "restored" /\ Whole /\ round > 1 /\ at = Len(csv) => back = csv

(* A whole file gives back every cell: strings as they were, numbers as    *)
(* to_string prints them.  A file cut off in its cells comes back with all  *)
(* its rows, those cells right that it still has and the others zero or     *)
(* empty, column by column: nothing tells them from a file that was written *)
(* so.                                                                      *)
TornCellsReadAsZeroes ==
    /\ Len(back) = Len(from)
    /\ \A r \in DOMAIN back : \A c \in DOMAIN schema :
         \/ back[r][c] = Given(r, c)
         \/ /\ Len(disk) <= HeaderLength(disk) + (c - 1) * Len(back) + r
            /\ back[r][c] \in {Torn, Zero[schema[c]]}

(* And only a table without columns, or a file cut off in its header, is    *)
(* read in an undefined way (write_file, read_file, columnar_to_csv).       *)
ReadsWhatIsThere ==
    /\ pc = "restored"  => TornCellsReadAsZeroes
    /\ pc = "undefined" => schema = <<>> \/ Len(disk) <= 2 + Len(schema)

-----------------------------------------------------------------------------
(* The inductive invariant behind them. *)

Values == Texts \cup Numeric \cup {"String", "", Torn} \cup UNION {DOMAIN Printed[t] : t \in Numeric}

LegacyTypeOK ==
    /\ schema \in Seq(Numeric \cup {"String"}) /\ bc \in BOOLEAN /\ round \in Nat
    /\ csv \in Seq(Seq(Values)) /\ back \in Seq(Seq(Values)) /\ from \in Seq(Seq(Values))
    /\ at \in 0..Len(csv)
    /\ pc \in {"reading", "failed", "writing", "written", "killed", "no file", "undefined",
               "restored"}

(* The columns hold the rows read. *)
ReadSoFar ==
    /\ columns = Columns(csv, at)
    /\ \A r \in 1..at : Fits(csv[r])

Items == [kind : {"columns", "rows"}, value : Nat]
           \cup [kind : {"type", "cell", "part"}, value : Values]

(* The items of f are the first of items, the last one perhaps in part. *)
IsCut(f, items) ==
    /\ f \in Seq(Items)
    /\ Len(f) <= Len(items)
    /\ \A k \in 1..Len(f) : f[k] = items[k] \/ (k = Len(f) /\ f[k] = Part)

(* The file, while the process is under way, is that of from, as far as it  *)
(* was written.                                                             *)
DiskInv ==
    /\ \A r \in 1..Len(from) : Fits(from[r])
    /\ bc => disk = NoFile \/ IsCut(disk, Image(schema, Columns(from, Len(from))))
    /\ pc = "reading" => disk = was
    /\ pc = "writing" => bc /\ disk = Nothing /\ buf = Image(schema, Columns(from, Len(from)))
    /\ pc = "restored" => bc
    /\ pc \in {"writing", "written", "killed"} => at = Len(csv)
    /\ at = Len(csv) /\ pc \in {"writing", "written", "killed", "restored"} => from = csv
    /\ pc = "failed" /\ at = Len(csv) => ~bc

(* What has been through columnar_to_csv is printed as it is read. *)
Settled(row) == \A c \in 1..Len(schema) : Stored(schema[c], row[c]) = row[c]

RoundInv ==
    /\ round > 1 => \A r \in 1..Len(csv) : Fits(csv[r]) => Settled(csv[r])
    /\ pc = "restored" =>
         /\ \A r \in 1..Len(back) : Len(back[r]) = Len(schema)
         /\ Whole => \A r \in 1..Len(back) : \A c \in 1..Len(schema) : back[r][c] = Given(r, c)

LegacyInv ==
    /\ LegacyTypeOK /\ ReadSoFar /\ DiskInv /\ RoundInv
    /\ FailureKeepsTheFile /\ ReadsWhatIsThere
=============================================================================
