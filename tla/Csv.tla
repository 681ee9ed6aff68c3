--------------------------------- MODULE Csv ---------------------------------
(***************************************************************************)
(* CsvWriter and CsvReader on one file.  A writer puts out rows, and may   *)
(* be killed, which leaves the file cut off anywhere; or the file comes    *)
(* from elsewhere.  The reader takes the file line by line, joins lines    *)
(* until their quotes are even, and splits what it has joined into fields  *)
(* one character at a time.                                                *)
(***************************************************************************)
EXTENDS Integers, Sequences

CONSTANTS
    Fields,         \* the fields a row may have
    RowWidths,      \* how many fields a written row may have
    MaxRows,        \* bound: rows written to one file
    Texts           \* the files that come from elsewhere

Quote   == "quote"
Comma   == "comma"
Newline == "newline"
Letter  == "letter"     \* any other character
Char    == {Quote, Comma, Newline, Letter}

ASSUME FieldsAssumption == Fields \subseteq Seq(Char)
ASSUME WidthsAssumption == RowWidths \subseteq Nat \ {0}
ASSUME MaxRowsAssumption == MaxRows \in Nat
ASSUME TextsAssumption == Texts \subseteq Seq(Char)

VARIABLES
    text,           \* the file
    origin,         \* where it comes from: "writer", "torn", "elsewhere"
    written,        \* history: the rows given to write_row
    pc,             \* "write", then "row", "count", "join", "parse", "eof"
    pos,            \* how much of the file std::getline has taken
    line,           \* the lines joined so far
    quotes,         \* quote_count
    upto,           \* history: the quotes up to each character counted
    i,              \* characters parse_line has dealt with
    in_quotes, field, fields,
    rows            \* history: the rows read_row has returned

fileVars  == <<text, origin, written>>
lineVars  == <<pos, line, quotes, upto>>
parseVars == <<i, in_quotes, field, fields>>
vars == <<fileVars, pc, lineVars, parseVars, rows>>

Init ==
    /\ \/ text = <<>> /\ origin = "writer" /\ pc = "write"
       \/ text \in Texts /\ origin = "elsewhere" /\ pc = "row"
    /\ written = <<>>
    /\ pos = 0 /\ line = <<>> /\ quotes = 0 /\ upto = <<>>
    /\ i = 0 /\ in_quotes = FALSE /\ field = <<>> /\ fields = <<>>
    /\ rows = <<>>

-----------------------------------------------------------------------------
(* The writer. *)

NeedsQuotes(f) == \E k \in 1..Len(f) : f[k] \in {Comma, Quote, Newline}

(* What a loop appends, one part after the other: how much there is after   *)
(* each of them.                                                            *)
Appended(parts) ==
    LET so_far[k \in 0..Len(parts)] == IF k = 0 THEN <<>> ELSE so_far[k - 1] \o parts[k]
    IN  so_far

(* Quotes around a field that needs them, and its own quotes doubled. *)
Escaped(f) == [k \in 1..Len(f) |-> IF f[k] = Quote THEN <<Quote, Quote>> ELSE <<f[k]>>]
EscapeField(f) ==
    IF NeedsQuotes(f) THEN <<Quote>> \o Appended(Escaped(f))[Len(f)] \o <<Quote>> ELSE f

Separated(row) ==
    [c \in 1..Len(row) |->
        IF c = 1 THEN EscapeField(row[c]) ELSE <<Comma>> \o EscapeField(row[c])]
RowText(row) == Appended(Separated(row))[Len(row)] \o <<Newline>>

Rows == UNION {[1..n -> Fields] : n \in RowWidths}

WriteRow(row) ==
    /\ pc = "write"
    /\ Len(written) < MaxRows
    /\ text' = text \o RowText(row)
    /\ written' = Append(written, row)
    /\ UNCHANGED <<origin, pc, lineVars, parseVars, rows>>

CloseWriter ==
    /\ pc = "write" /\ pc' = "row"
    /\ UNCHANGED <<fileVars, lineVars, parseVars, rows>>

Kill ==
    /\ pc = "write" /\ pc' = "row"
    /\ origin' = "torn"
    /\ \E n \in 0..Len(text) : text' = SubSeq(text, 1, n)
    /\ UNCHANGED <<written, lineVars, parseVars, rows>>

-----------------------------------------------------------------------------
(* read_row. *)

(* std::getline takes the file up to position n: the next newline, which it *)
(* drops, or the end.                                                       *)
LineEnd(n) ==
    /\ n \in pos+1..Len(text)+1
    /\ n <= Len(text) => text[n] = Newline
    /\ \A k \in pos+1..n-1 : text[k] # Newline

After(n) == IF n > Len(text) THEN Len(text) ELSE n

FirstLine ==
    /\ pc = "row"
    /\ pos < Len(text)
    /\ \E n \in pos+1..Len(text)+1 :
         /\ LineEnd(n)
         /\ line' = SubSeq(text, pos + 1, n - 1)
         /\ pos' = After(n)
    /\ quotes' = 0 /\ upto' = <<>>
    /\ pc' = "count"
    /\ UNCHANGED <<fileVars, parseVars, rows>>

EndOfFile ==
    /\ pc = "row"
    /\ pos = Len(text)
    /\ pc' = "eof"
    /\ UNCHANGED <<fileVars, lineVars, parseVars, rows>>

UpTo(k) == IF k = 0 THEN 0 ELSE upto[k]

CountChar ==
    /\ pc = "count"
    /\ Len(upto) < Len(line)
    /\ quotes' = IF line[Len(upto) + 1] = Quote THEN quotes + 1 ELSE quotes
    /\ upto' = Append(upto, quotes')
    /\ UNCHANGED <<fileVars, pc, pos, line, parseVars, rows>>

(* Fault: a row ends with its first line. *)
CountedNeverJoins ==
    /\ pc = "count"
    /\ Len(upto) = Len(line)
    /\ pc' = "parse"
    /\ UNCHANGED <<fileVars, lineVars, parseVars, rows>>

Counted ==
    /\ pc = "count"
    /\ Len(upto) = Len(line)
    /\ pc' = IF quotes % 2 # 0 THEN "join" ELSE "parse"
    /\ UNCHANGED <<fileVars, lineVars, parseVars, rows>>

(* Fault: the line break between joined lines is dropped. *)
JoinLineWithoutBreak ==
    /\ pc = "join"
    /\ pos < Len(text)
    /\ \E n \in pos+1..Len(text)+1 :
         /\ LineEnd(n)
         /\ line' = line \o SubSeq(text, pos + 1, n - 1)
         /\ pos' = After(n)
    /\ pc' = "count"
    /\ UNCHANGED <<fileVars, quotes, upto, parseVars, rows>>

(* The next line is joined with a line break, whose place is counted too.   *)
JoinLine ==
    /\ pc = "join"
    /\ pos < Len(text)
    /\ \E n \in pos+1..Len(text)+1 :
         /\ LineEnd(n)
         /\ line' = line \o <<Newline>> \o SubSeq(text, pos + 1, n - 1)
         /\ pos' = After(n)
    /\ upto' = Append(upto, quotes)
    /\ pc' = "count"
    /\ UNCHANGED <<fileVars, quotes, parseVars, rows>>

(* There is no next line: the quotes stay upto. *)
JoinAtEnd ==
    /\ pc = "join"
    /\ pos = Len(text)
    /\ pc' = "parse"
    /\ UNCHANGED <<fileVars, lineVars, parseVars, rows>>

-----------------------------------------------------------------------------
(* parse_line, a character at a time. *)

Parsing == pc = "parse" /\ i < Len(line)

(* A quote outside quotes opens them. *)
OpenQuotes ==
    /\ Parsing /\ ~in_quotes /\ line[i + 1] = Quote
    /\ in_quotes' = TRUE /\ i' = i + 1
    /\ UNCHANGED <<fileVars, pc, lineVars, field, fields, rows>>

EndField ==
    /\ Parsing /\ ~in_quotes /\ line[i + 1] = Comma
    /\ fields' = Append(fields, field) /\ field' = <<>> /\ i' = i + 1
    /\ UNCHANGED <<fileVars, pc, lineVars, in_quotes, rows>>

(* Any other character goes into the field: inside quotes any but a quote.  *)
KeepChar ==
    /\ Parsing
    /\ line[i + 1] \notin IF in_quotes THEN {Quote} ELSE {Quote, Comma}
    /\ field' = Append(field, line[i + 1]) /\ i' = i + 1
    /\ UNCHANGED <<fileVars, pc, lineVars, in_quotes, fields, rows>>

Doubled == i + 2 <= Len(line) /\ line[i + 2] = Quote

(* Fault: the second quote of a doubled quote is looked at again. *)
KeepQuoteOnce ==
    /\ Parsing /\ in_quotes /\ line[i + 1] = Quote /\ Doubled
    /\ field' = Append(field, Quote) /\ i' = i + 1
    /\ UNCHANGED <<fileVars, pc, lineVars, in_quotes, fields, rows>>

(* A doubled quote inside quotes is a quote of the field. *)
KeepQuote ==
    /\ Parsing /\ in_quotes /\ line[i + 1] = Quote /\ Doubled
    /\ field' = Append(field, Quote) /\ i' = i + 2
    /\ UNCHANGED <<fileVars, pc, lineVars, in_quotes, fields, rows>>

CloseQuotes ==
    /\ Parsing /\ in_quotes /\ line[i + 1] = Quote /\ ~Doubled
    /\ in_quotes' = FALSE /\ i' = i + 1
    /\ UNCHANGED <<fileVars, pc, lineVars, field, fields, rows>>

(* The next call of parse_line starts afresh. *)
ReturnRow ==
    /\ pc = "parse" /\ i = Len(line)
    /\ rows' = Append(rows, Append(fields, field))
    /\ pc' = "row"
    /\ i' = 0 /\ in_quotes' = FALSE /\ field' = <<>> /\ fields' = <<>>
    /\ UNCHANGED <<fileVars, lineVars>>

Next ==
    \/ \E row \in Rows : WriteRow(row)
    \/ CloseWriter \/ Kill
    \/ FirstLine \/ EndOfFile
    \/ CountChar \/ Counted
    \/ JoinLine \/ JoinAtEnd
    \/ OpenQuotes \/ EndField \/ KeepChar \/ KeepQuote \/ CloseQuotes
    \/ ReturnRow

Spec == Init /\ [][Next]_vars

-----------------------------------------------------------------------------
TypeOK ==
    /\ text \in Seq(Char) /\ origin \in {"writer", "torn", "elsewhere"}
    /\ pc \in {"write", "row", "count", "join", "parse", "eof"}
    /\ pos \in 0..Len(text)
    /\ line \in Seq(Char) /\ quotes \in Nat /\ upto \in Seq(Nat)
    /\ i \in 0..Len(line) /\ in_quotes \in BOOLEAN
    /\ field \in Seq(Char) /\ fields \in Seq(Seq(Char))
    /\ rows \in Seq(Seq(Seq(Char))) /\ written \in Seq(Seq(Seq(Char)))

(* The two loops over the quotes agree: the count that decides how many     *)
(* lines a row takes and the flag that decides where its fields end.        *)
QuotesAgree ==
    /\ Len(upto) <= Len(line)
    /\ \A k \in 1..Len(upto) :
         upto[k] = IF line[k] = Quote THEN UpTo(k - 1) + 1 ELSE UpTo(k - 1)
    /\ quotes = UpTo(Len(upto))
    /\ pc \in {"join", "parse"} => Len(upto) = Len(line)
    /\ pc = "parse" => in_quotes = (UpTo(i) % 2 = 1)
    /\ pc # "parse" => i = 0 /\ ~in_quotes
    /\ pc = "join" => quotes % 2 = 1
    /\ pc = "parse" /\ quotes % 2 = 1 => pos = Len(text)

(* A row never ends inside quotes, so a line break in a quoted field never  *)
(* cuts a row in two: only the end of the file can.                         *)
RowsEndOutsideQuotes ==
    pc = "parse" /\ i = Len(line) /\ in_quotes => pos = Len(text)

(* What the writer wrote is what the reader reads, whatever its fields      *)
(* hold; and a file whose writer was killed has lost its tail and perhaps   *)
(* cut its last row, but every row before that one is as it was written.    *)
ReadsWhatWasWritten ==
    origin # "elsewhere" =>
        /\ \A k \in 1..Len(rows) :
             /\ k <= Len(written)
             /\ rows[k] = written[k] \/ (origin = "torn" /\ k = Len(rows) /\ pos = Len(text))
        /\ pc = "eof" /\ origin = "writer" => Len(rows) = Len(written)

-----------------------------------------------------------------------------
(* The inductive invariant behind ReadsWhatWasWritten. *)

(* Where field c of a row begins in its text. *)
Start(row, c) == Len(Appended(Separated(row))[c - 1]) + (IF c = 1 THEN 0 ELSE 1)

(* The text of a row after p characters: in field c, of which k characters  *)
(* have been written, and where in its quotes, if it has any.               *)
Place(row, p, c, k, where) ==
    LET start == Start(row, c)
        d     == Len(Appended(Escaped(row[c]))[k])
    IN  /\ c \in 1..Len(row) /\ k \in 0..Len(row[c])
        /\ IF NeedsQuotes(row[c])
             THEN \/ where = "open"    /\ k = 0 /\ p = start
                  \/ where = "quoted"  /\ p = start + 1 + d
                  \/ where = "between" /\ k # 0 /\ row[c][k] = Quote /\ p = start + d
                  \/ where = "closed"  /\ k = Len(row[c]) /\ p = start + 2 + d
             ELSE where = "plain" /\ p = start + k

(* The rows written end in the file at ends. *)
RowsEndAt(ends) ==
    /\ ends \in [0..Len(written) -> Nat] /\ ends[0] = 0
    /\ \A a, b \in 0..Len(written) : a < b => ends[a] < ends[b]
    /\ Len(text) <= ends[Len(written)]
    /\ origin = "writer" => Len(text) = ends[Len(written)]
    /\ \A m \in 1..Len(written) :
         /\ written[m] \in Rows
         /\ ends[m] = ends[m - 1] + Len(RowText(written[m]))
         /\ \A j \in 1..Len(RowText(written[m])) :
              ends[m - 1] + j <= Len(text) => text[ends[m - 1] + j] = RowText(written[m])[j]

ReadingRow == pc \in {"count", "join", "parse"}
CutRow     == origin = "torn" /\ pos = Len(text)
This       == written[Len(rows) + 1]
ThisText   == RowText(This)

(* Before a row: all of those before it have been read, or one of them was  *)
(* cut and the file ends there.                                             *)
BetweenRows(ends) ==
    ~ReadingRow =>
      /\ Len(rows) <= Len(written)
      /\ pos = ends[Len(rows)] \/ (CutRow /\ rows # <<>>)
      /\ \A k \in 1..Len(rows) : rows[k] = written[k] \/ (CutRow /\ k = Len(rows))
      /\ pc = "eof" => pos = Len(text)
      /\ pc = "write" => rows = <<>> /\ origin = "writer"

(* Within it: line is the first of its text, up to a line break or the end. *)
LineOfRow(ends) ==
    ReadingRow =>
      /\ Len(rows) < Len(written)
      /\ \A k \in 1..Len(rows) : rows[k] = written[k]
      /\ Len(line) < Len(ThisText)
      /\ \A j \in 1..Len(line) : line[j] = ThisText[j]
      /\ \/ pos = Len(text) /\ ends[Len(rows)] + Len(line) = Len(text)
         \/ pos = ends[Len(rows)] + Len(line) + 1 /\ ThisText[Len(line) + 1] = Newline

(* The count of quotes is odd within the quotes of a field. *)
CountOfRow ==
    pc \in {"count", "join"} =>
      \E c \in 1..Len(This) : \E k \in 0..Len(This[c]) :
        \E where \in {"plain", "open", "quoted", "between", "closed"} :
          /\ Place(This, Len(upto), c, k, where)
          /\ quotes % 2 = 1 <=> where = "quoted"

(* What parse_line has made of a row that was not cut. *)
FieldsOfRow ==
    IF pc # "parse" THEN field = <<>> /\ fields = <<>>
    ELSE
      \/ CutRow
      \/ /\ Len(line) + 1 = Len(ThisText)
         /\ \E c \in 1..Len(This) : \E k \in 0..Len(This[c]) :
              \E where \in {"plain", "open", "quoted", "closed"} :
                /\ Place(This, i, c, k, where)
                /\ in_quotes <=> where = "quoted"
                /\ Len(fields) = c - 1 /\ \A j \in 1..c - 1 : fields[j] = This[j]
                /\ Len(field) = k /\ \A j \in 1..k : field[j] = This[c][j]

TripInv(ends) ==
    RowsEndAt(ends) /\ BetweenRows(ends) /\ LineOfRow(ends) /\ CountOfRow /\ FieldsOfRow
=============================================================================
