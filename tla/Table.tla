-------------------------------- MODULE Table --------------------------------
(***************************************************************************)
(* What a store promises its readers, with nothing said of files, offsets, *)
(* codecs or processes.  A conversion builds a table from the rows of a    *)
(* CSV; the table is there for readers as a whole or not at all, and once  *)
(* it is there it stays until the next conversion begins.  A reader that   *)
(* has the table reads, column by column and group by group, what the CSV  *)
(* held, unless it is numbers that lie too far apart, which may come back  *)
(* changed; nothing is promised to a reader that still looks at a table    *)
(* which has been replaced.                                                *)
(***************************************************************************)
EXTENDS Integers, Sequences

CONSTANTS
    Width,          \* how many columns a table has
    GroupRows,      \* how many rows a group holds, but for the last one
    RowSet,         \* the rows a table may hold
    Packed,         \* the columns whose numbers are kept only if they lie close
    Span            \* and how far apart they may be

VARIABLES
    csv,            \* the rows taken from the CSV
    whole,          \* there are no more of them
    published,      \* the table is there for readers
    view,           \* what the reader has before it
    answer          \* the last thing it read from the table

tableVars == <<csv, whole, published, view, answer>>

NoAnswer == [rg |-> 0, col |-> 0, vals |-> <<>>]

Init == /\ csv = <<>> /\ whole = FALSE /\ published = FALSE
        /\ view = "closed" /\ answer = NoAnswer

(* A conversion begins: whoever has the table has it no longer. *)
Begin ==
    /\ csv' = <<>> /\ whole' = FALSE /\ published' = FALSE
    /\ view' = IF view \in {"table", "nothing"} THEN "replaced" ELSE view
    /\ answer' = NoAnswer

Take == /\ ~whole
        /\ \E row \in RowSet : csv' = Append(csv, row)
        /\ UNCHANGED <<whole, published, view, answer>>

Finish == /\ ~whole /\ whole' = TRUE
          /\ UNCHANGED <<csv, published, view, answer>>

Publish == /\ whole /\ ~published /\ published' = TRUE
           /\ UNCHANGED <<csv, whole, view, answer>>

(* A reader is refused, or finds the table if it is there; it may also find *)
(* nothing, or the remains of an older table.                               *)
Open == /\ view \in {"closed", "opening"}
        /\ \/ view' \in {"opening", "nothing", "replaced", "refused"}
           \/ published /\ view' = "table"
        /\ UNCHANGED <<csv, whole, published, answer>>

(* As many groups as the rows fill; a table without rows has an empty one.  *)
Groups == {g \in 1..Len(csv)+1 : g = 1 \/ (g - 1) * GroupRows < Len(csv)}

RowsOf(g) ==
    IF g * GroupRows <= Len(csv) THEN GroupRows ELSE Len(csv) - (g - 1) * GroupRows

Held(g, c) == [i \in 1..RowsOf(g) |-> csv[(g - 1) * GroupRows + i][c]]

Close(vals) == \A i, j \in DOMAIN vals : vals[i] - vals[j] <= Span

(* The values of group g, column c; or, where they are not kept, as many of *)
(* whatever numbers.                                                        *)
Answers(g, c) ==
    [rg : {g}, col : {c}, vals : IF c \in Packed /\ ~Close(Held(g, c))
                                   THEN [1..RowsOf(g) -> Int] ELSE {Held(g, c)}]

Read == /\ view = "table"
        /\ \E g \in Groups, c \in 1..Width : answer' \in Answers(g, c)
        /\ UNCHANGED <<csv, whole, published, view>>

(* Only a reader of a replaced table is refused once it has opened it. *)
Refuse == /\ view = "replaced" /\ view' = "refused"
          /\ UNCHANGED <<csv, whole, published, answer>>

Leave == /\ view # "closed" /\ view' = "closed" /\ answer' = NoAnswer
         /\ UNCHANGED <<csv, whole, published>>

Next == Begin \/ Take \/ Finish \/ Publish \/ Open \/ Read \/ Refuse \/ Leave

Spec == Init /\ [][Next]_tableVars
=============================================================================
