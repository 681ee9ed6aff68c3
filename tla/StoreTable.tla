------------------------------ MODULE StoreTable ------------------------------
(***************************************************************************)
(* The store files that conversions write and queries read implement the   *)
(* tables of Table.tla.  A table is published at the moment its footer     *)
(* length reaches the disk: from then on a reader that comes by its size   *)
(* finds the footer.                                                       *)
(***************************************************************************)
EXTENDS StoreInv

tablePublished == FooterWritten /\ durable >= Len(file) - 1

tableView ==
    CASE rpc = "closed"   -> "closed"
      [] rpc = "checked"  -> "opening"
      [] rpc = "rejected" -> "refused"
      [] rpc = "garbage"  -> "replaced"
      [] rpc = "open"     -> IF rgen # gen THEN "replaced"
                             ELSE IF rgroups = <<>> THEN "nothing" ELSE "table"

(* What was read from a table that is no longer there does not count. *)
tableAnswer ==
    IF Current THEN [rg |-> got.rg, col |-> got.col, vals |-> got.vals]
               ELSE [rg |-> 0, col |-> 0, vals |-> <<>>]

TheTable == INSTANCE Table WITH
    Width     <- NCols,
    GroupRows <- RowsPerGroup,
    RowSet    <- {row \in CsvRows : Accepted(row)},
    Packed    <- {c \in 1..NCols : Types[c] = "Int64" /\ Compress},
    Span      <- PackedSpan,
    csv       <- input,
    whole     <- eof,
    published <- tablePublished,
    view      <- tableView,
    answer    <- tableAnswer

(* The store does nothing a table may not do: whatever is killed, torn or   *)
(* rewritten, a reader sees the whole table its conversion accepted, group  *)
(* by group, or an older one, or nothing.                                   *)
ImplementsTable == TheTable!Spec

(* Every written group starts where full groups before it put it. *)
GridInv == \A g \in 1..Len(groups) : starts[g] = (g - 1) * RowsPerGroup
=============================================================================
