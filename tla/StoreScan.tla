------------------------------ MODULE StoreScan ------------------------------
(***************************************************************************)
(* A scan of a store that a conversion may be rewriting: ScanOperator and  *)
(* RowGroupReader, which is the same without a predicate, ask the reader   *)
(* for one chunk after another, and only the footer is kept in between.    *)
(* TableMetadata answers from that footer alone.  A filter over the scan   *)
(* has the same predicate the scan skips row groups by.                    *)
(*                                                                         *)
(* Values of a column of any type are integers here, and statistics those  *)
(* of StoreFile: a Float64 chunk has some, and int_stats then gives 0, 0.  *)
(***************************************************************************)
EXTENDS StoreInv, Predicates

CONSTANTS
    ColIds,         \* col_ids_: the columns the scan reads
    Skips           \* the predicates on one of them that skip_ may be

ASSUME ColIdsAssumption == ColIds \in Seq(1..NCols)

(* Every scan of queries.cpp that skips does so by an Int64 column that the *)
(* filter above it reads.                                                   *)
ASSUME SkipsAssumption ==
    \A s \in Skips : /\ s.col \in {ColIds[k] : k \in DOMAIN ColIds}
                     /\ Types[s.col] = "Int64" /\ s.op \in CompareOp /\ s.value \in Int

NoSkip == [col |-> 0, op |-> "Eq", value |-> 0]

VARIABLES
    spc,            \* "none", "next", "read" (within a batch), "done"
    rg_,            \* how many row groups the scan has gone past
    skip_,          \* its predicate
    batch,          \* the columns of the batch being read
    given           \* the batches the scan has returned, each with its row group

scanVars == <<spc, rg_, skip_, batch, given>>

svars == <<vars, scanVars>>

ScanInit == spc = "none" /\ rg_ = 0 /\ skip_ = NoSkip /\ batch = <<>> /\ given = <<>>

-----------------------------------------------------------------------------
(* TableMetadata, and what the scan asks the reader about group g. *)

(* n, after the loop of total_rows has been through the first rg groups. *)
RowsUpTo[rg \in 0..Len(rgroups)] ==
    IF rg = 0 THEN 0 ELSE RowsUpTo[rg - 1] + rgroups[rg].num_rows

meta_total_rows == RowsUpTo[Len(rgroups)]

(* Fault: the type of the column is not looked at. *)
has_minmax_any_type(g, c) == rgroups[g].columns[c].has_stats

has_minmax(g, c) == rgroups[g].columns[c].has_stats /\ rtypes[c] = "Int64"

may_contain_int(g, c, target) ==
    has_minmax(g, c) =>
        LET m == rgroups[g].columns[c] IN m.min_i <= target /\ target <= m.max_i

CanSkip(g) ==
    /\ skip_ # NoSkip
    /\ LET m == rgroups[g].columns[skip_.col]
       IN  m.has_stats /\ ~range_can_match(skip_.op, skip_.value, m.min_i, m.max_i)

-----------------------------------------------------------------------------
(* The scan. *)

(* The columns are looked up by name in the schema first. *)
StartScan ==
    /\ rpc = "open" /\ spc = "none"
    /\ \A k \in DOMAIN ColIds : ColIds[k] <= Len(rtypes)
    /\ spc' = "next" /\ skip_' \in Skips \cup {NoSkip}
    /\ UNCHANGED <<readerVars, rg_, batch, given>>

SkipGroup ==
    /\ spc = "next" /\ rg_ < Len(rgroups)
    /\ CanSkip(rg_ + 1)
    /\ rg_' = rg_ + 1
    /\ UNCHANGED <<readerVars, spc, skip_, batch, given>>

BeginBatch ==
    /\ spc = "next" /\ rg_ < Len(rgroups)
    /\ ~CanSkip(rg_ + 1)
    /\ spc' = "read" /\ batch' = <<>> /\ rg_' = rg_ + 1
    /\ UNCHANGED <<readerVars, skip_, given>>

(* One chunk; an exception ends the query, and the scan with it. *)
ReadColumn ==
    /\ spc = "read" /\ Len(batch) < Len(ColIds)
    /\ ReadChunk(rg_, ColIds[Len(batch) + 1])
    /\ IF got'.how = "throw"
         THEN spc' = "done" /\ batch' = batch
         ELSE spc' = "read" /\ batch' = Append(batch, got'.vals)
    /\ UNCHANGED <<rg_, skip_, given>>

GiveBatch ==
    /\ spc = "read" /\ Len(batch) = Len(ColIds)
    /\ given' = Append(given, [rg |-> rg_, num_rows |-> rgroups[rg_].num_rows,
                               columns |-> batch])
    /\ spc' = "next" /\ batch' = <<>>
    /\ UNCHANGED <<readerVars, rg_, skip_>>

EndScan ==
    /\ spc = "next" /\ rg_ >= Len(rgroups)
    /\ spc' = "done"
    /\ UNCHANGED <<readerVars, rg_, skip_, batch, given>>

(* The process ends, and the next one opens the store again. *)
LeaveScan ==
    /\ Leave
    /\ spc' = "none" /\ rg_' = 0 /\ skip_' = NoSkip /\ batch' = <<>> /\ given' = <<>>

ScanStep ==
    \/ StartScan \/ SkipGroup \/ BeginBatch \/ ReadColumn \/ GiveBatch \/ EndScan
    \/ LeaveScan
    \/ /\ OpenHead \/ RejectHead \/ OpenWithoutFooter \/ OpenFooter \/ OpenGarbage
       /\ UNCHANGED scanVars

SInit == Init /\ ScanInit

SNext == \/ WriterNext /\ UNCHANGED <<readerVars, scanVars>>
         \/ ScanStep /\ UNCHANGED <<diskVars, writerVars>>

SSpec == SInit /\ [][SNext]_svars

-----------------------------------------------------------------------------
(* The row as the columns of ColIds. *)
Projected(row) == [k \in DOMAIN ColIds |-> row[ColIds[k]]]

Passes(row) ==
    \A k \in DOMAIN ColIds :
        ColIds[k] = skip_.col => apply_cmp(row[k], skip_.op, skip_.value)

(* The rows of a batch are those of its group, the columns side by side. *)
HoldsItsGroup(b) ==
    /\ b.rg \in 1..Len(groups)
    /\ b.num_rows = groups[b.rg].num_rows
    /\ Len(b.columns) = Len(ColIds)
    /\ \A k \in 1..Len(ColIds) : ReadBack(b.rg, ColIds[k], b.columns[k])

(* A scan that went through the store to its end has given the filter above *)
(* it every row of the CSV that passes, in order and once, with the columns *)
(* of a row side by side, as long as the store it opened is still there     *)
(* (integers that packing does not keep are there, but others):             *)
(* the footer is from one read of the file, each chunk from another, and a  *)
(* skipped group is never read.                                             *)
ScanGivesTheRows ==
    Current /\ rtypes # <<>> /\ spc = "done" =>
        /\ \A b \in 1..Len(given) : HoldsItsGroup(given[b])
        /\ \A a, b \in 1..Len(given) :
             a < b => starts[given[a].rg] + given[a].num_rows <= starts[given[b].rg]
        /\ \A n \in 1..Len(input) :
             Passes(Projected(input[n])) =>
                 \E b \in 1..Len(given) : n - starts[given[b].rg] \in 1..given[b].num_rows

(* What TableMetadata says of an open store: as many rows as the CSV had,   *)
(* and no group without a value that it holds, whatever the type.           *)
MetadataIsTrue ==
    Current /\ rtypes # <<>> =>
        /\ meta_total_rows = Len(input)
        /\ \A g \in 1..Len(rgroups), c \in 1..NCols :
             \A i \in 1..rgroups[g].num_rows : may_contain_int(g, c, Slice(g, c)[i])

-----------------------------------------------------------------------------
(* The inductive invariant behind both. *)

(* The footer is one of a file, still there or not. *)
FooterShape == \A g \in 1..Len(rgroups) : Len(rgroups[g].columns) = Len(rtypes)

ScanPc ==
    /\ spc \in {"none", "next", "read", "done"}
    /\ rg_ \in 0..Len(rgroups) /\ (spc = "read" => rg_ > 0)
    /\ skip_ \in Skips \cup {NoSkip}
    /\ spc = "none" => rg_ = 0 /\ given = <<>>
    /\ spc \in {"next", "read"} => \A k \in DOMAIN ColIds : ColIds[k] <= Len(rtypes)
    /\ rpc \in {"closed", "checked"} => spc = "none"

(* The groups the scan is done with. *)
Behind == IF spc = "read" THEN rg_ - 1 ELSE rg_

(* What it has returned and what it has gone past, while the store is there. *)
GivenSoFar ==
    /\ \A b \in 1..Len(given) : HoldsItsGroup(given[b]) /\ given[b].rg <= Behind
    /\ \A a, b \in 1..Len(given) : a < b => given[a].rg < given[b].rg
    /\ \A g \in 1..Behind :
         \/ \E b \in 1..Len(given) : given[b].rg = g
         \/ \A i \in 1..groups[g].num_rows : ~Passes(Projected(input[starts[g] + i]))

BatchSoFar ==
    spc = "read" =>
        /\ Len(batch) <= Len(ColIds)
        /\ \A k \in 1..Len(batch) : ReadBack(rg_, ColIds[k], batch[k])

ScanSoFar == GivenSoFar /\ BatchSoFar /\ (spc = "done" => rg_ = Len(rgroups))

Batch == [rg : Nat, num_rows : Nat, columns : Seq(Seq(Int))]

ScanInv ==
    /\ FooterShape /\ ScanPc
    /\ batch \in Seq(Seq(Int)) /\ given \in Seq(Batch)
    /\ Current /\ rtypes # <<>> => ScanSoFar
=============================================================================
