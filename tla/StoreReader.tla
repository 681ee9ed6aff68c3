----------------------------- MODULE StoreReader -----------------------------
(***************************************************************************)
(* StoreReader, used by one `query' process.  The constructor looks at the *)
(* file twice: first the size and the two magics, then the footer at the   *)
(* position that size gives; a conversion may rewrite the file in between  *)
(* and at any time after.  Every read goes to the file again: the position *)
(* is sought first, which drops the stream's buffer.  A read past the end  *)
(* sets the stream's failbit, which no code ever clears or looks at; every *)
(* later get() returns zero.                                               *)
(***************************************************************************)
EXTENDS StoreFile

VARIABLES
    rpc,            \* "closed", "checked" (magics seen), "open", "garbage", "rejected"
    rsize,          \* file_size, in cells
    rtypes,         \* the types of schema_
    rgroups,        \* groups_
    rfail,          \* the failbit of file_
    rgen,           \* history: gen when the footer was read
    got             \* the last read_chunk: row group, column, how it ended, values

readerVars == <<rpc, rsize, rtypes, rgroups, rfail, rgen, got>>

NothingRead == [rg |-> 0, col |-> 0, how |-> "none", vals |-> <<>>]

ReaderInit ==
    /\ rpc = "closed" /\ rsize = 0 /\ rtypes = <<>> /\ rgroups = <<>>
    /\ rfail = FALSE /\ rgen = 0 /\ got = NothingRead

(* Fault: the size leaves out the trailing magic, without a look at how     *)
(* short the file is.                                                       *)
OpenHeadUnderflows ==
    /\ rpc = "closed"
    /\ gen > 0
    /\ durable > 0 => file[1].k = "magic" /\ file[durable].k = "magic"
    /\ rpc' = "checked"
    /\ rsize' = durable - 1
    /\ UNCHANGED <<rtypes, rgroups, rfail, rgen, got>>

(* Both magics are there.  In a file that is one magic they are the same    *)
(* cell.  In an empty file nothing is read into the buffer they are         *)
(* compared with, whose bytes are then whatever the stack holds.            *)
OpenHead ==
    /\ rpc = "closed"
    /\ gen > 0
    /\ durable > 0 => file[1].k = "magic" /\ file[durable].k = "magic"
    /\ rpc' = "checked"
    /\ rsize' = durable
    /\ UNCHANGED <<rtypes, rgroups, rfail, rgen, got>>

(* The file is missing, or a magic is. *)
RejectHead ==
    /\ rpc = "closed"
    /\ gen > 0 /\ durable > 0 => file[durable].k # "magic"
    /\ rpc' = "rejected"
    /\ UNCHANGED <<rsize, rtypes, rgroups, rfail, rgen, got>>

(* The footer length lies before the start of the file or past its end: the *)
(* seek or the read fails, and all counts come back zero.                   *)
NoFooter == rsize < 2 \/ rsize - 1 > durable

OpenWithoutFooter ==
    /\ rpc = "checked"
    /\ NoFooter
    /\ rpc' = "open"
    /\ rtypes' = <<>> /\ rgroups' = <<>> /\ rfail' = TRUE /\ rgen' = gen
    /\ UNCHANGED <<rsize, got>>

OpenFooter ==
    /\ rpc = "checked"
    /\ ~NoFooter
    /\ file[rsize - 1].k = "len"
    /\ LET start == rsize - 2 - file[rsize - 1].n
       IN  /\ rtypes' = file[start + 1].types
           /\ rgroups' = [g \in 1..file[start + 2].v |-> file[start + 2 + g].meta]
    /\ rpc' = "open" /\ rgen' = gen
    /\ UNCHANGED <<rsize, rfail, got>>

(* Other bytes are now where the footer was: the constructor may throw, or *)
(* make a schema and groups out of them.                                   *)
OpenGarbage ==
    /\ rpc = "checked"
    /\ ~NoFooter
    /\ file[rsize - 1].k # "len"
    /\ rpc' \in {"rejected", "garbage"}
    /\ UNCHANGED <<rsize, rtypes, rgroups, rfail, rgen, got>>

(* read_chunk(rg, col): the values a chunk decodes to; zeros past the end   *)
(* or once the stream has failed; and, on other bytes, an exception, which  *)
(* ends the process, or values nothing is known about.                      *)
ReadChunk(rg, col) ==
    /\ rpc = "open"
    /\ LET n   == rgroups[rg].num_rows
           off == rgroups[rg].columns[col].offset
           t   == rtypes[col]
           Ends(how, vals) == got' = [rg |-> rg, col |-> col, how |-> how, vals |-> vals]
       IN  IF rfail \/ off \notin 0..durable-1
             THEN /\ Ends("values", ZeroColumn(n))
                  /\ rfail' = TRUE /\ rpc' = rpc
           ELSE IF Decodable(file, durable, off, t, n)
             THEN /\ Ends("values", DecodeChunk(file, off, n))
                  /\ UNCHANGED <<rfail, rpc>>
             ELSE \/ Ends("throw", <<>>) /\ rpc' = "rejected" /\ rfail' = rfail
                  \/ Ends("garbage", <<>>) /\ rpc' = rpc /\ rfail' \in {rfail, TRUE}
    /\ UNCHANGED <<rsize, rtypes, rgroups, rgen>>

(* The process ends; the next one starts afresh. *)
Leave ==
    /\ rpc # "closed"
    /\ rpc' = "closed" /\ rsize' = 0 /\ rtypes' = <<>> /\ rgroups' = <<>>
    /\ rfail' = FALSE /\ rgen' = 0 /\ got' = NothingRead

ReaderStep ==
    \/ OpenHead \/ RejectHead
    \/ OpenWithoutFooter \/ OpenFooter \/ OpenGarbage
    \/ \E rg \in 1..Len(rgroups) : \E col \in 1..Len(rgroups[rg].columns) :
         ReadChunk(rg, col)
    \/ Leave

ReaderNext == ReaderStep /\ UNCHANGED diskVars
=============================================================================
