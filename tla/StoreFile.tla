------------------------------ MODULE StoreFile ------------------------------
(***************************************************************************)
(* The .bc store on disk, as columnar_store.cpp lays it out.               *)
(*                                                                         *)
(* A file is a sequence of cells.  A cell stands for one item the code     *)
(* writes with one put() or one element of a column payload: the magic, a  *)
(* codec byte, a number, the schema part of the footer, the metadata of    *)
(* one row group, the footer length.  An offset is a number of cells from  *)
(* the start of the file, so chunks have different lengths and an offset   *)
(* that is off by one lands on a wrong cell.                               *)
(*                                                                         *)
(* A field of the data CSV is an integer that stands for its text.  A text *)
(* in IntMin..IntMax is one std::stoll accepts; 0 also stands for the      *)
(* empty text, which an Int64 column stores as 0 and a String column as    *)
(* the empty string.  Any other integer is a text std::stoll rejects.      *)
(*                                                                         *)
(* Bit packing loses bits of numbers further apart than PackedSpan.  Which *)
(* ones is for Codecs.tla to say; here any numbers may come back.          *)
(***************************************************************************)
EXTENDS Integers, Sequences

CONSTANTS
    Types,          \* the types of the columns, in the order of the schema CSV
    RowsPerGroup,   \* ROWS_PER_GROUP, 65536 in the code
    IntMin,         \* the least number a data CSV may hold
    IntMax,         \* the greatest one
    PackedSpan,     \* the widest range whose numbers, and whose differences,
                    \* packing always keeps: 2^56 - 1
    Compress        \* whether BCE_COMPRESS leaves compression on

VARIABLES
    file,           \* the cells the last conversion wrote to its stream
    durable,        \* how many of them have reached the disk
    gen             \* how many conversions have truncated the file

diskVars == <<file, durable, gen>>

DataType == {"Int64", "Float64", "String"}
CodecId  == {"None", "BitPack", "DLBA"}
NCols    == Len(Types)

ASSUME TypesAssumption == Types \in Seq(DataType)
ASSUME RowsPerGroupAssumption == RowsPerGroup \in Nat \ {0}
ASSUME IntAssumption == IntMin \in Int /\ IntMax \in Int /\ 0 \in IntMin..IntMax
ASSUME SpanAssumption == PackedSpan \in Nat
ASSUME CompressAssumption == Compress \in BOOLEAN

Int64 == IntMin..IntMax

(* ChunkMeta and RowGroupMeta.  min_f and max_f are left out: nothing reads *)
(* them back, and a Float64 chunk has min_i = max_i = 0 beside them.        *)
ChunkMeta    == [offset : Int, length : Int, has_stats : BOOLEAN,
                 min_i : Int, max_i : Int]
RowGroupMeta == [num_rows : Nat, columns : Seq(ChunkMeta)]

MagicCell     == [k |-> "magic"]
CodecCell(id) == [k |-> "codec", id |-> id]
NumCell(n)    == [k |-> "num", v |-> n]
SchemaCell    == [k |-> "schema", types |-> Types]
GroupCell(g)  == [k |-> "group", meta |-> g]
LenCell(n)    == [k |-> "len", n |-> n]

Cell == [k : {"magic"}] \cup [k : {"codec"}, id : CodecId]
          \cup [k : {"num"}, v : Int] \cup [k : {"schema"}, types : Seq(DataType)]
          \cup [k : {"group"}, meta : RowGroupMeta] \cup [k : {"len"}, n : Nat]

-----------------------------------------------------------------------------
(* The statistics of a chunk. *)

ValuesOf(vals) == {vals[i] : i \in 1..Len(vals)}

(* Fault: the minimum starts from 0, not from the first value. *)
MinFromZero(vals) ==
    CHOOSE m \in ValuesOf(vals) \cup {0} : \A v \in ValuesOf(vals) \cup {0} : m <= v

MinOf(vals) == CHOOSE m \in ValuesOf(vals) : \A v \in ValuesOf(vals) : m <= v
MaxOf(vals) == CHOOSE m \in ValuesOf(vals) : \A v \in ValuesOf(vals) : v <= m

(* The ChunkMeta of the values vals of a column of type t, written as       *)
(* length cells at offset.                                                  *)
MetaOf(t, vals, offset, length) ==
    LET int == t = "Int64" /\ vals # <<>>
    IN  [offset    |-> offset,
         length    |-> length,
         has_stats |-> t \in {"Int64", "Float64"} /\ vals # <<>>,
         min_i     |-> IF int THEN MinOf(vals) ELSE 0,
         max_i     |-> IF int THEN MaxOf(vals) ELSE 0]

-----------------------------------------------------------------------------
(* Chunks.  encode_chunk keeps the shortest of the encodings that apply;   *)
(* lengths in bytes are abstracted, so any of them may win.  The codecs    *)
(* with the same frame (codec byte, counts, payload) are represented by    *)
(* BitPack for Int64 and DLBA for String; Codecs.tla has all six.          *)

Candidates(t, n) ==
    {"None"} \cup {id \in {"BitPack", "DLBA"} :
                     /\ Compress
                     /\ n > 0
                     /\ t = IF id = "BitPack" THEN "Int64" ELSE "String"}

Header(id, vals) ==
    CASE id = "None"    -> <<CodecCell(id)>>
      [] id = "BitPack" -> <<CodecCell(id), NumCell(MinOf(vals)), NumCell(Len(vals))>>
      [] id = "DLBA"    -> <<CodecCell(id), NumCell(Len(vals))>>

(* Integers that no packing changes. *)
Narrow(vals) == \A i, j \in 1..Len(vals) : vals[i] - vals[j] <= PackedSpan

(* What may be left of vals in the bits of a chunk. *)
Kept(id, vals) ==
    IF id # "BitPack" \/ Narrow(vals) THEN {vals} ELSE [1..Len(vals) -> Int64]

Payload(id, vals, kept) ==
    LET base == IF id = "BitPack" THEN MinOf(vals) ELSE 0
    IN  [i \in 1..Len(vals) |-> NumCell(kept[i] - base)]

EncodeChunk(id, vals, kept) == Header(id, vals) \o Payload(id, vals, kept)

HeaderLen(id) == CASE id = "None" -> 1 [] id = "BitPack" -> 3 [] id = "DLBA" -> 2

(* Whether decode_chunk finds, at off in the first size cells of f, a chunk *)
(* it accepts for n values of type t.                                       *)
Decodable(f, size, off, t, n) ==
    /\ off \in 0..size-1
    /\ f[off+1].k = "codec"
    /\ LET id == f[off+1].id
           h  == HeaderLen(id)
       IN  /\ id \in CodecId
           /\ off + h + n <= size
           /\ \A i \in 2..h+n : f[off+i].k = "num"
           /\ id = "BitPack" => t = "Int64"
           /\ id = "DLBA" => t = "String"
           /\ id # "None" => f[off+h].v = n

(* The values it decodes there. *)
DecodeChunk(f, off, n) ==
    LET id   == f[off+1].id
        base == IF id = "BitPack" THEN f[off+2].v ELSE 0
    IN  [i \in 1..n |-> base + f[off + HeaderLen(id) + i].v]

(* What it returns once the stream has failed: a zero codec byte is None,   *)
(* and None returns zeros and empty strings.                                *)
ZeroColumn(n) == [i \in 1..n |-> 0]

-----------------------------------------------------------------------------
(* Fault: the trailing magic is forgotten. *)
FooterWithoutMagic(groups) ==
    <<SchemaCell, NumCell(Len(groups))>>
      \o [i \in 1..Len(groups) |-> GroupCell(groups[i])]
      \o <<LenCell(Len(groups) + 2)>>

(* The footer: schema, number of groups, the groups, the footer length, the *)
(* magic.                                                                   *)
Footer(groups) ==
    <<SchemaCell, NumCell(Len(groups))>>
      \o [i \in 1..Len(groups) |-> GroupCell(groups[i])]
      \o <<LenCell(Len(groups) + 2), MagicCell>>

(* The file on disk is a finished store. *)
Sealed == /\ durable > 1
          /\ file[durable].k = "magic"
=============================================================================
