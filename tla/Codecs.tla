-------------------------------- MODULE Codecs --------------------------------
(***************************************************************************)
(* encode_chunk and decode_chunk of columnar_store.cpp with all six codecs *)
(* of codec.hpp.  A chunk is a record of the items written for it; packed  *)
(* bits are a set of positions (Bits.tla), numbers are those of WordBits   *)
(* bits in two's complement and wrap, strings are sequences of characters. *)
(*                                                                         *)
(* Where the bits of a chunk depend on undefined behaviour, encoding and   *)
(* decoding return the set of the outcomes.                                *)
(***************************************************************************)
EXTENDS Bits, FiniteSetsExt, SequencesExt

CONSTANTS
    Columns,        \* the columns encoded: records of a type and its values
    Chars,          \* the characters of strings
    MaxRun          \* the longest run RleInt64 stores, 0xFFFFFFFF

VARIABLES
    column,         \* the column of a row group, from first row to last
    compress,       \* compress_enabled()
    best,           \* the shortest encoding so far
    candidate,      \* the encoding last compared with it
    todo,           \* the codecs still to try
    phase,          \* "start", "consider", "written" or "decoded"
    decoded         \* what decode_chunk returned

vars == <<column, compress, best, candidate, todo, phase, decoded>>

Pow2[k \in 0..WordBits] == IF k = 0 THEN 1 ELSE 2 * Pow2[k - 1]

Half        == Pow2[WordBits - 1]
Int64s      == -Half..Half - 1
Wrapped(x)  == ((x + Half) % (2 * Half)) - Half
Unsigned(x) == x % (2 * Half)

(* The numbers of a column, and what counts its rows and the characters of  *)
(* a string, fit a word.                                                    *)
ASSUME MaxRunAssumption == MaxRun \in Nat \ {0}
ASSUME ColumnsAssumption ==
    \A c \in Columns :
      /\ c.type \in {"Int64", "Float64", "String"}
      /\ c.type = "Int64"  => c.vals \in Seq(Int64s)
      /\ c.type = "String" => /\ c.vals \in Seq(Seq(Chars))
                              /\ \A i \in 1..Len(c.vals) : Len(c.vals[i]) < 2 * Half
      /\ c.type = "Float64" => c.vals \in Seq({c.vals[i] : i \in DOMAIN c.vals})
      /\ Len(c.vals) < 2 * Half

WordOf(n) == {k \in 0..WordBits-1 : (n \div Pow2[k]) % 2 = 1}
NumberOf(w) ==
    LET low[k \in 0..WordBits] ==
            IF k = 0 THEN 0 ELSE low[k - 1] + (IF k - 1 \in w THEN Pow2[k - 1] ELSE 0)
    IN  low[WordBits]

bits_for(range) ==
    IF range = 0 THEN 1 ELSE CHOOSE b \in 1..WordBits : Pow2[b - 1] <= range /\ range < Pow2[b]

(* bitpack_encode and bitpack_decode of whole chunks: any of the words may  *)
(* spill over, and any of those read may be given what is beyond.           *)
PackAll(ns, w) ==
    LET words  == {Stored(WordOf(ns[i]), w, (i - 1) * w) : i \in 1..Len(ns)}
        spills == UNION {Spills(WordOf(ns[i]), w, (i - 1) * w) : i \in 1..Len(ns)}
    IN  {UNION (words \cup spilt) : spilt \in SUBSET spills}

UnpackAll(bits, n, w) ==
    LET ghosts(i) == Ghosts(bits, w, (i - 1) * w)
        given(i, haunted) == IF i \in haunted THEN UNION ghosts(i) ELSE {}
    IN  {[i \in 1..n |-> NumberOf(Loaded(bits, w, (i - 1) * w) \cup given(i, haunted))] :
            haunted \in SUBSET {i \in 1..n : ghosts(i) # {{}}}}

-----------------------------------------------------------------------------
(* The encodings.  Each is the set of the chunks it may produce, empty when *)
(* it does not apply.                                                       *)

CodecId == {"None", "BitPack", "DictString", "RleInt64", "DeltaInt64", "DLBA"}

try_none(c) == {[codec |-> "None", vals |-> c.vals]}

try_bitpack(c) ==
    LET vals == c.vals
        mn   == Min(ToSet(vals))
        bw   == bits_for(Unsigned(Max(ToSet(vals)) - mn))
    IN  IF c.type # "Int64" \/ vals = <<>> THEN {}
        ELSE {[codec |-> "BitPack", base |-> mn, bw |-> bw, cnt |-> Len(vals), bits |-> b] :
                b \in PackAll([i \in 1..Len(vals) |-> Unsigned(vals[i] - mn)], bw)}

(* Strings in the order of their first occurrence. *)
Distinct(vals) ==
    LET dict[i \in 0..Len(vals)] ==
            IF i = 0 THEN <<>>
            ELSE IF Contains(dict[i - 1], vals[i]) THEN dict[i - 1] ELSE Append(dict[i - 1], vals[i])
    IN  dict[Len(vals)]

try_dict_string(c) ==
    LET vals == c.vals
        dict == Distinct(vals)
        bw   == bits_for(Len(dict) - 1)
        Code(s) == CHOOSE i \in 0..Len(dict)-1 : dict[i + 1] = s
    IN  IF c.type # "String" \/ vals = <<>> THEN {}
        ELSE {[codec |-> "DictString", dict |-> dict, cnt |-> Len(vals), bw |-> bw, bits |-> b] :
                b \in PackAll([i \in 1..Len(vals) |-> Code(vals[i])], bw)}

WithRun(rs, v) ==
    IF rs # <<>> /\ Last(rs).v = v /\ Last(rs).l < MaxRun
      THEN [rs EXCEPT ![Len(rs)].l = @ + 1]
      ELSE Append(rs, [v |-> v, l |-> 1])
RunsUpTo(vals, n) ==
    LET runs[i \in 0..n] == IF i = 0 THEN <<>> ELSE WithRun(runs[i - 1], vals[i])
    IN  runs[n]

(* Fault: the last run is never added. *)
RunsWithoutLast(vals) == RunsUpTo(vals, Len(vals) - 1)

Runs(vals) == RunsUpTo(vals, Len(vals))

try_rle_int64(c) ==
    IF c.type # "Int64" \/ c.vals = <<>> THEN {}
    ELSE {[codec |-> "RleInt64", runs |-> Runs(c.vals)]}

try_delta_int64(c) ==
    LET vals   == c.vals
        deltas == [i \in 1..Len(vals)-1 |-> Wrapped(vals[i+1] - vals[i])]
        mn     == Min(ToSet(deltas))
        bw     == bits_for(Unsigned(Max(ToSet(deltas)) - mn))
        Chunk(low, width, b) == [codec |-> "DeltaInt64", cnt |-> Len(vals),
                                 first |-> vals[1], mn |-> low, bw |-> width, bits |-> b]
    IN  IF c.type # "Int64" \/ vals = <<>> THEN {}
        ELSE IF Len(vals) = 1 THEN {Chunk(0, 1, {})}
        ELSE {Chunk(mn, bw, b) :
                b \in PackAll([i \in 1..Len(deltas) |-> Unsigned(deltas[i] - mn)], bw)}

try_dlba(c) ==
    LET vals == c.vals
        lens == [i \in 1..Len(vals) |-> Len(vals[i])]
        mn   == Min(ToSet(lens))
        bw   == bits_for(Max(ToSet(lens)) - mn)
    IN  IF c.type # "String" \/ vals = <<>> THEN {}
        ELSE {[codec |-> "DLBA", cnt |-> Len(vals), mn |-> mn, bw |-> bw, bits |-> b,
               blob |-> FlattenSeq(vals)] :
                b \in PackAll([i \in 1..Len(vals) |-> lens[i] - mn], bw)}

Try(id, c) ==
    CASE id = "None"       -> try_none(c)
      [] id = "BitPack"    -> try_bitpack(c)
      [] id = "DictString" -> try_dict_string(c)
      [] id = "RleInt64"   -> try_rle_int64(c)
      [] id = "DeltaInt64" -> try_delta_int64(c)
      [] id = "DLBA"       -> try_dlba(c)

(* The bytes of a chunk: U64 for int64_t and uint64_t, U32 for uint32_t.    *)
U64 == WordBits \div ByteBits
U32 == U64 \div 2
Bytes(bits) == (bits + ByteBits - 1) \div ByteBits
StringBytes(strings) == Len(FlattenSeq(strings)) + Len(strings) * U32

Size(c, ch) ==
    1 + CASE ch.codec = "None"       -> IF c.type = "String" THEN StringBytes(ch.vals)
                                        ELSE Len(ch.vals) * U64
          [] ch.codec = "BitPack"    -> U64 + 1 + U64 + Bytes(ch.cnt * ch.bw)
          [] ch.codec = "DictString" -> U32 + StringBytes(ch.dict) + U32 + 1
                                          + Bytes(ch.cnt * ch.bw)
          [] ch.codec = "RleInt64"   -> U32 + Len(ch.runs) * (U64 + U32)
          [] ch.codec = "DeltaInt64" -> U64 + U64 + U64 + 1 + Bytes((ch.cnt - 1) * ch.bw)
          [] ch.codec = "DLBA"       -> U32 + U32 + 1 + Bytes(ch.cnt * ch.bw)
                                          + U64 + Len(ch.blob)

-----------------------------------------------------------------------------
(* decode_chunk: what a chunk may be read back as.  A code beyond the       *)
(* dictionary throws.                                                       *)

Values(vals) == [threw |-> FALSE, vals |-> vals]
Threw        == [threw |-> TRUE, vals |-> <<>>]

(* Fault: the running value is not advanced by the smallest delta. *)
DecodeDeltaWithoutBase(ch) ==
    LET Sums(r) ==
            LET v[i \in 0..ch.cnt-1] == IF i = 0 THEN ch.first ELSE Wrapped(v[i-1] + r[i])
            IN  [i \in 1..ch.cnt |-> v[i-1]]
    IN  {Values(Sums(r)) : r \in UnpackAll(ch.bits, ch.cnt - 1, ch.bw)}

DecodeDelta(ch) ==
    LET Sums(r) ==
            LET v[i \in 0..ch.cnt-1] ==
                    IF i = 0 THEN ch.first ELSE Wrapped(v[i-1] + Wrapped(ch.mn + r[i]))
            IN  [i \in 1..ch.cnt |-> v[i-1]]
    IN  {Values(Sums(r)) : r \in UnpackAll(ch.bits, ch.cnt - 1, ch.bw)}

DecodeDict(ch) ==
    {IF \E i \in 1..ch.cnt : r[i] >= Len(ch.dict) THEN Threw
     ELSE Values([i \in 1..ch.cnt |-> ch.dict[r[i] + 1]]) :
        r \in UnpackAll(ch.bits, ch.cnt, ch.bw)}

DecodeDlba(ch) ==
    LET Cut(r) ==
            LET off[i \in 0..ch.cnt] == IF i = 0 THEN 0 ELSE off[i-1] + ch.mn + r[i]
            IN  [i \in 1..ch.cnt |-> SubSeq(ch.blob, off[i-1] + 1, off[i])]
    IN  {Values(Cut(r)) : r \in UnpackAll(ch.bits, ch.cnt, ch.bw)}

Decode(ch) ==
    CASE ch.codec = "None"     -> {Values(ch.vals)}
      [] ch.codec = "BitPack"  -> {Values([i \in 1..ch.cnt |-> Wrapped(ch.base + r[i])]) :
                                     r \in UnpackAll(ch.bits, ch.cnt, ch.bw)}
      [] ch.codec = "DictString" -> DecodeDict(ch)
      [] ch.codec = "RleInt64" ->
           {Values(FlattenSeq([i \in 1..Len(ch.runs) |->
                                 [k \in 1..ch.runs[i].l |-> ch.runs[i].v]]))}
      [] ch.codec = "DeltaInt64" -> DecodeDelta(ch)
      [] ch.codec = "DLBA"       -> DecodeDlba(ch)

-----------------------------------------------------------------------------
Init ==
    /\ column \in Columns /\ compress \in BOOLEAN
    /\ best = <<>> /\ candidate = <<>>
    /\ todo = <<"BitPack", "DictString", "RleInt64", "DeltaInt64", "DLBA">>
    /\ phase = "start" /\ decoded = <<>>

(* encode_chunk starts from the plain encoding and keeps it if compression  *)
(* is off.                                                                  *)
StartEncode ==
    /\ phase = "start"
    /\ \E ch \in try_none(column) : best' = ch /\ candidate' = ch
    /\ phase' = IF compress THEN "consider" ELSE "written"
    /\ UNCHANGED <<column, compress, todo, decoded>>

(* Fault: the longest encoding is kept. *)
ConsiderLongest ==
    /\ phase = "consider"
    /\ todo # <<>>
    /\ todo' = Tail(todo)
    /\ IF Try(Head(todo), column) = {} THEN UNCHANGED <<best, candidate>>
       ELSE \E ch \in Try(Head(todo), column) :
              /\ candidate' = ch
              /\ best' = IF Size(column, ch) > Size(column, best) THEN ch ELSE best
    /\ UNCHANGED <<column, compress, phase, decoded>>

(* The lambda `consider' on the next codec. *)
Consider ==
    /\ phase = "consider"
    /\ todo # <<>>
    /\ todo' = Tail(todo)
    /\ IF Try(Head(todo), column) = {} THEN UNCHANGED <<best, candidate>>
       ELSE \E ch \in Try(Head(todo), column) :
              /\ candidate' = ch
              /\ best' = IF Size(column, ch) < Size(column, best) THEN ch ELSE best
    /\ UNCHANGED <<column, compress, phase, decoded>>

WriteBest ==
    /\ phase = "consider"
    /\ todo = <<>>
    /\ phase' = "written"
    /\ UNCHANGED <<column, compress, best, candidate, todo, decoded>>

ReadBack ==
    /\ phase = "written"
    /\ decoded' \in Decode(best)
    /\ phase' = "decoded"
    /\ UNCHANGED <<column, compress, best, candidate, todo>>

Next == StartEncode \/ Consider \/ WriteBest \/ ReadBack

Spec == Init /\ [][Next]_vars

-----------------------------------------------------------------------------
(* What decode_chunk makes of the chunk that was written is the column, for *)
(* whichever codec won: README.md:85-87 gives a chunk a codec byte and the  *)
(* data of the column, compressed.                                          *)
RoundTrip == phase = "decoded" => decoded = Values(column.vals)

(* So does every encoding that was tried, the ones that lost included, if   *)
(* each number it packs ends in the word that starts with its first byte.   *)
Numbers(ch) == IF ch.codec = "DeltaInt64" THEN ch.cnt - 1 ELSE ch.cnt
FitWords(n, w) == \A i \in 1..n : ~NinthByte(w, (i - 1) * w)
InWords(ch) == ch.codec \notin {"None", "RleInt64"} => FitWords(Numbers(ch), ch.bw)
CandidatesAreExact ==
    candidate # <<>> /\ InWords(candidate) => Decode(candidate) = {Values(column.vals)}

(* The chunk written is no longer than any encoding that applies, so never  *)
(* longer than the plain data and a byte.                                   *)
ShortestWins ==
    phase \in {"written", "decoded"} /\ compress =>
        \A id \in CodecId : \A ch \in Try(id, column) : Size(column, best) <= Size(column, ch)
=============================================================================
