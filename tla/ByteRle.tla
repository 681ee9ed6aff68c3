------------------------------- MODULE ByteRle -------------------------------
(***************************************************************************)
(* compress and decompress of compression.cpp: bytes as they are, or as    *)
(* runs, each a count of CountBytes bytes (the lowest first) and the byte. *)
(***************************************************************************)
EXTENDS Integers, SequencesExt

CONSTANTS
    Inputs,         \* the bytes given to compress
    Base,           \* the values of a byte: 256
    CountBytes      \* the bytes of a count: 4

ASSUME BytesAssumption ==
    /\ Base \in Nat /\ Base > 1
    /\ CountBytes \in Nat \ {0}
    /\ Inputs \subseteq Seq(0..Base - 1)

(* What a byte of a count stands for, and the greatest count. *)
Power[k \in 0..CountBytes] == IF k = 0 THEN 1 ELSE Base * Power[k - 1]
MaxRun == Power[CountBytes] - 1

VARIABLES
    type,           \* CompressionType
    data,           \* the input of compress
    taken,          \* how much of its input the running loop has taken
    out,            \* what it has put out
    packed,         \* the input of decompress
    whole,          \* history: whether that is all compress returned
    stage           \* "compress", "decompress", "done" or "failed"

rleVars == <<type, data, taken, out, packed, whole, stage>>

RleInit ==
    /\ type \in {"None", "RLE", "Delta"}
    /\ data \in Inputs
    /\ taken = 0 /\ out = <<>> /\ packed = <<>> /\ whole = TRUE /\ stage = "compress"

put_u32(v) == [k \in 1..CountBytes |-> (v \div Power[k - 1]) % Base]
get_u32(bytes) ==
    LET low[k \in 0..CountBytes] ==
            IF k = 0 THEN 0 ELSE low[k - 1] + bytes[k] * Power[k - 1]
    IN  low[CountBytes]

(* Fault: a run may be as long as the input. *)
RunAtAnyLength(s, after) ==
    LET same(n) == \A k \in 1..n : s[after + k] = s[after + 1]
    IN  Max({n \in 1..Len(s) - after : same(n)})

(* The length of the run that begins after so many bytes. *)
Run(s, after) ==
    LET same(n) == \A k \in 1..n : s[after + k] = s[after + 1]
    IN  Max({n \in 1..Min({MaxRun, Len(s) - after}) : same(n)})

Copy ==
    /\ type = "None" /\ stage = "compress"
    /\ packed' = data /\ out' = data /\ stage' = "done"
    /\ UNCHANGED <<type, data, taken, whole>>

Unsupported ==
    /\ type \notin {"None", "RLE"} /\ stage = "compress"
    /\ stage' = "failed"
    /\ UNCHANGED <<type, data, taken, out, packed, whole>>

PutRun ==
    /\ type = "RLE" /\ stage = "compress" /\ taken < Len(data)
    /\ LET run == Run(data, taken)
       IN  out' = out \o put_u32(run) \o <<data[taken + 1]>> /\ taken' = taken + run
    /\ UNCHANGED <<type, data, packed, whole, stage>>

(* decompress may get all of the bytes or, cut off, the first of them. *)
Compressed ==
    /\ type = "RLE" /\ stage = "compress" /\ taken = Len(data)
    /\ \E n \in 0..Len(out) : packed' = SubSeq(out, 1, n) /\ whole' = (n = Len(out))
    /\ taken' = 0 /\ out' = <<>> /\ stage' = "decompress"
    /\ UNCHANGED <<type, data>>

(* What is left when a run does not fit is dropped. *)
More == taken + CountBytes + 1 <= Len(packed)

TakeRun ==
    /\ stage = "decompress" /\ More
    /\ LET run == get_u32(SubSeq(packed, taken + 1, taken + CountBytes))
       IN  out' = out \o [k \in 1..run |-> packed[taken + CountBytes + 1]]
    /\ taken' = taken + CountBytes + 1
    /\ UNCHANGED <<type, data, packed, whole, stage>>

Decompressed ==
    /\ stage = "decompress" /\ ~More
    /\ stage' = "done"
    /\ UNCHANGED <<type, data, taken, out, packed, whole>>

RleNext == Copy \/ Unsupported \/ PutRun \/ Compressed \/ TakeRun \/ Decompressed
RleSpec == RleInit /\ [][RleNext]_rleVars

-----------------------------------------------------------------------------
(* Bytes that were compressed come back, runs at and beyond the greatest    *)
(* count too; of bytes cut off, the runs that are complete.                 *)
ComesBack == stage = "done" => IF whole THEN out = data ELSE IsPrefix(out, data)
=============================================================================
