------------------------------ MODULE MCBitPack ------------------------------
(* Instances of BitPack for TLC: bytes of four bits and words of twelve,    *)
(* all widths, up to four values: all ones, alternating ones or zeros.      *)
(* Width 11 is the one that needs the byte after the word, for the second   *)
(* and the third value, as 59, 61, 62 and 63 do with bytes of eight bits    *)
(* and words of 64.                                                         *)
EXTENDS BitPack

MCWords  == {{}, {0, 2, 4, 6, 8, 10}, 0..11}
MCInputs == UNION {[1..n -> MCWords] : n \in 0..4}
=============================================================================
