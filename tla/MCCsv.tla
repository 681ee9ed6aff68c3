-------------------------------- MODULE MCCsv --------------------------------
(* Instances of Csv for TLC: rows of one or two fields with every special   *)
(* character, alone and doubled, and every short file from elsewhere.       *)
EXTENDS Csv

MCFields == {<<>>, <<Letter>>, <<Comma>>, <<Newline>>, <<Quote>>, <<Quote, Newline>>}
MCWidths == {1, 2}
MCTexts  == UNION {[1..n -> Char] : n \in 0..5}
=============================================================================
