---------------------------- MODULE TextFunctions ----------------------------
(***************************************************************************)
(* JsonGet, ArrayLength and ArrayContainsInt: functions of a string column *)
(* that look for a few characters and never parse.  They are given what    *)
(* somebody rendered: a JSON object without nesting, or an array of        *)
(* integers.  A text is a sequence of characters.                          *)
(***************************************************************************)
EXTENDS Integers, FiniteSets, SequencesExt

Quote == "\""

-----------------------------------------------------------------------------
(* std::string::find: the first place from i on where needle is, or 0. *)
Find(s, needle, i) ==
    LET places == {k \in i..Len(s) - Len(needle) + 1 : SubSeq(s, k, k + Len(needle) - 1) = needle}
    IN  IF places = {} THEN 0 ELSE Min(places)

(* The first place from i on whose character is in C, or the place after    *)
(* the end.                                                                 *)
FindAny(s, C, i) == Min({k \in i..Len(s) : s[k] \in C} \cup {Len(s) + 1})


Needle(k) == <<Quote>> \o k \o <<Quote>>

(* What stands after the first colon after the first "key", as far as the   *)
(* next quote if it begins with one, else as far as the value goes.         *)
json_extract_raw(s, k) ==
    LET at    == Find(s, Needle(k), 1)
        colon == IF at = 0 THEN 0 ELSE Find(s, <<":">>, at + Len(Needle(k)))
        blank == {b \in DOMAIN s : s[b] \in {" ", "\t"}}
        start == Min({b \in colon + 1..Len(s) + 1 : b \notin blank})
    IN  IF at = 0 \/ colon = 0 \/ start > Len(s) THEN <<>>
        ELSE IF s[start] = Quote
          THEN LET end == FindAny(s, {Quote}, start + 1)
               IN  IF end > Len(s) THEN <<>> ELSE SubSeq(s, start + 1, end - 1)
        ELSE SubSeq(s, start, FindAny(s, {",", "}", " "}, start) - 1)

Enclosed(s) == Len(s) >= 2 /\ s[1] = "[" /\ Last(s) = "]"

array_length(s) ==
    IF ~Enclosed(s) \/ Len(s) = 2 THEN 0
    ELSE 1 + Cardinality({k \in 2..Len(s) - 1 : s[k] = ","})

array_contains_int(s, v) ==
    \E k \in 2..Len(s) - Len(v) :
      /\ SubSeq(s, k, k + Len(v) - 1) = v
      /\ s[k - 1] \in {"[", ","} /\ s[k + Len(v)] \in {",", "]"}

-----------------------------------------------------------------------------
(* What the columns hold. *)
Separated(parts, mark) ==
    FlattenSeq([i \in DOMAIN parts |-> (IF i = 1 THEN <<>> ELSE mark) \o parts[i]])
MemberText(m) ==
    <<Quote>> \o m.key \o <<Quote, ":", " ">> \o
      (IF m.quoted THEN <<Quote>> \o m.value \o <<Quote>> ELSE m.value)
ObjectText(o) ==
    <<"{">> \o Separated([i \in DOMAIN o |-> MemberText(o[i])], <<",">>) \o <<"}">>
ArrayText(a) == <<"[">> \o Separated(a, <<",">>) \o <<"]">>
=============================================================================
