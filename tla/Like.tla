-------------------------------- MODULE Like --------------------------------
(***************************************************************************)
(* LikeExpr: a LIKE pattern is compiled, to one of four plain string       *)
(* searches where it can be and to a regular expression where not, and     *)
(* what it was compiled to then answers for a string.                      *)
(*                                                                         *)
(* A string is a sequence of characters.  "%" and "_" are special in a     *)
(* pattern, "." stands for the characters that are special in a regular    *)
(* expression and Break for a line break, the one character that the "."   *)
(* of a regular expression does not match.                                 *)
(***************************************************************************)
EXTENDS Integers, FiniteSets, SequencesExt

CONSTANT
    Break           \* \n or \r

Special == {"%", "_"}
NotBreak(c) == c # Break

Percents(p) == {i \in DOMAIN p : p[i] = "%"}

(* Fault: an underscore in the body is taken for a plain character. *)
BodyCleanButUnderscores(p) ==
    \A i \in Percents(p) : i \in {Min(Percents(p)), Max(Percents(p))}

(* p is plain but for a first and a last "%". *)
BodyClean(p) ==
    \A i \in DOMAIN p :
      /\ p[i] # "_"
      /\ p[i] = "%" => i \in {Min(Percents(p)), Max(Percents(p))}

(* The tokens of the expression that is built: "%" is .*, "_" is . and a    *)
(* character that is special in an expression is escaped.                   *)
Token(c) == CASE c = "%" -> "anything" [] c = "_" -> "any" [] OTHER -> c
Expression(p) == [i \in 1..Len(p) |-> Token(p[i])]

Plan(mode, needle) == [mode |-> mode, needle |-> needle]

compile(p) ==
    LET n == Len(p)
    IN  IF BodyClean(p) /\ Percents(p) = {1, n} /\ n > 1
          THEN Plan("Contains", SubSeq(p, 2, n - 1))
        ELSE IF BodyClean(p) /\ Percents(p) = {1}
          THEN Plan("Suffix", Tail(p))
        ELSE IF BodyClean(p) /\ Percents(p) = {n}
          THEN Plan("Prefix", Front(p))
        ELSE IF \A i \in 1..n : p[i] \notin Special
          THEN Plan("Equal", p)
        ELSE Plan("Regex", Expression(p))

(* std::regex_search of ^tokens$: the places of s that a prefix of the      *)
(* tokens can have come to.                                                 *)
Reach(s, places, token) ==
    CASE token = "any" -> {i + 1 : i \in {j \in places : j < Len(s) /\ NotBreak(s[j + 1])}}
      [] token = "anything" ->
           {i \in 0..Len(s) : \E j \in places :
              j <= i /\ \A k \in j+1..i : NotBreak(s[k])}
      [] OTHER -> {i + 1 : i \in {j \in places : j < Len(s) /\ s[j + 1] = token}}
RegexSearch(s, tokens) ==
    LET after[t \in 0..Len(tokens)] ==
          IF t = 0 THEN {0} ELSE Reach(s, after[t - 1], tokens[t])
    IN  Len(s) \in after[Len(tokens)]

Found(s, needle) ==
    \E i \in 0..Len(s) - Len(needle) : SubSeq(s, i + 1, i + Len(needle)) = needle

(* The answer for one string. *)
Matches(s, l) ==
    CASE l.mode = "Contains" -> Found(s, l.needle)
      [] l.mode = "Prefix"   -> IsPrefix(l.needle, s)
      [] l.mode = "Suffix"   -> IsSuffix(l.needle, s)
      [] l.mode = "Equal"    -> s = l.needle
      [] l.mode = "Regex"    -> RegexSearch(s, l.needle)

-----------------------------------------------------------------------------
(* What LIKE means: s can be cut into spans, one for each character of p,   *)
(* where "%" takes any span, "_" one of one character and every other       *)
(* character takes itself.                                                  *)
SqlLike(s, p) ==
    IF p = <<>> THEN s = <<>> ELSE
    \E cut \in [1..Len(p) - 1 -> 0..Len(s)] :
      LET at(i)   == IF i = 0 THEN 0 ELSE IF i = Len(p) THEN Len(s) ELSE cut[i]
          span(i) == SubSeq(s, at(i - 1) + 1, at(i))
      IN  \A i \in 1..Len(p) :
            /\ at(i - 1) <= at(i)
            /\ p[i] = "_" => Len(span(i)) = 1
            /\ p[i] \notin Special => span(i) = <<p[i]>>
=============================================================================
