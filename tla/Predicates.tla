----------------------------- MODULE Predicates -----------------------------
(***************************************************************************)
(* The comparisons of expression.hpp: the one a filter applies to a value, *)
(* and the one a scan applies to the least and the greatest value of a row *)
(* group to find out whether any row of the group can pass the filter.     *)
(***************************************************************************)
EXTENDS Integers

CompareOp == {"Eq", "Ne", "Lt", "Le", "Gt", "Ge"}

apply_cmp(x, op, v) ==
    \/ op = "Eq" /\ x = v
    \/ op = "Ne" /\ x # v
    \/ op = "Lt" /\ x < v
    \/ op = "Le" /\ x <= v
    \/ op = "Gt" /\ x > v
    \/ op = "Ge" /\ x >= v

(* Fault: a group is out as soon as one end of its range is the excluded    *)
(* value.                                                                   *)
range_can_match_one_end(op, v, mn, mx) ==
    \/ op = "Eq" /\ mn <= v /\ v <= mx
    \/ op = "Ne" /\ mn # v /\ mx # v
    \/ op = "Lt" /\ mn < v
    \/ op = "Le" /\ mn <= v
    \/ op = "Gt" /\ mx > v
    \/ op = "Ge" /\ mx >= v

range_can_match(op, v, mn, mx) ==
    \/ op = "Eq" /\ mn <= v /\ v <= mx
    \/ op = "Ne" /\ ~(mn = v /\ mx = v)
    \/ op = "Lt" /\ mn < v
    \/ op = "Le" /\ mn <= v
    \/ op = "Gt" /\ mx > v
    \/ op = "Ge" /\ mx >= v
=============================================================================
