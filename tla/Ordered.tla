------------------------------ MODULE Ordered ------------------------------
(***************************************************************************)
(* ORDER BY, as the queries of the program use it: the elements of a       *)
(* finite set in a strict total order.                                     *)
(***************************************************************************)
EXTENDS Integers, FiniteSets

InOrder(S, Less(_, _)) ==
    LET positions == 1..Cardinality(S)
    IN  CHOOSE s \in [positions -> S] :
            \A m, n \in positions : m < n => Less(s[m], s[n])

\* Numbers from the smallest to the largest.
Ascending(S) == InOrder(S, LAMBDA m, n : m < n)
=============================================================================
