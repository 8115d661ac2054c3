------------------------- MODULE MCStreamProjection -------------------------
(***************************************************************************)
(* A small calendar for StreamProjection: months of three and four days,   *)
(* two of them to a year, weeks of two days; and the rules of each run.    *)
(***************************************************************************)
EXTENDS StreamProjection, TLC

SmallCalendar == [m \in FirstMonth..(LastMonth + 1) |-> 3 * m + (m \div 2) + 1]

Rule(frequency, dom, start, end, amount) ==
    [frequency |-> frequency, dom |-> dom, start |-> start, end |-> end,
     amount |-> amount]

\* The rules an editor may save: monthly ones whose due day and start date
\* move, a weekly one that ends, and one with two days a month.
SomeRules ==
    {Rule("monthly", 1, 1, None, 1), Rule("monthly", 3, 2, None, 1),
     Rule("monthly", 3, 4, None, 2), Rule("weekly", 1, 2, 4, 1),
     Rule("semimonthly", 1, 1, None, 2)}

OneRule == {Rule("monthly", 1, 1, None, 1)}

Symmetry == Permutations(Editors)
=============================================================================
