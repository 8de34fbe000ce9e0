--------------------------- MODULE MCScheduleCache ---------------------------
(* A week of two days, two readers, one writer.                             *)
EXTENDS ScheduleCache, TLC

CONSTANTS r1, r2, w1

Symmetry == Permutations(Readers)

\* Bound: values are not followed longer than the properties need.
Recent == \A v \in Values : obsolete[v] <= WeekBound
=============================================================================
