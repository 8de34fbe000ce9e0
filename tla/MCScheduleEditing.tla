-------------------------- MODULE MCScheduleEditing --------------------------
(* Small instances of ScheduleEditing.                                      *)
EXTENDS ScheduleEditing, TLC

CONSTANTS q1, q2, q3, q4, i1, i2, math, hall

Symmetry == Permutations(Requests) \cup Permutations(Ids)

Row(number, type, subject, start, end) ==
    [number |-> number, type |-> type, subject |-> subject, start |-> start,
     end |-> end, room |-> None]

Nothing ==
    [number |-> Keep, type |-> Keep, subject |-> Keep, start |-> Keep,
     end |-> Keep, room |-> Keep]

\* Requests that compete for slots, all of them in the hall: into any slot, and
\* from there into the first two.
SlotCreates == {[Row(n, "normal", math, 1, 2) EXCEPT !.room = hall] : n \in Numbers}
SlotPatches == {[Nothing EXCEPT !.number = n] : n \in {1, 2}}

\* Requests that change what one slot holds, entry and override.
DayCreates ==
    {Row(1, "normal", math, 1, 3), Row(1, "replaced", math, None, None),
     Row(1, "cancelled", None, 1, 2)}
DayPatches ==
    {[Nothing EXCEPT !.start = 2], [Nothing EXCEPT !.end = 2],
     [Nothing EXCEPT !.start = None, !.end = None], [Nothing EXCEPT !.type = "added"],
     [Nothing EXCEPT !.subject = None], [Nothing EXCEPT !.type = "cancelled"]}

\* These, and a move to another slot.
RowPatches == DayPatches \cup {[Nothing EXCEPT !.number = 2]}

AllCreates == SlotCreates \cup DayCreates
AllPatches == SlotPatches \cup RowPatches

Stored == ({rows[i] : i \in Ids} \cup {draft[q] : q \in Requests}) \ {None}
Bodies == {change[q] : q \in Requests} \ {None}

\* Either four requests move lessons between slots, or three change one slot
\* or move out of it.
Apart ==
    \/ Bodies \subseteq SlotPatches /\ \A row \in Stored : row.room = hall
    \/ /\ Bodies \subseteq RowPatches
       /\ \A row \in Stored : row.room = None
       /\ \E q \in Requests : pc[q] = "new"
=============================================================================
