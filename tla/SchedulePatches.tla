--------------------------- MODULE SchedulePatches ---------------------------
(***************************************************************************)
(* What requests may store in the schedule of a class, and what a PATCH    *)
(* body makes of a row (app/schemas/schedule.py, app/services/schedule.py).*)
(***************************************************************************)
EXTENDS ScheduleRows

CONSTANTS
    Ids,        \* identities of rows, those that will be generated included
    Creates,    \* the rows a create may ask for
    Patches,    \* the sets of columns an update may set, as records
    Keep        \* the value of a column that the PATCH body leaves out

\* What ScheduleEntryUpdate and ScheduleOverrideUpdate may set.
Changes ==
    [number : Numbers \cup {Keep}, type : OverrideTypes \cup {Keep},
     subject : Subjects \cup {None, Keep}, start : Times \cup {None, Keep},
     end : Times \cup {None, Keep}, room : Rooms \cup {None, Keep}]

ASSUME CreatesAssumption == Creates \subseteq {r \in Rows : Valid(r)}
ASSUME PatchesAssumption == Patches \subseteq Changes
ASSUME KeepAssumption ==
    /\ Keep \notin Numbers /\ Keep \notin OverrideTypes /\ Keep \notin Subjects
    /\ Keep \notin Times /\ Keep \notin Rooms /\ Keep # None

Sent(value, old) == IF value = Keep THEN old ELSE value

\* The columns an UPDATE sets are the fields of the PATCH body.
Merge(row, c) ==
    [number |-> Sent(c.number, row.number), type |-> Sent(c.type, row.type),
     subject |-> Sent(c.subject, row.subject), start |-> Sent(c.start, row.start),
     end |-> Sent(c.end, row.end), room |-> Sent(c.room, row.room)]

\* An entry has no type to set, and no column that may become NULL.
Fits(c, row) ==
    IF IsEntry(row)
    THEN c.type = Keep /\ None \notin {c.subject, c.start, c.end}
    ELSE TRUE
=============================================================================
