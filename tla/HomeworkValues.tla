---------------------------- MODULE HomeworkValues ----------------------------
(***************************************************************************)
(* The row of a homework, its revisions, and what a PATCH body makes of it *)
(* (app/db/models/homework.py, app/schemas/homework.py).                   *)
(***************************************************************************)
EXTENDS Naturals

CONSTANTS
    Texts,      \* homework texts
    Dates,      \* dates, compared by <=
    Unset       \* the value of a field the PATCH body leaves out

ASSUME DatesAssumption == Dates \subseteq Nat

Values == [text : Texts, assigned : Dates, due : Dates]

\* HomeworkUpdate: a non-empty set of fields.
Changes ==
    [text : Texts \cup {Unset}, assigned : Dates \cup {Unset}, due : Dates \cup {Unset}]
        \ {[text |-> Unset, assigned |-> Unset, due |-> Unset]}

Revisions == [old : Texts, new : Texts, at : Nat]

ASSUME UnsetAssumption ==
    Unset \notin Texts /\ Unset \notin Dates /\ Unset \notin Revisions

\* _validate_dates, and ck_homework_date_order in the database.
DatesInOrder(row) == row.assigned <= row.due

Sent(value, old) == IF value = Unset THEN old ELSE value

\* The columns an UPDATE sets are the fields of the PATCH body.
Merge(row, c) ==
    [text |-> Sent(c.text, row.text),
     assigned |-> Sent(c.assigned, row.assigned),
     due |-> Sent(c.due, row.due)]
=============================================================================
