----------------------------- MODULE ClassValues -----------------------------
(***************************************************************************)
(* What the rows of a class hold: its memberships and the dates of its     *)
(* school events, and what a PATCH body makes of dates                     *)
(* (app/db/models/school_class.py, app/services/events.py).                *)
(***************************************************************************)
EXTENDS Naturals

CONSTANTS
    People,     \* people, by their telegram_id
    Admin,      \* an administrator, who needs no role in the class
    Times,      \* moments, compared by <
    None,       \* a row, a person or a value that is not there
    Keep        \* the value of a field that the PATCH body leaves out

Roles == {"student", "editor"}
Memberships == [person : People, role : Roles]

Spans == [starts : Times, ends : Times \cup {None}]

\* SchoolEventUpdate: the dates in the body; it may hold other fields only.
Changes == [starts : Times \cup {Keep}, ends : Times \cup {None, Keep}]

ASSUME TimesAssumption == Times \subseteq Nat
ASSUME NoneAssumption ==
    None \notin Memberships \cup People \cup Roles \cup Times \cup Spans \cup Changes
ASSUME AdminAssumption == Admin \notin People \cup {None}
ASSUME KeepAssumption == Keep \notin Times \cup {None}

\* _validate_dates, and ck_school_event_date_order in the database.
InOrder(span) == span.ends # None => span.starts <= span.ends

Sent(value, old) == IF value = Keep THEN old ELSE value

\* The columns an UPDATE sets are the fields of the PATCH body.
Merge(span, c) ==
    [starts |-> Sent(c.starts, span.starts), ends |-> Sent(c.ends, span.ends)]
=============================================================================
