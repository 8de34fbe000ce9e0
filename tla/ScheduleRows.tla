----------------------------- MODULE ScheduleRows -----------------------------
(***************************************************************************)
(* The rows of the schedule of one class (app/db/models/schedule.py) on    *)
(* one date and its weekday: the weekly entries, and the overrides of the  *)
(* date.  A row of either table is a record; its type tells the table.     *)
(* The lesson number is its slot.                                          *)
(***************************************************************************)
EXTENDS Naturals

CONSTANTS
    Numbers,    \* lesson numbers
    Subjects,   \* subjects of the class
    Times,      \* times of the day, compared by <
    Rooms,      \* rooms
    None        \* a column that is NULL, and a row that is not there

ASSUME TimesAssumption == Times \subseteq Nat
OverrideTypes == {"cancelled", "added", "replaced"}

Columns(types) ==
    [number : Numbers, type : types, subject : Subjects \cup {None},
     start : Times \cup {None}, end : Times \cup {None}, room : Rooms \cup {None}]

Rows == Columns({"normal"} \cup OverrideTypes)

ASSUME NoneAssumption == None \notin Subjects \cup Times \cup Rooms \cup Rows

IsEntry(row) == row.type = "normal"

\* _validate_times, and the database constraints on the order of times.
Ordered(row) == row.start # None /\ row.end # None => row.start < row.end

\* Entries have all their columns: the schemas and NOT NULL see to that.
ValidEntry(row) ==
    row.subject # None /\ row.start # None /\ row.end # None /\ Ordered(row)

\* Mutation of ValidOverride: an override may name one of its two times.
ValidHalfTimes(row) ==
    /\ row.type \in {"added", "replaced"} => row.subject # None
    /\ Ordered(row)

\* _validate_override
ValidOverride(row) ==
    /\ row.type \in {"added", "replaced"} => row.subject # None
    /\ row.start = None <=> row.end = None
    /\ Ordered(row)

Valid(row) == IF IsEntry(row) THEN ValidEntry(row) ELSE ValidOverride(row)

\* uq_schedule_class_slot and uq_override_class_slot
SameSlot(a, b) == a.number = b.number /\ (IsEntry(a) <=> IsEntry(b))

-----------------------------------------------------------------------------
(* What a client sees of a date: at most one lesson per number.             *)

Statuses == {"normal"} \cup OverrideTypes

Lessons ==
    [subject : Subjects \cup {None}, start : Times \cup {None},
     end : Times \cup {None}, room : Rooms \cup {None}, status : Statuses]

\* The lessons of the date: those of the weekday, cancelled or not, and those
\* an override adds.
Shown(entries, overrides) ==
    {e.number : e \in entries}
        \cup {o.number : o \in {x \in overrides : x.type # "cancelled"}}

At(rows, n) == {r \in rows : r.number = n}

\* The override that changes what lesson n consists of.
Changing(overrides, n) == {o \in At(overrides, n) : o.type # "cancelled"}

\* The first value that is given, from the override and then from the entry.
Given(sources, inherited) ==
    IF \E v \in sources : v # None THEN CHOOSE v \in sources : v # None
    ELSE IF inherited = {} THEN None ELSE CHOOSE v \in inherited : TRUE

\* The lesson that entries `base` and overrides `over` of one number make.
LessonOf(base, over, types) ==
    [subject |-> CHOOSE s \in {r.subject : r \in IF over = {} THEN base ELSE over} : TRUE,
     start |-> Given({o.start : o \in over}, {e.start : e \in base}),
     end |-> Given({o.end : o \in over}, {e.end : e \in base}),
     room |-> Given({o.room : o \in over}, {e.room : e \in base}),
     status |-> IF types = {} THEN "normal" ELSE CHOOSE t \in types : TRUE]

DayOf(entries, overrides) ==
    [n \in Shown(entries, overrides) |->
        LessonOf(At(entries, n), Changing(overrides, n), {o.type : o \in At(overrides, n)})]

\* A lesson that can be put in a timetable: both times or none, in order.
Timely(lesson) == (lesson.start = None <=> lesson.end = None) /\ Ordered(lesson)
=============================================================================
