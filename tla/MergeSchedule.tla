---------------------------- MODULE MergeSchedule ----------------------------
(***************************************************************************)
(* merge_schedule (app/services/schedule.py): the loop over the overrides  *)
(* of a date, which turns the lessons of the weekday into those of the     *)
(* date.  One step is one round; the overrides come in any order.          *)
(***************************************************************************)
EXTENDS ScheduleRows

VARIABLES
    entries,    \* base_entries
    overrides,  \* overrides
    todo,       \* the overrides the loop has not reached
    lessons     \* lessons: a function from lesson numbers

vars == <<entries, overrides, todo, lessons>>

\* The tables that the unique constraint allows: at most one row per number.
Tables(rows) ==
    {{r \in {f[n] : n \in Numbers} : r # None} :
        f \in {g \in [Numbers -> rows \cup {None}] :
                \A n \in Numbers : g[n] # None => g[n].number = n}}

Normal(e) ==
    [subject |-> e.subject, start |-> e.start, end |-> e.end, room |-> e.room,
     status |-> "normal"]

TypeOK ==
    /\ entries \subseteq {r \in Columns({"normal"}) : ValidEntry(r)}
    /\ overrides \subseteq {r \in Columns(OverrideTypes) : ValidOverride(r)}
    /\ todo \subseteq overrides
    /\ DOMAIN lessons \subseteq Numbers
    /\ \A n \in DOMAIN lessons : lessons[n] \in Lessons

Init ==
    /\ entries \in Tables({r \in Columns({"normal"}) : ValidEntry(r)})
    /\ overrides \in Tables({r \in Columns(OverrideTypes) : ValidOverride(r)})
    /\ todo = overrides
    /\ lessons = [n \in {e.number : e \in entries} |->
                    Normal(CHOOSE e \in entries : e.number = n)]

\* Mutation of Inherited: the value of the entry comes first.
EntryFirst(value, column, n) ==
    IF n \in DOMAIN lessons /\ column # "start" THEN lessons[n][column] ELSE value

\* `value or base.column`, with no base None.
Inherited(value, column, n) ==
    IF value # None THEN value
    ELSE IF n \in DOMAIN lessons THEN lessons[n][column] ELSE None

Cancelled(lesson) ==
    [subject |-> lesson.subject, start |-> lesson.start, end |-> lesson.end,
     room |-> lesson.room, status |-> "cancelled"]

\* A cancelled lesson stays, with its status; with no lesson it is skipped.
Cancel(o) ==
    /\ o.type = "cancelled"
    /\ todo' = todo \ {o}
    /\ lessons' = [n \in DOMAIN lessons |->
                     IF n = o.number THEN Cancelled(lessons[n]) ELSE lessons[n]]
    /\ UNCHANGED <<entries, overrides>>

Changed(o) ==
    [subject |-> o.subject,
     start |-> Inherited(o.start, "start", o.number),
     end |-> Inherited(o.end, "end", o.number),
     room |-> Inherited(o.room, "room", o.number),
     status |-> o.type]

\* Mutation of Replace: the loop never adds a lesson.
ReplaceExisting(o) ==
    /\ o.type # "cancelled"
    /\ todo' = todo \ {o}
    /\ lessons' = [n \in DOMAIN lessons |-> IF n = o.number THEN Changed(o) ELSE lessons[n]]
    /\ UNCHANGED <<entries, overrides>>

\* An added or replaced lesson.
Replace(o) ==
    /\ o.type # "cancelled"
    /\ todo' = todo \ {o}
    /\ lessons' = [n \in DOMAIN lessons \cup {o.number} |->
                     IF n = o.number THEN Changed(o) ELSE lessons[n]]
    /\ UNCHANGED <<entries, overrides>>

Next == \E o \in todo : Cancel(o) \/ Replace(o)

Spec == Init /\ [][Next]_vars

-----------------------------------------------------------------------------
\* The loop computes the day as it is defined, whatever the order in which
\* the overrides come: merge_schedule, with its docstring "keeping cancelled
\* lessons visible".
MergedAsDefined == todo = {} => lessons = DayOf(entries, overrides)

\* Lessons never get a half or inverted time from two different rows:
\* the inheritance of start_time and end_time, one by one.
LessonsTimely == \A n \in DOMAIN lessons : Timely(lessons[n])
=============================================================================
