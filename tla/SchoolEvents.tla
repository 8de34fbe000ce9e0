---------------------------- MODULE SchoolEvents ----------------------------
(***************************************************************************)
(* The life of one school event of a class under concurrent requests of    *)
(* SchoolEventService (app/services/events.py), each let through by the    *)
(* role of its actor, and the days it is listed on (list_for_day in        *)
(* app/repositories/school_event.py).                                      *)
(***************************************************************************)
EXTENDS ClassMembers, Integers

CONSTANTS
    DayLength,  \* moments in a day; day d begins at d * DayLength
    Days        \* days a client may ask for

ASSUME DaysAssumption == Days \subseteq Nat /\ DayLength \in Nat \ {0}

VARIABLES
    life,       \* whether the row is committed: "unborn", "live" or "gone"
    event,      \* the dates of the committed row while there is one
    seen,       \* seen[q]: the dates q has read
    change,     \* change[q]: what q sets
    announced,  \* the dates in the last event on the school event, None if it tells a deletion
    behind      \* history: whether the last update was of a newer row than it had read

eventVars == <<life, event, seen, change, announced, behind>>

EventsInit ==
    /\ life = "unborn"
    /\ event = None
    /\ seen = [q \in Requests |-> None]
    /\ change = [q \in Requests |-> None]
    /\ announced = None
    /\ behind = FALSE

Live == life = "live"

EndEvent(q) ==
    /\ End(q)
    /\ seen' = [seen EXCEPT ![q] = None]
    /\ change' = [change EXCEPT ![q] = None]
    /\ UNCHANGED <<members, known, hollow>>

-----------------------------------------------------------------------------
(* create                                                                   *)

CreateEvent(q) ==
    /\ pc[q] = "allowed"
    /\ life = "unborn"
    /\ life' = "live"
    /\ \E span \in Spans :
         /\ InOrder(span)
         /\ event' = span
         /\ announced' = span
    /\ EndEvent(q)
    /\ UNCHANGED behind

-----------------------------------------------------------------------------
(* update                                                                   *)

\* Mutation of Permits: only what the body holds is validated.
PermitsBody(span, c) ==
    c.starts # Keep /\ c.ends \notin {None, Keep} => c.starts <= c.ends

\* _validate_dates of the dates as they would be.
Permits(span, c) == InOrder(Merge(span, c))

\* Mutation of CommitUpdate: the event is recorded before the UPDATE.
CommitUpdateEarly(q) ==
    /\ pc[q] = "edited"
    /\ event' = Merge(event, change[q])
    /\ announced' = seen[q]
    /\ behind' = (seen[q] # event)
    /\ EndEvent(q)
    /\ UNCHANGED life

\* Mutation of CommitUpdate: the UPDATE writes every column as it was read.
CommitUpdateWhole(q) ==
    /\ pc[q] = "edited"
    /\ event' = Merge(seen[q], change[q])
    /\ announced' = event'
    /\ behind' = FALSE
    /\ EndEvent(q)
    /\ UNCHANGED life

\* Mutation of ReadForUpdate: the handler does not ask for the role first.
ReadForUpdateUnchecked(q) ==
    /\ pc[q] \in {"new", "allowed"}
    /\ Live
    /\ \E c \in Changes :
         /\ Permits(event, c)
         /\ change' = [change EXCEPT ![q] = c]
    /\ seen' = [seen EXCEPT ![q] = event]
    /\ Advance(q, "editing")
    /\ UNCHANGED <<memberVars, actor, life, event, announced, behind>>

\* _get_for_class, without a lock.
ReadForUpdate(q) ==
    /\ pc[q] = "allowed"
    /\ Live
    /\ \E c \in Changes :
         /\ Permits(event, c)
         /\ change' = [change EXCEPT ![q] = c]
    /\ seen' = [seen EXCEPT ![q] = event]
    /\ Advance(q, "editing")
    /\ UNCHANGED <<memberVars, actor, life, event, announced, behind>>

EventLocked(q) == \E r \in Requests \ {q} : pc[r] \in {"edited", "erased"} /\ Live

\* Mutation of Accepts: the database has no constraint on the dates.
AcceptsAny(span, c) == span # None

\* The row is there for the UPDATE, and satisfies the constraint after.
Accepts(span, c) == Live /\ InOrder(Merge(span, c))

UpdateEvent(q) ==
    /\ pc[q] = "editing"
    /\ ~ EventLocked(q)
    /\ Accepts(event, change[q])
    /\ Advance(q, "edited")
    /\ UNCHANGED <<memberVars, actor, eventVars>>

\* The UPDATE finds no row (RuntimeError) or breaks the constraint.
UpdateRefused(q) ==
    /\ pc[q] = "editing"
    /\ ~ EventLocked(q)
    /\ ~ Accepts(event, change[q])
    /\ EndEvent(q)
    /\ UNCHANGED <<life, event, announced, behind>>

\* The UPDATE sets its columns on what it finds.  The entity keeps the other
\* columns as they were read, as RETURNING does not reload what the session
\* has loaded; the payload of the event is taken from the entity.
CommitUpdate(q) ==
    /\ pc[q] = "edited"
    /\ event' = Merge(event, change[q])
    /\ announced' = Merge(seen[q], change[q])
    /\ behind' = (seen[q] # event)
    /\ EndEvent(q)
    /\ UNCHANGED life

-----------------------------------------------------------------------------
(* delete                                                                   *)

\* An administrator deletes; the row is read without a lock.
ReadForDelete(q) ==
    /\ pc[q] = "new"
    /\ Live
    /\ Advance(q, "erasing")
    /\ UNCHANGED <<memberVars, actor, eventVars>>

\* The DELETE waits for the row; it may have gone, and nobody looks.
DeleteEvent(q) ==
    /\ pc[q] = "erasing"
    /\ ~ EventLocked(q)
    /\ Advance(q, "erased")
    /\ UNCHANGED <<memberVars, actor, eventVars>>

CommitDelete(q) ==
    /\ pc[q] = "erased"
    /\ life' = "gone"
    /\ event' = None
    /\ announced' = None
    /\ behind' = FALSE
    /\ EndEvent(q)

EventStep(q) ==
    \/ CreateEvent(q)
    \/ ReadForUpdate(q) \/ UpdateEvent(q) \/ UpdateRefused(q) \/ CommitUpdate(q)
    \/ ReadForDelete(q) \/ DeleteEvent(q) \/ CommitDelete(q)

-----------------------------------------------------------------------------
(* list_for_day                                                             *)

\* Mutation of Listed: the end counts as a moment of the event.
ListedWithEnd(span, d) ==
    /\ span.starts < (d + 1) * DayLength
    /\ IF span.ends = None THEN span.starts >= d * DayLength ELSE span.ends >= d * DayLength

\* The WHERE clause, with day_start and day_end of day d.
Listed(span, d) ==
    /\ span.starts < (d + 1) * DayLength
    /\ IF span.ends = None THEN span.starts >= d * DayLength ELSE span.ends > d * DayLength

\* The moments an event takes: a moment, or from its start up to its end.
Moments(span) ==
    IF span.ends \in {None, span.starts} THEN {span.starts} ELSE span.starts .. (span.ends - 1)

OnDay(span, d) == \E t \in Moments(span) : d * DayLength <= t /\ t < (d + 1) * DayLength

\* An event that starts and ends at the midnight before day d.
AtMidnight(span, d) == span.starts = d * DayLength /\ span.ends = span.starts

-----------------------------------------------------------------------------
(***************************************************************************)
(* A school event never ends before it starts.  Two partial updates may    *)
(* each be valid for the row they read and invalid together; then          *)
(* ck_school_event_date_order refuses the second.                          *)
(***************************************************************************)
EventInOrder == Live => InOrder(event)

(***************************************************************************)
(* What is announced of a school event is valid even when it mixes two     *)
(* versions of the row: the dates in the payload are those that            *)
(* _validate_dates has seen.                                               *)
(***************************************************************************)
AnnouncedInOrder == announced # None => InOrder(announced)

(***************************************************************************)
(* The last event on a school event tells its dates, unless the update it  *)
(* announces had read an older row; and a deletion is the last word.       *)
(***************************************************************************)
AnnouncedIsStored ==
    /\ Live /\ ~ behind => announced = event
    /\ announced # None <=> Live

(***************************************************************************)
(* A school event is listed on the days it has a moment in, and on no      *)
(* other, except that one which starts and ends at midnight is listed on   *)
(* no day: the condition of list_for_day.                                  *)
(***************************************************************************)
ListedOnItsDays ==
    Live => \A d \in Days : Listed(event, d) <=> OnDay(event, d) /\ ~ AtMidnight(event, d)
==============================================================================
