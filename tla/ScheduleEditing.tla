--------------------------- MODULE ScheduleEditing ---------------------------
(***************************************************************************)
(* Concurrent requests of ScheduleService (app/services/schedule.py) on    *)
(* the entries and overrides of one class: create, update, delete.         *)
(*                                                                         *)
(* A request is one READ COMMITTED transaction.  It reads its row and the  *)
(* slot it wants without a lock; then an UPDATE or DELETE locks the row,   *)
(* and what is written goes into the unique index, where it waits for the  *)
(* open transactions that have put a row into the slot or taken one out.   *)
(***************************************************************************)
EXTENDS SchedulePatches, FiniteSets

CONSTANT Requests   \* the requests that may reach the service, one transaction each

ASSUME RequestsAssumption == IsFiniteSet(Requests)

VARIABLES
    rows,       \* rows[i]: the committed row i, None while there is none
    pc,         \* pc[q]: where request q stands
    target,     \* target[q]: the id of the row q creates or has chosen
    seen,       \* seen[q]: the row q has read
    change,     \* change[q]: what q sets
    draft,      \* draft[q]: the version q writes, not committed
    stale       \* history: the rows updated on the strength of an older version

requestVars == <<pc, target, seen, change, draft>>
vars == <<rows, requestVars, stale>>

Steps == {"new", "creating", "inserted", "reading", "updating", "locked", "updated",
          "deleting", "deleted", "done"}

TypeOK ==
    /\ rows \in [Ids -> Rows \cup {None}]
    /\ pc \in [Requests -> Steps]
    /\ target \in [Requests -> Ids \cup {None}]
    /\ seen \in [Requests -> Rows \cup {None}]
    /\ change \in [Requests -> Changes \cup {None}]
    /\ draft \in [Requests -> Rows \cup {None}]
    /\ stale \in SUBSET Ids

There(i) == rows[i] # None

\* Some valid rows are there, in different slots.
Init ==
    /\ rows \in [Ids -> Creates \cup {None}]
    /\ \A i, j \in Ids : There(i) /\ There(j) /\ SameSlot(rows[i], rows[j]) => i = j
    /\ pc = [q \in Requests |-> "new"]
    /\ target = [q \in Requests |-> None]
    /\ seen = [q \in Requests |-> None]
    /\ change = [q \in Requests |-> None]
    /\ draft = [q \in Requests |-> None]
    /\ stale = {}

Advance(q, step) == pc' = [pc EXCEPT ![q] = step]

\* The transaction of q ends; target stays, as ids are not used again.
End(q) ==
    /\ Advance(q, "done")
    /\ seen' = [seen EXCEPT ![q] = None]
    /\ change' = [change EXCEPT ![q] = None]
    /\ draft' = [draft EXCEPT ![q] = None]
    /\ UNCHANGED target

\* Access, the named row, the subject or the times are refused.
Reject(q) ==
    /\ pc[q] = "new"
    /\ End(q)
    /\ UNCHANGED <<rows, stale>>

\* An error, a cancellation or a crash before the commit.
Rollback(q) ==
    /\ pc[q] \notin {"new", "done"}
    /\ End(q)
    /\ UNCHANGED <<rows, stale>>

-----------------------------------------------------------------------------
(* Slots and locks.                                                         *)

\* get_slot, get_override_slot: a committed row other than i in the slot.
Taken(i, row) == \E j \in Ids \ {i} : There(j) /\ SameSlot(rows[j], row)

\* An UPDATE or DELETE that found its row locks it until the end.
Holds(p, i) == pc[p] \in {"locked", "updated", "deleted"} /\ target[p] = i /\ There(i)

\* Who has put a row into the slot of `row`, or is taking one out.
Claimants(q, row) ==
    {p \in Requests \ {q} :
        \/ pc[p] \in {"inserted", "updated"} /\ SameSlot(draft[p], row)
        \/ \E i \in Ids : Holds(p, i) /\ SameSlot(rows[i], row)}

\* Mutation of Claimed: the index shows committed rows only.
CommittedOnly(q) == q \notin Requests

Claimed(q) == Claimants(q, draft[q]) # {}

Holders(q) == {p \in Requests \ {q} : Holds(p, target[q])}

\* What q puts into the unique index: it waits, fails or finds the slot free.
InIndex(q) == pc[q] \in {"creating", "locked"}
SlotFree(q) == ~ Claimed(q) /\ ~ Taken(target[q], draft[q])
SlotLost(q) == ~ Claimed(q) /\ Taken(target[q], draft[q])

\* IntegrityError on the slot constraint: ScheduleConflictError.
SlotConflict(q) ==
    /\ InIndex(q)
    /\ SlotLost(q)
    /\ End(q)
    /\ UNCHANGED <<rows, stale>>

-----------------------------------------------------------------------------
(* create_entry, create_override                                            *)

Unused(i) == ~ There(i) /\ \A p \in Requests : target[p] # i

\* The row is validated and the slot is looked at.
StartCreate(q) ==
    /\ pc[q] = "new"
    /\ \E i \in Ids, row \in Creates :
         /\ Unused(i)
         /\ ~ Taken(i, row)
         /\ target' = [target EXCEPT ![q] = i]
         /\ draft' = [draft EXCEPT ![q] = row]
    /\ Advance(q, "creating")
    /\ UNCHANGED <<rows, seen, change, stale>>

Insert(q) ==
    /\ pc[q] = "creating"
    /\ SlotFree(q)
    /\ Advance(q, "inserted")
    /\ UNCHANGED <<rows, target, seen, change, draft, stale>>

-----------------------------------------------------------------------------
(* update_entry, update_override                                            *)

\* Mutation of ReadForUpdate: only what the body holds is validated.
ReadForUpdateUnmerged(q) ==
    /\ pc[q] = "new"
    /\ \E i \in Ids, c \in Patches :
         /\ There(i)
         /\ Fits(c, rows[i])
         /\ {c.start, c.end} \cap {None, Keep} = {} => c.start < c.end
         /\ target' = [target EXCEPT ![q] = i]
         /\ change' = [change EXCEPT ![q] = c]
         /\ seen' = [seen EXCEPT ![q] = rows[i]]
    /\ Advance(q, "reading")
    /\ UNCHANGED <<rows, draft, stale>>

\* _get_entry or _get_override, and the validation of the merged columns.
ReadForUpdate(q) ==
    /\ pc[q] = "new"
    /\ \E i \in Ids, c \in Patches :
         /\ There(i)
         /\ Fits(c, rows[i])
         /\ Valid(Merge(rows[i], c))
         /\ target' = [target EXCEPT ![q] = i]
         /\ change' = [change EXCEPT ![q] = c]
         /\ seen' = [seen EXCEPT ![q] = rows[i]]
    /\ Advance(q, "reading")
    /\ UNCHANGED <<rows, draft, stale>>

\* The slot of the merged columns is looked at.
CheckSlot(q) ==
    /\ pc[q] = "reading"
    /\ IF Taken(target[q], Merge(seen[q], change[q]))
       THEN End(q)
       ELSE Advance(q, "updating") /\ UNCHANGED <<target, seen, change, draft>>
    /\ UNCHANGED <<rows, stale>>

\* Mutation of Accepts: the database has no constraint on times.
AcceptsAll(row) == row # None

\* ck_schedule_time_order, ck_override_time_order
Accepts(row) == Ordered(row)

\* Mutation of Updated: all columns are written as the request has read them.
UpdatedAsSeen(q) == Merge(seen[q], change[q])

\* The version that the UPDATE of q writes: its columns set on what it finds.
Updated(q) == Merge(rows[target[q]], change[q])

\* Nobody else has the row of q locked.
RowFree(q) == Holders(q) = {}

\* The row is there, and takes the new version.
RowUpdates(q) == RowFree(q) /\ There(target[q]) /\ Accepts(Updated(q))

\* Mutation of RowRefuses: an UPDATE that finds no row is tried again.
RefusesTimes(q) == RowFree(q) /\ There(target[q]) /\ ~ Accepts(Updated(q))

\* The row has gone (RuntimeError), or its times are refused by the database.
RowRefuses(q) == RowFree(q) /\ (There(target[q]) => ~ Accepts(Updated(q)))

\* The UPDATE waits for the row, and locks it.
LockRow(q) ==
    /\ pc[q] = "updating"
    /\ RowUpdates(q)
    /\ draft' = [draft EXCEPT ![q] = Updated(q)]
    /\ Advance(q, "locked")
    /\ UNCHANGED <<rows, target, seen, change, stale>>

UpdateFails(q) ==
    /\ pc[q] = "updating"
    /\ RowRefuses(q)
    /\ End(q)
    /\ UNCHANGED <<rows, stale>>

UpdateRow(q) ==
    /\ pc[q] = "locked"
    /\ SlotFree(q)
    /\ Advance(q, "updated")
    /\ UNCHANGED <<rows, target, seen, change, draft, stale>>

-----------------------------------------------------------------------------
(* delete_entry, delete_override                                            *)

ReadForDelete(q) ==
    /\ pc[q] = "new"
    /\ \E i \in Ids : There(i) /\ target' = [target EXCEPT ![q] = i]
    /\ Advance(q, "deleting")
    /\ UNCHANGED <<rows, seen, change, draft, stale>>

\* The DELETE waits for the row; it may have gone, and nobody looks.
DeleteRow(q) ==
    /\ pc[q] = "deleting"
    /\ RowFree(q)
    /\ Advance(q, "deleted")
    /\ UNCHANGED <<rows, target, seen, change, draft, stale>>

-----------------------------------------------------------------------------
\* The COMMIT.  An update of a row that is no longer what was read is noted.
Commit(q) ==
    /\ pc[q] \in {"inserted", "updated", "deleted"}
    /\ rows' = [rows EXCEPT ![target[q]] = draft[q]]
    /\ stale' = IF pc[q] = "updated" /\ rows[target[q]] # seen[q]
                THEN stale \cup {target[q]} ELSE stale
    /\ End(q)

\* For whom q waits in the database.
WaitsFor(q) ==
    IF InIndex(q) THEN Claimants(q, draft[q])
    ELSE IF pc[q] \in {"updating", "deleting"} THEN Holders(q)
    ELSE {}

\* Everybody in S waits for somebody in S, and is waited for by somebody in S.
Circle(S) == \A p \in S : WaitsFor(p) \cap S # {} /\ \E r \in S : p \in WaitsFor(r)
InCircle(q) == \E S \in SUBSET Requests : q \in S /\ Circle(S)

\* PostgreSQL ends one transaction of a circle of waits.
DeadlockVictim(q) ==
    /\ InCircle(q)
    /\ End(q)
    /\ UNCHANGED <<rows, stale>>

Next ==
    \E q \in Requests :
        \/ Reject(q) \/ Rollback(q)
        \/ StartCreate(q) \/ Insert(q)
        \/ ReadForUpdate(q) \/ CheckSlot(q) \/ LockRow(q) \/ UpdateFails(q) \/ UpdateRow(q)
        \/ ReadForDelete(q) \/ DeleteRow(q)
        \/ SlotConflict(q) \/ Commit(q) \/ DeadlockVictim(q)

Spec == Init /\ [][Next]_vars

UnderWay(q) == pc[q] \notin {"new", "done"}

\* The statement of q returns, and q takes its next step: the guards of CheckSlot,
\* Commit, Insert, UpdateRow, SlotConflict, LockRow, UpdateFails and DeleteRow.
Answered(q) ==
    \/ pc[q] \in {"reading", "inserted", "updated", "deleted"}
    \/ InIndex(q) /\ (SlotFree(q) \/ SlotLost(q))
    \/ pc[q] = "updating" /\ (RowUpdates(q) \/ RowRefuses(q))
    \/ pc[q] = "deleting" /\ RowFree(q)

-----------------------------------------------------------------------------
\* At most one committed row per slot, although every request looks at its
\* slot without a lock: uq_schedule_class_slot, uq_override_class_slot.
SlotsUnique ==
    \A i, j \in Ids : There(i) /\ There(j) /\ SameSlot(rows[i], rows[j]) => i = j

\* No lesson ends before it starts, although two updates may each set one of
\* the times and validate it against the other's old value.
TimesOrdered == \A i \in Ids : There(i) => Ordered(rows[i])

\* A row is valid as the service defines it, unless it is an override that was
\* updated by a request that had read an older version of it.
ValidUnlessStale ==
    \A i \in Ids : There(i) /\ (i \in stale => IsEntry(rows[i])) => Valid(rows[i])

\* As long as no update was stale, the merged day has no half or inverted times.
DayTimely ==
    stale = {} =>
        LET table == {rows[i] : i \in {j \in Ids : There(j)}}
            day == DayOf({r \in table : IsEntry(r)}, {r \in table : ~ IsEntry(r)})
        IN \A n \in DOMAIN day : Timely(day[n])

\* What _validate_override refuses is never stored.
OverridesValid == \A i \in Ids : There(i) /\ ~ IsEntry(rows[i]) => ValidOverride(rows[i])

\* Waits for rows and slots end: while a request is under way, some request
\* can go on, or PostgreSQL finds a circle of waits and breaks it.  Four
\* requests can make one, when two rows move into the slots that were free.
NobodyStuck ==
    (\E q \in Requests : UnderWay(q)) => \E q \in Requests : Answered(q) \/ InCircle(q)

\* What q asks for, from its first read to its end.
Order(q) ==
    CASE pc[q] \in {"creating", "inserted"} ->
            {[what |-> "add", id |-> target[q], body |-> draft[q]]}
      [] pc[q] \in {"reading", "updating", "locked", "updated"} ->
            {[what |-> "change", id |-> target[q], body |-> change[q]]}
      [] pc[q] \in {"deleting", "deleted"} ->
            {[what |-> "remove", id |-> target[q], body |-> None]}
      [] OTHER -> {}

Asked == [q \in Requests |-> Order(q)]

\* However requests overlap, each takes effect at its commit as it was asked
\* for, or not at all: no update is lost or undone by one that had read the row
\* before it, none revives a deleted row, no entry turns into an override.
Promise == INSTANCE Timetable WITH asked <- Asked
TimetableSpec == Promise!Spec
=============================================================================
