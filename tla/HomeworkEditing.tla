--------------------------- MODULE HomeworkEditing ---------------------------
(***************************************************************************)
(* The life of one homework under concurrent requests of HomeworkService   *)
(* (app/services/homework.py): create, update with its text revision,      *)
(* delete, and the completion marks of members.  Rows of different         *)
(* homeworks do not interact, so one is enough.                            *)
(*                                                                         *)
(* A request is one READ COMMITTED transaction.  It reads without a lock;  *)
(* an UPDATE locks the row, a DELETE locks it against everything, and the  *)
(* insert of a revision or a completion holds the key-share lock its       *)
(* foreign key takes, each until the end of the transaction.               *)
(***************************************************************************)
EXTENDS HomeworkValues, FiniteSets, Sequences

CONSTANTS
    Requests,   \* the requests that may reach the service, one transaction each
    Members     \* the members who mark the homework completed

VARIABLES
    life,           \* whether the row is committed: "unborn", "live" or "gone"
    homework,       \* the committed row while there is one
    original,       \* the text the homework was created with
    revisions,      \* the committed rows of homework_revisions
    completions,    \* the members with a committed homework_completions row
    events,         \* the committed domain events, in order of created_at
    pc,             \* pc[q]: where request q stands
    seen,           \* seen[q]: the row q has read, then the version it has written
    change,         \* change[q]: the fields q sets, see Changes
    draft,          \* draft[q]: the revision q has inserted, not yet committed
    member,         \* member[q]: whose completion q marks or unmarks
    inserted        \* revisions inserted so far: the rank of created_at

requestVars == <<pc, seen, change, draft, member>>
vars == <<life, homework, original, revisions, completions, events, requestVars, inserted>>

Live == life = "live"

Steps == {"new", "updating", "revised", "updated", "deleting", "deleted",
          "missed", "marking", "marked", "unmarking", "done"}

TypeOK ==
    /\ life \in {"unborn", "live", "gone"}
    /\ homework \in Values \cup {Unset}
    /\ Live => homework \in Values
    /\ original \in Texts \cup {Unset}
    /\ revisions \in SUBSET Revisions
    /\ completions \in SUBSET Members
    /\ events \in Seq({"created", "updated", "deleted"})
    /\ pc \in [Requests -> Steps]
    /\ seen \in [Requests -> Values \cup {Unset}]
    /\ change \in [Requests -> Changes \cup {Unset}]
    /\ draft \in [Requests -> Revisions \cup {Unset}]
    /\ member \in [Requests -> Members \cup {Unset}]
    /\ inserted \in Nat

Init ==
    /\ life = "unborn"
    /\ homework = Unset
    /\ original = Unset
    /\ revisions = {}
    /\ completions = {}
    /\ events = <<>>
    /\ pc = [q \in Requests |-> "new"]
    /\ seen = [q \in Requests |-> Unset]
    /\ change = [q \in Requests |-> Unset]
    /\ draft = [q \in Requests |-> Unset]
    /\ member = [q \in Requests |-> Unset]
    /\ inserted = 0

-----------------------------------------------------------------------------
(* Locks on the homework row, each held until the transaction ends.         *)

\* Mutation of WriteLocked: a writer waits for key-share locks as well.
WaitsForKeyShare(q) ==
    \E p \in Requests \ {q} : pc[p] \in {"updated", "deleted", "revised", "marked"}

\* The row lock of an UPDATE or of a DELETE that found the row.
WriteLocked(q) == \E p \in Requests \ {q} : pc[p] \in {"updated", "deleted"}

\* The DELETE also excludes the key-share locks of foreign keys.
DeleteLocked(q) == \E p \in Requests \ {q} : pc[p] = "deleted"

\* Mutation of KeyShared: child rows are inserted without a foreign key.
NoForeignKey(q) == q \notin Requests

\* The key-share lock of an inserted revision or completion.
KeyShared(q) == \E p \in Requests \ {q} : pc[p] \in {"revised", "marked"}

\* The transaction of q ends, with or without its effects.
End(q) ==
    /\ pc' = [pc EXCEPT ![q] = "done"]
    /\ seen' = [seen EXCEPT ![q] = Unset]
    /\ change' = [change EXCEPT ![q] = Unset]
    /\ draft' = [draft EXCEPT ![q] = Unset]
    /\ member' = [member EXCEPT ![q] = Unset]

Advance(q, step) == pc' = [pc EXCEPT ![q] = step]

\* The row is not there, or access, the subject or the dates are refused.
Reject(q) ==
    /\ pc[q] = "new"
    /\ End(q)
    /\ UNCHANGED <<life, homework, original, revisions, completions, events, inserted>>

\* An error, a cancellation or a crash before the commit.
Rollback(q) ==
    /\ pc[q] \notin {"new", "done"}
    /\ End(q)
    /\ UNCHANGED <<life, homework, original, revisions, completions, events, inserted>>

-----------------------------------------------------------------------------
(* create                                                                   *)

Create(q) ==
    /\ pc[q] = "new"
    /\ life = "unborn"
    /\ life' = "live"
    /\ \E row \in Values :
         /\ DatesInOrder(row)
         /\ homework' = row
         /\ original' = row.text
    /\ events' = Append(events, "created")
    /\ End(q)
    /\ UNCHANGED <<revisions, completions, inserted>>

-----------------------------------------------------------------------------
(* update                                                                   *)

\* The row is read without a lock and the dates are validated against it.
ReadForUpdate(q) ==
    /\ pc[q] = "new"
    /\ Live
    /\ \E c \in Changes :
         /\ DatesInOrder(Merge(homework, c))
         /\ change' = [change EXCEPT ![q] = c]
    /\ seen' = [seen EXCEPT ![q] = homework]
    /\ Advance(q, "updating")
    /\ UNCHANGED <<life, homework, original, revisions, completions, events, draft, member, inserted>>

\* Mutation of NeedsRevision: the new text is compared with the first one.
ComparedWithOriginal(q) ==
    change[q].text # Unset /\ change[q].text # original

NeedsRevision(q) ==
    change[q].text # Unset /\ change[q].text # seen[q].text

\* The next statement of an update: the INSERT of its revision, or the UPDATE.
Revising(q) == pc[q] = "updating" /\ NeedsRevision(q)
Writing(q) == pc[q] = "revised" \/ (pc[q] = "updating" /\ ~ NeedsRevision(q))

\* create_revision: inserted, with its created_at, before the row is locked.
InsertRevision(q) ==
    /\ Revising(q)
    /\ ~ DeleteLocked(q)
    /\ Live
    /\ draft' = [draft EXCEPT ![q] =
                    [old |-> seen[q].text, new |-> change[q].text, at |-> inserted]]
    /\ inserted' = inserted + 1
    /\ Advance(q, "revised")
    /\ UNCHANGED <<life, homework, original, revisions, completions, events, seen, change, member>>

\* Mutation of Written: all columns are written as the request has read them.
WrittenAsRead(q) == Merge(seen[q], change[q])

\* The version that the UPDATE of q writes: its columns set on what it finds.
Written(q) == Merge(homework, change[q])

\* Mutation of AcceptsUpdate: the database has no date constraint.
AcceptsAnyDates(q) == Live

\* The row is there for the UPDATE, and satisfies ck_homework_date_order after.
AcceptsUpdate(q) == Live /\ DatesInOrder(Written(q))

\* The UPDATE waits for the row, and locks it.
UpdateRow(q) ==
    /\ Writing(q)
    /\ ~ WriteLocked(q)
    /\ AcceptsUpdate(q)
    /\ seen' = [seen EXCEPT ![q] = Written(q)]
    /\ Advance(q, "updated")
    /\ UNCHANGED <<life, homework, original, revisions, completions, events, change, draft,
                   member, inserted>>

\* The foreign key finds no homework, or the UPDATE finds no row (RuntimeError)
\* or breaks the date constraint: the transaction rolls back.
Refuse(q) ==
    /\ \/ Revising(q) /\ ~ DeleteLocked(q) /\ ~ Live
       \/ Writing(q) /\ ~ WriteLocked(q) /\ ~ AcceptsUpdate(q)
       \/ pc[q] = "marking" /\ ~ DeleteLocked(q) /\ ~ Live
    /\ End(q)
    /\ UNCHANGED <<life, homework, original, revisions, completions, events, inserted>>

\* Mutation of CommitUpdate: the revision is not part of the transaction.
CommitWithoutRevision(q) ==
    /\ pc[q] = "updated"
    /\ homework' = seen[q]
    /\ events' = Append(events, "updated")
    /\ End(q)
    /\ UNCHANGED <<life, original, revisions, completions, inserted>>

\* The event is flushed by the commit, under the row lock.
CommitUpdate(q) ==
    /\ pc[q] = "updated"
    /\ homework' = seen[q]
    /\ revisions' = revisions \cup ({draft[q]} \ {Unset})
    /\ events' = Append(events, "updated")
    /\ End(q)
    /\ UNCHANGED <<life, original, completions, inserted>>

-----------------------------------------------------------------------------
(* delete                                                                   *)

\* Mutation of ReadForDelete: the event is recorded before the transaction.
ReadForDeleteRecorded(q) ==
    /\ pc[q] = "new"
    /\ Live
    /\ events' = Append(events, "deleted")
    /\ Advance(q, "deleting")
    /\ UNCHANGED <<life, homework, original, revisions, completions, seen, change,
                   draft, member, inserted>>

ReadForDelete(q) ==
    /\ pc[q] = "new"
    /\ Live
    /\ Advance(q, "deleting")
    /\ UNCHANGED <<life, homework, original, revisions, completions, events, seen, change,
                   draft, member, inserted>>

\* The DELETE waits for every lock on the row.  Nobody counts its rows, so
\* one that finds the row gone goes on all the same.
DeleteRow(q) ==
    /\ pc[q] = "deleting"
    /\ ~ WriteLocked(q)
    /\ ~ KeyShared(q)
    /\ Advance(q, IF Live THEN "deleted" ELSE "missed")
    /\ UNCHANGED <<life, homework, original, revisions, completions, events, seen, change,
                   draft, member, inserted>>

\* ON DELETE CASCADE takes the committed child rows along.
CommitDelete(q) ==
    /\ pc[q] \in {"deleted", "missed"}
    /\ life' = "gone"
    /\ homework' = Unset
    /\ revisions' = {}
    /\ completions' = {}
    /\ events' = Append(events, "deleted")
    /\ End(q)
    /\ UNCHANGED <<original, inserted>>

-----------------------------------------------------------------------------
(* mark_completed and unmark_completed                                      *)

ReadForMark(q) ==
    /\ pc[q] = "new"
    /\ Live
    /\ \E m \in Members : member' = [member EXCEPT ![q] = m]
    /\ \E step \in {"marking", "unmarking"} : Advance(q, step)
    /\ UNCHANGED <<life, homework, original, revisions, completions, events, seen, change,
                   draft, inserted>>

\* Nobody has an uncommitted completion of the same member (uq_homework_completion_user).
MarksAlone(q) == \A p \in Requests : pc[p] = "marked" => member[p] # member[q]

\* The upsert waits for another of the same member, by the unique constraint.
Upsert(q) ==
    /\ pc[q] = "marking"
    /\ ~ DeleteLocked(q)
    /\ MarksAlone(q)
    /\ Live
    /\ Advance(q, "marked")
    /\ UNCHANGED <<life, homework, original, revisions, completions, events, seen, change,
                   draft, member, inserted>>

CommitMark(q) ==
    /\ pc[q] = "marked"
    /\ completions' = completions \cup {member[q]}
    /\ End(q)
    /\ UNCHANGED <<life, homework, original, revisions, events, inserted>>

CommitUnmark(q) ==
    /\ pc[q] = "unmarking"
    /\ completions' = completions \ {member[q]}
    /\ End(q)
    /\ UNCHANGED <<life, homework, original, revisions, events, inserted>>

-----------------------------------------------------------------------------
UpdateStep(q) ==
    ReadForUpdate(q) \/ InsertRevision(q) \/ UpdateRow(q) \/ CommitUpdate(q)

DeleteStep(q) == ReadForDelete(q) \/ DeleteRow(q) \/ CommitDelete(q)

MarkStep(q) == ReadForMark(q) \/ Upsert(q) \/ CommitMark(q) \/ CommitUnmark(q)

Progress(q) ==
    Create(q) \/ UpdateStep(q) \/ DeleteStep(q) \/ MarkStep(q) \/ Refuse(q) \/ Reject(q)

\* The statement of q returns, and q takes its next step: it commits, or it has
\* the locks that the statement waits for.
Answered(q) ==
    \/ pc[q] \in {"updated", "deleted", "missed", "marked", "unmarking"}
    \/ Revising(q) /\ ~ DeleteLocked(q)
    \/ Writing(q) /\ ~ WriteLocked(q)
    \/ pc[q] = "deleting" /\ ~ WriteLocked(q) /\ ~ KeyShared(q)
    \/ pc[q] = "marking" /\ ~ DeleteLocked(q) /\ (Live => MarksAlone(q))

Finished == (\A q \in Requests : pc[q] = "done") /\ UNCHANGED vars

Next == (\E q \in Requests : Progress(q) \/ Rollback(q)) \/ Finished

Spec == Init /\ [][Next]_vars

\* A request under way takes its next statement once the locks allow it.
Fairness == \A q \in Requests : WF_vars(pc[q] # "new" /\ Progress(q))
FairSpec == Spec /\ Fairness

-----------------------------------------------------------------------------
(* Properties.                                                              *)

(***************************************************************************)
(* A homework is never due before it is assigned.  Two partial updates may *)
(* each be valid for the row they read and invalid together: what is left  *)
(* of _validate_dates then is the constraint of the table.                 *)
(***************************************************************************)
DatesKept == Live => DatesInOrder(homework)

(***************************************************************************)
(* A deleted homework leaves no revision and no completion behind, even    *)
(* when their inserts race its DELETE: the foreign keys make one wait for  *)
(* the other, and the cascade takes what came first.                       *)
(***************************************************************************)
ChildrenHaveParent == revisions # {} \/ completions # {} => Live

\* The texts the history accounts for.
Explained == {original} \cup {rev.new : rev \in revisions}

(***************************************************************************)
(* Whatever updates overlap, the history has no text out of the blue: the  *)
(* current text, and every text a revision started from, is the original   *)
(* text or the outcome of a revision that is kept.                         *)
(***************************************************************************)
TextsExplained ==
    Live => homework.text \in Explained /\ \A rev \in revisions : rev.old \in Explained

(***************************************************************************)
(* Consumers see the events of a homework as its life went: created first, *)
(* no update after a deletion, and a deletion exactly when the row is gone *)
(* (though two requests that race to delete it each record one).           *)
(***************************************************************************)
EventsFollowLife ==
    /\ \A i \in 1..Len(events) : (events[i] = "created") <=> (i = 1)
    /\ \A i, j \in 1..Len(events) :
          i < j /\ events[i] = "deleted" => events[j] = "deleted"
    /\ (life = "gone") <=> \E i \in 1..Len(events) : events[i] = "deleted"

(***************************************************************************)
(* The requests under way never all wait for each other, although an       *)
(* update takes a key-share lock before it asks for the row, and updates,  *)
(* deletions and marks each wait for others of these.                      *)
(***************************************************************************)
NobodyStuck ==
    (\E q \in Requests : pc[q] \notin {"new", "done"}) => \E q \in Requests : Answered(q)

(***************************************************************************)
(* No request waits for ever: the locks of updates, deletes and child rows *)
(* are taken in an order that cannot deadlock.                             *)
(***************************************************************************)
RequestsEnd == \A q \in Requests : pc[q] # "new" ~> pc[q] = "done"

(***************************************************************************)
(* What the unit test of update says: an update that changes the text      *)
(* creates, in its transaction, the revision from the old to the new text. *)
(***************************************************************************)
TextChangeRecorded ==
    [][Live /\ Live' /\ homework'.text # homework.text =>
             \E rev \in revisions' \ revisions :
                 rev.old = homework.text /\ rev.new = homework'.text]_vars

\* What q asks for, from its read to its end.
Order(q) ==
    CASE pc[q] \in {"updating", "revised", "updated"} ->
            {[what |-> "update", body |-> change[q]]}
      [] pc[q] \in {"deleting", "deleted", "missed"} ->
            {[what |-> "delete", body |-> Unset]}
      [] pc[q] \in {"marking", "marked"} -> {[what |-> "mark", body |-> member[q]]}
      [] pc[q] = "unmarking" -> {[what |-> "unmark", body |-> member[q]]}
      [] OTHER -> {}

Asked == [q \in Requests |-> Order(q)]

(***************************************************************************)
(* However requests overlap, each takes effect at its commit as it was     *)
(* asked for, with its revision and its event, or not at all: an update    *)
(* leaves the fields it does not name as they are at that moment.          *)
(***************************************************************************)
Promise == INSTANCE HomeworkLife WITH asked <- Asked
LifeSpec == Promise!Spec

-----------------------------------------------------------------------------
(* The inductive invariant behind the safety properties.                    *)

\* Who holds which lock, that a locked row is there, and a read one was.
LocksOK ==
    /\ \A q \in Requests : pc[q] \in {"revised", "updated", "deleted", "marked"} => Live
    /\ \A q \in Requests : pc[q] \in {"updated", "deleted"} => ~ WriteLocked(q)
    /\ \A q \in Requests : pc[q] = "deleted" => ~ KeyShared(q)
    /\ \A q \in Requests : pc[q] = "missed" => life = "gone"
    /\ \A q \in Requests : pc[q] \notin {"new", "done"} => life # "unborn"

\* What an update has read, inserted and written.
RequestOK(q) ==
    /\ pc[q] \in {"updating", "revised", "updated"} =>
          seen[q] \in Values /\ change[q] \in Changes
    /\ pc[q] \in {"new", "updating"} => draft[q] = Unset
    /\ pc[q] \in {"updating", "revised"} /\ Live => seen[q].text \in Explained
    /\ pc[q] = "revised" => draft[q] # Unset
    /\ pc[q] = "updated" =>
          /\ seen[q] = Written(q)
          /\ DatesInOrder(seen[q])
          /\ seen[q].text \in Explained \/ (draft[q] # Unset /\ seen[q].text = draft[q].new)
    /\ pc[q] \in {"revised", "updated"} /\ draft[q] # Unset =>
          /\ draft[q] \in Revisions
          /\ draft[q].old \in Explained
          /\ draft[q].new = change[q].text
    /\ pc[q] \in {"marking", "marked", "unmarking"} => member[q] \in Members

UpdatesOK == \A q \in Requests : RequestOK(q)

(***************************************************************************)
(* The locks exclude what they should, and what every request under way    *)
(* carries is accounted for by the history as it is now.                   *)
(***************************************************************************)
Inv ==
    /\ TypeOK
    /\ LocksOK
    /\ UpdatesOK
    /\ DatesKept
    /\ ChildrenHaveParent
    /\ TextsExplained
    /\ EventsFollowLife
    /\ (life = "unborn") <=> (events = <<>>)
==============================================================================
