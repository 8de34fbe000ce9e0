------------------------------ MODULE Subjects ------------------------------
(***************************************************************************)
(* One subject of a class: SubjectService (app/services/classes.py), and   *)
(* the homework, lessons and overrides that name it, which other services  *)
(* insert and delete.  Their foreign key is ON DELETE RESTRICT.            *)
(***************************************************************************)
EXTENDS ClassMembers

VARIABLES
    subject,    \* whether the row is committed: "unborn", "there" or "gone"
    uses,       \* the committed rows that name the subject, by the request of each
    told        \* what the last event on the subject tells: "nothing", "there" or "gone"

subjectVars == <<subject, uses, told>>

SubjectsInit ==
    /\ subject = "unborn"
    /\ uses = {}
    /\ told = "nothing"

SubjectThere == subject = "there"

EndSubject(q) == End(q) /\ UNCHANGED <<members, known, hollow>>

\* The row lock of an UPDATE, or of a DELETE that found the row.
SubjectLocked(q) == \E r \in Requests \ {q} : pc[r] \in {"renamed", "dropped"} /\ SubjectThere

\* Mutation of NamedBy: the foreign key is not checked when a row is inserted.
NobodyNames(q) == q \notin Requests

\* Who has inserted a row that names the subject: its key-share lock.
NamedBy(q) == \E r \in Requests \ {q} : pc[r] = "used"

\* The DELETE excludes key-share locks, an UPDATE of other columns does not.
DropLocked(q) == \E r \in Requests \ {q} : pc[r] = "dropped" /\ SubjectThere

CreateSubject(q) ==
    /\ pc[q] = "new"
    /\ subject = "unborn"
    /\ subject' = "there"
    /\ told' = "there"
    /\ EndSubject(q)
    /\ UNCHANGED uses

-----------------------------------------------------------------------------
(* A homework, a lesson or an override that names the subject.              *)

\* _require_subject, without a lock; by an editor or an administrator.
ReadForUse(q) ==
    /\ pc[q] = "allowed"
    /\ SubjectThere
    /\ Advance(q, "using")
    /\ UNCHANGED <<memberVars, actor, subjectVars>>

\* The INSERT or UPDATE takes the key-share lock of its foreign key.
InsertUse(q) ==
    /\ pc[q] = "using"
    /\ ~ DropLocked(q)
    /\ SubjectThere
    /\ Advance(q, "used")
    /\ UNCHANGED <<memberVars, actor, subjectVars>>

\* The foreign key finds no subject.
UseRefused(q) ==
    /\ pc[q] = "using"
    /\ ~ DropLocked(q)
    /\ ~ SubjectThere
    /\ EndSubject(q)
    /\ UNCHANGED subjectVars

CommitUse(q) ==
    /\ pc[q] = "used"
    /\ uses' = uses \cup {q}
    /\ EndSubject(q)
    /\ UNCHANGED <<subject, told>>

\* A row that names the subject is deleted, or given another subject.
DropUse(q) ==
    /\ pc[q] = "allowed"
    /\ \E use \in uses : uses' = uses \ {use}
    /\ EndSubject(q)
    /\ UNCHANGED <<subject, told>>

-----------------------------------------------------------------------------
(* update and delete                                                        *)

\* _get_for_class, without a lock.
ReadSubject(q) ==
    /\ pc[q] = "new"
    /\ SubjectThere
    /\ \E step \in {"renaming", "dropping"} : Advance(q, step)
    /\ UNCHANGED <<memberVars, actor, subjectVars>>

\* Mutation of RenameSubject: the UPDATE does not count its rows.
RenameUncounted(q) ==
    /\ pc[q] = "renaming"
    /\ ~ SubjectLocked(q)
    /\ Advance(q, "renamed")
    /\ UNCHANGED <<memberVars, actor, subjectVars>>

RenameSubject(q) ==
    /\ pc[q] = "renaming"
    /\ ~ SubjectLocked(q)
    /\ SubjectThere
    /\ Advance(q, "renamed")
    /\ UNCHANGED <<memberVars, actor, subjectVars>>

\* The UPDATE finds no row: RuntimeError.
SubjectGone(q) ==
    /\ pc[q] = "renaming"
    /\ ~ SubjectLocked(q)
    /\ ~ SubjectThere
    /\ EndSubject(q)
    /\ UNCHANGED subjectVars

\* The DELETE waits for every lock on the row.  It may have gone, and nobody looks.
DropSubject(q) ==
    /\ pc[q] = "dropping"
    /\ ~ SubjectLocked(q)
    /\ ~ NamedBy(q)
    /\ SubjectThere => uses = {}
    /\ Advance(q, "dropped")
    /\ UNCHANGED <<memberVars, actor, subjectVars>>

\* IntegrityError on a _subject_id_fkey: SubjectInUseError.
SubjectInUse(q) ==
    /\ pc[q] = "dropping"
    /\ ~ SubjectLocked(q)
    /\ ~ NamedBy(q)
    /\ SubjectThere /\ uses # {}
    /\ EndSubject(q)
    /\ UNCHANGED subjectVars

\* The COMMIT, with the event recorded in the transaction.
CommitSubject(q) ==
    /\ pc[q] \in {"renamed", "dropped"}
    /\ subject' = IF pc[q] = "dropped" THEN "gone" ELSE subject
    /\ told' = IF pc[q] = "dropped" THEN "gone" ELSE "there"
    /\ Advance(q, "clearing")
    /\ UNCHANGED <<memberVars, actor, uses>>

\* _invalidate_schedule, done or failed; the keys themselves are ScheduleCache's.
ClearCache(q) ==
    /\ pc[q] = "clearing"
    /\ EndSubject(q)
    /\ UNCHANGED subjectVars

SubjectStep(q) ==
    \/ CreateSubject(q)
    \/ ReadForUse(q) \/ InsertUse(q) \/ UseRefused(q) \/ CommitUse(q) \/ DropUse(q)
    \/ ReadSubject(q) \/ RenameSubject(q) \/ SubjectGone(q)
    \/ DropSubject(q) \/ SubjectInUse(q) \/ CommitSubject(q) \/ ClearCache(q)

-----------------------------------------------------------------------------
(***************************************************************************)
(* No homework and no lesson ever names a subject that is gone, whatever   *)
(* its deletion races with: SubjectInUseError for the one side, a refused  *)
(* insert for the other.                                                   *)
(***************************************************************************)
UsesHaveSubject == uses # {} => SubjectThere

(***************************************************************************)
(* A renaming that races a deletion is never announced after it, although  *)
(* both have read the row; the deletion of a subject is its last word.     *)
(***************************************************************************)
SubjectToldTrue == told = "gone" <=> subject = "gone"
==============================================================================
