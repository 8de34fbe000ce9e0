------------------------- MODULE HomeworkAttachments -------------------------
(***************************************************************************)
(* The attachments of one homework: metadata rows in PostgreSQL, contents  *)
(* in an object store, and no transaction over both.  An upload stores the *)
(* object first and compensates when the metadata cannot be written; a     *)
(* deletion commits the rows first and removes the objects after, as well  *)
(* as it can (app/services/homework.py).                                   *)
(*                                                                         *)
(* Each upload generates its own object key, so an upload stands for its   *)
(* key, its row and its object.                                            *)
(***************************************************************************)
EXTENDS Naturals

CONSTANTS
    Uploads,        \* requests to upload an attachment, and their object keys
    Removals,       \* requests to delete one attachment
    Deletions,      \* requests to delete the homework
    MaxFailures     \* bound: store errors, database errors, crashes

Requests == Uploads \cup Removals \cup Deletions

ASSUME RequestsAssumption ==
    /\ Uploads \cap Removals = {}
    /\ Uploads \cap Deletions = {}
    /\ Removals \cap Deletions = {}

VARIABLES
    live,       \* whether the homework row exists
    rows,       \* the keys with committed metadata
    objects,    \* the keys the object store holds
    pc,         \* pc[q]: where request q stands
    todo,       \* todo[q]: the keys request q is to remove from the store
    failures,   \* store errors, database errors and crashes so far
    unsure,     \* history: keys committed by a COMMIT that reported an error
    lost,       \* history: keys whose removal was tried, or due, and failed
    late        \* history: keys committed after a deletion listed the rows

history == <<unsure, lost, late>>
vars == <<live, rows, objects, pc, todo, failures, history>>

Steps == {"new", "checked", "stored", "inserted", "compensating",
          "removing", "read", "listed", "purging", "done"}

TypeOK ==
    /\ live \in BOOLEAN
    /\ rows \in SUBSET Uploads
    /\ objects \in SUBSET Uploads
    /\ pc \in [Requests -> Steps]
    /\ todo \in [Requests -> SUBSET Uploads]
    /\ failures \in Nat
    /\ unsure \in SUBSET Uploads
    /\ lost \in SUBSET Uploads
    /\ late \in SUBSET Uploads

Init ==
    /\ live = TRUE
    /\ rows = {}
    /\ objects = {}
    /\ pc = [q \in Requests |-> "new"]
    /\ todo = [q \in Requests |-> {}]
    /\ failures = 0
    /\ unsure = {}
    /\ lost = {}
    /\ late = {}

Go(q, from, to) == pc[q] = from /\ pc' = [pc EXCEPT ![q] = to]

Fail == failures < MaxFailures /\ failures' = failures + 1

\* Access is refused, or what the request names is not there.
Reject(q) ==
    /\ Go(q, "new", "done")
    /\ UNCHANGED <<live, rows, objects, todo, failures, history>>

-----------------------------------------------------------------------------
(* upload_attachment                                                        *)

\* A transaction of its own checks access and the homework.
CheckUpload(u) ==
    /\ live
    /\ Go(u, "new", "checked")
    /\ UNCHANGED <<live, rows, objects, todo, failures, history>>

\* The content type or the size is refused.
RefuseContent(u) ==
    /\ Go(u, "checked", "done")
    /\ UNCHANGED <<live, rows, objects, todo, failures, history>>

StoreObject(u) ==
    /\ Go(u, "checked", "stored")
    /\ objects' = objects \cup {u}
    /\ UNCHANGED <<live, rows, todo, failures, history>>

\* storage.upload raises before the try block: no compensation, though the
\* store may have kept the object.
StoreFails(u) ==
    /\ Go(u, "checked", "done")
    /\ Fail
    /\ \E kept \in SUBSET {u} :
         /\ objects' = objects \cup kept
         /\ lost' = lost \cup kept
    /\ UNCHANGED <<live, rows, todo, unsure, late>>

\* The insert holds a key-share lock on the homework until the commit.
InsertRow(u) ==
    /\ live
    /\ Go(u, "stored", "inserted")
    /\ UNCHANGED <<live, rows, objects, todo, failures, history>>

\* The foreign key finds no homework any more.
RowRefused(u) ==
    /\ ~ live
    /\ Go(u, "stored", "compensating")
    /\ UNCHANGED <<live, rows, objects, todo, failures, history>>

\* The deletions that have listed the attachments and not yet deleted.
Listed == {d \in Deletions : pc[d] = "listed"}

CommitRow(u) ==
    /\ Go(u, "inserted", "done")
    /\ rows' = rows \cup {u}
    /\ late' = IF Listed = {} THEN late ELSE late \cup {u}
    /\ UNCHANGED <<live, objects, todo, failures, unsure, lost>>

\* Mutation of RowFails: only some exceptions reach the compensation.
RowFailsUncaught(u) ==
    /\ Go(u, "inserted", "done")
    /\ Fail
    /\ UNCHANGED <<live, rows, objects, todo, history>>

\* The insert or the COMMIT raises, or the task is cancelled in it; what the
\* COMMIT did on the server is not known to the caller.
RowFails(u) ==
    /\ Go(u, "inserted", "compensating")
    /\ Fail
    /\ \E committed \in SUBSET {u} :
         /\ rows' = rows \cup committed
         /\ unsure' = unsure \cup committed
    /\ UNCHANGED <<live, objects, todo, lost, late>>

\* except BaseException: _delete_object_best_effort
Compensate(u) ==
    /\ Go(u, "compensating", "done")
    /\ objects' = objects \ {u}
    /\ UNCHANGED <<live, rows, todo, failures, history>>

CompensationFails(u) ==
    /\ Go(u, "compensating", "done")
    /\ Fail
    /\ lost' = lost \cup {u}
    /\ UNCHANGED <<live, rows, objects, todo, unsure, late>>

-----------------------------------------------------------------------------
(* delete_attachment                                                        *)

ReadAttachment(d) ==
    /\ live
    /\ \E k \in rows : todo' = [todo EXCEPT ![d] = {k}]
    /\ Go(d, "new", "removing")
    /\ UNCHANGED <<live, rows, objects, failures, history>>

\* The row may be gone by now: nobody counts what the DELETE removes.
RemoveRow(d) ==
    /\ Go(d, "removing", "purging")
    /\ rows' = rows \ todo[d]
    /\ UNCHANGED <<live, objects, todo, failures, history>>

\* The transaction fails, or its COMMIT took effect and reported an error:
\* nobody removes the object then.
RemovalFails(d) ==
    /\ Go(d, "removing", "done")
    /\ Fail
    /\ \E removed \in {{}, todo[d]} : rows' = rows \ removed /\ lost' = lost \cup removed
    /\ todo' = [todo EXCEPT ![d] = {}]
    /\ UNCHANGED <<live, objects, unsure, late>>

-----------------------------------------------------------------------------
(* delete                                                                   *)

ReadHomework(d) ==
    /\ live
    /\ Go(d, "new", "read")
    /\ UNCHANGED <<live, rows, objects, todo, failures, history>>

\* Mutation of ListAttachments: the objects go before the rows.
ListAndPurge(d) ==
    /\ Go(d, "read", "listed")
    /\ todo' = [todo EXCEPT ![d] = rows]
    /\ objects' = objects \ rows
    /\ UNCHANGED <<live, rows, failures, history>>

\* list_attachments reads the committed rows and locks nothing.
ListAttachments(d) ==
    /\ Go(d, "read", "listed")
    /\ todo' = [todo EXCEPT ![d] = rows]
    /\ UNCHANGED <<live, rows, objects, failures, history>>

\* Mutation of Unlocked: the foreign key takes no lock.
AlwaysUnlocked == Uploads \subseteq Requests

\* The DELETE waits for the key-share locks of inserted rows.
Unlocked == \A u \in Uploads : pc[u] # "inserted"

\* ON DELETE CASCADE takes every committed row, listed or not.
DeleteHomework(d) ==
    /\ Unlocked
    /\ Go(d, "listed", "purging")
    /\ live' = FALSE
    /\ rows' = {}
    /\ UNCHANGED <<objects, todo, failures, history>>

\* As in RemovalFails, for the deletion of the homework.
DeletionFails(d) ==
    /\ Unlocked
    /\ Go(d, "listed", "done")
    /\ Fail
    /\ \/ UNCHANGED <<live, rows, lost>>
       \/ live' = FALSE /\ rows' = {} /\ lost' = lost \cup todo[d]
    /\ todo' = [todo EXCEPT ![d] = {}]
    /\ UNCHANGED <<objects, unsure, late>>

-----------------------------------------------------------------------------
(* Removing objects after the commit, one by one.                           *)

Purge(q, k) ==
    /\ pc[q] = "purging"
    /\ k \in todo[q]
    /\ objects' = objects \ {k}
    /\ todo' = [todo EXCEPT ![q] = @ \ {k}]
    /\ UNCHANGED <<live, rows, pc, failures, history>>

\* The error of the store is logged and the next key follows.
PurgeFails(q, k) ==
    /\ pc[q] = "purging"
    /\ k \in todo[q]
    /\ Fail
    /\ lost' = lost \cup {k}
    /\ todo' = [todo EXCEPT ![q] = @ \ {k}]
    /\ UNCHANGED <<live, rows, objects, pc, unsure, late>>

EndPurge(q) ==
    /\ todo[q] = {}
    /\ Go(q, "purging", "done")
    /\ UNCHANGED <<live, rows, objects, todo, failures, history>>

-----------------------------------------------------------------------------
\* The keys request q alone still answers for.
Answers(q) ==
    IF pc[q] = "purging" THEN todo[q]
    ELSE IF pc[q] \in {"stored", "inserted", "compensating"} THEN {q} \cap Uploads
    ELSE {}

\* The process dies, or a shutdown cancels the request: an open transaction
\* rolls back and what was to follow is forgotten.
Crash(q) ==
    /\ pc[q] \notin {"new", "done"}
    /\ pc' = [pc EXCEPT ![q] = "done"]
    /\ Fail
    /\ lost' = lost \cup Answers(q)
    /\ todo' = [todo EXCEPT ![q] = {}]
    /\ UNCHANGED <<live, rows, objects, unsure, late>>

UploadStep(u) ==
    \/ CheckUpload(u) \/ RefuseContent(u) \/ StoreObject(u) \/ StoreFails(u)
    \/ InsertRow(u) \/ RowRefused(u) \/ CommitRow(u) \/ RowFails(u)
    \/ Compensate(u) \/ CompensationFails(u)

PurgeStep(q) == EndPurge(q) \/ \E k \in Uploads : Purge(q, k) \/ PurgeFails(q, k)

RemovalStep(d) == ReadAttachment(d) \/ RemoveRow(d) \/ RemovalFails(d) \/ PurgeStep(d)

DeletionStep(d) ==
    \/ ReadHomework(d) \/ ListAttachments(d) \/ DeleteHomework(d) \/ DeletionFails(d)
    \/ PurgeStep(d)

Finished == (\A q \in Requests : pc[q] = "done") /\ UNCHANGED vars

Next ==
    \/ \E u \in Uploads : UploadStep(u)
    \/ \E d \in Removals : RemovalStep(d)
    \/ \E d \in Deletions : DeletionStep(d)
    \/ \E q \in Requests : Reject(q) \/ Crash(q)
    \/ Finished

Spec == Init /\ [][Next]_vars

\* A request under way goes on, one way or the other, unless it crashes.
FairSpec ==
    /\ Spec
    /\ \A u \in Uploads : WF_vars(pc[u] # "new" /\ UploadStep(u))
    /\ \A d \in Removals : WF_vars(pc[d] # "new" /\ RemovalStep(d))
    /\ \A d \in Deletions : WF_vars(pc[d] # "new" /\ DeletionStep(d))

-----------------------------------------------------------------------------
(* Properties.                                                              *)

(***************************************************************************)
(* What is listed can be downloaded: committed metadata has its object,    *)
(* under any race of uploads and deletions, with one exception: a COMMIT   *)
(* that took effect and was reported as failed, whose object the           *)
(* compensation then removes.                                              *)
(***************************************************************************)
NoDangling == rows \subseteq objects \cup unsure

(***************************************************************************)
(* An upload that loses the race against the deletion of its homework      *)
(* leaves no metadata: its second transaction checks nothing, but its      *)
(* insert and the DELETE exclude each other.                               *)
(***************************************************************************)
RowsHaveHomework == rows # {} => live

\* The keys some request answers for, or has failed to.
Accounted == lost \cup late \cup UNION {Answers(q) : q \in Requests}

(***************************************************************************)
(* No object is forgotten: it has its metadata, or a request answers for   *)
(* it, or a store or a process failed while a request did, or it was       *)
(* committed after a deletion of the homework had listed the attachments.  *)
(***************************************************************************)
ObjectsAccounted == objects \subseteq rows \cup Accounted

(***************************************************************************)
(* In the end the store holds no object without metadata, except where a   *)
(* store or a process failed while it answered for the object, and except  *)
(* an upload that committed between the listing and the DELETE of a        *)
(* deletion, which cascades to its row and never learns of its object.     *)
(***************************************************************************)
EventuallyClean == <>[](objects \subseteq rows \cup lost \cup late)

-----------------------------------------------------------------------------
(* The inductive invariant behind NoDangling and RowsHaveHomework.          *)

\* Where the key of a committed or formerly committed row may stand.
Settled(u) == pc[u] \in {"compensating", "done"}

(***************************************************************************)
(* A key is removed from the store only by a request whose transaction has *)
(* taken its row away for good, or by its own upload after an error.       *)
(***************************************************************************)
Inv ==
    /\ TypeOK
    /\ NoDangling
    /\ RowsHaveHomework
    /\ \A u \in rows : Settled(u)
    /\ \A u \in rows : pc[u] = "compensating" => u \in unsure
    /\ \A u \in Uploads : pc[u] \in {"stored", "inserted"} => u \in objects
    /\ \A u \in Uploads : pc[u] = "inserted" => live
    /\ \A q \in Requests : todo[q] \subseteq {u \in Uploads : Settled(u)}
    /\ \A q \in Requests : pc[q] = "purging" => todo[q] \cap rows = {}

(***************************************************************************)
(* Whatever is about to lose its row is on the list of the request that    *)
(* takes it, or accounted for otherwise.                                   *)
(***************************************************************************)
AccountInv ==
    /\ Inv
    /\ ObjectsAccounted
    /\ \A d \in Listed : objects \cap rows \subseteq todo[d] \cup Accounted
==============================================================================
