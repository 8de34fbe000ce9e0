---------------------- MODULE HomeworkAttachmentsProofs ----------------------
(***************************************************************************)
(* Theorems about HomeworkAttachments for every set of requests.           *)
(***************************************************************************)
EXTENDS HomeworkAttachments, TLAPS

\* At first there is nothing to list, to store or to remove.
LEMMA InitInv == Init => Inv
BY DEF Init, Inv, TypeOK, Steps, NoDangling, RowsHaveHomework, Settled, Requests

\* The steps of an upload keep the types.
LEMMA UploadType == ASSUME TypeOK, NEW u \in Uploads, UploadStep(u) PROVE TypeOK'
BY DEF TypeOK, Steps, Requests, UploadStep, CheckUpload, RefuseContent, StoreObject, StoreFails,
       InsertRow, RowRefused, CommitRow, RowFails, Compensate, CompensationFails, Go, Fail, history

\* So do all others.
LEMMA OtherType ==
    ASSUME TypeOK, NEW q \in Requests,
           \/ Reject(q) \/ Crash(q) \/ PurgeStep(q)
           \/ ReadAttachment(q) \/ RemoveRow(q) \/ RemovalFails(q)
           \/ ReadHomework(q) \/ ListAttachments(q) \/ DeleteHomework(q) \/ DeletionFails(q)
    PROVE  TypeOK'
<1>1. CASE Reject(q) \/ Crash(q)
  BY <1>1 DEF TypeOK, Steps, Requests, Reject, Crash, Answers, Go, Fail, history
<1>2. CASE PurgeStep(q)
  BY <1>2 DEF TypeOK, Steps, Requests, PurgeStep, Purge, PurgeFails, EndPurge, Go, Fail, history
<1>3. CASE ReadAttachment(q) \/ RemoveRow(q) \/ RemovalFails(q)
  BY <1>3 DEF TypeOK, Steps, Requests, ReadAttachment, RemoveRow, RemovalFails, Go, Fail, history
<1>4. CASE ReadHomework(q) \/ ListAttachments(q) \/ DeleteHomework(q)
  BY <1>4 DEF TypeOK, Steps, ReadHomework, ListAttachments, DeleteHomework, Go, history
<1>5. CASE DeletionFails(q)
  <2>1. live' \in BOOLEAN /\ rows' \in SUBSET Uploads /\ lost' \in SUBSET Uploads
    BY <1>5 DEF TypeOK, DeletionFails
  <2> QED BY <1>5, <2>1 DEF TypeOK, Steps, DeletionFails, Go, Fail
<1> QED BY <1>1, <1>2, <1>3, <1>4, <1>5

-----------------------------------------------------------------------------
(* The inductive invariant.                                                 *)

\* Inv but for the types.
Rest ==
    /\ NoDangling
    /\ RowsHaveHomework
    /\ \A u \in rows : Settled(u)
    /\ \A u \in rows : pc[u] = "compensating" => u \in unsure
    /\ \A u \in Uploads : pc[u] \in {"stored", "inserted"} => u \in objects
    /\ \A u \in Uploads : pc[u] = "inserted" => live
    /\ \A q \in Requests : todo[q] \subseteq {u \in Uploads : Settled(u)}
    /\ \A q \in Requests : pc[q] = "purging" => todo[q] \cap rows = {}

\* Steps that only move a request on, without an effect on rows or objects.
LEMMA MoveRest ==
    ASSUME Inv, NEW q \in Requests, NEW to \in Steps,
           pc' = [pc EXCEPT ![q] = to],
           UNCHANGED <<live, rows, objects, todo, unsure>>,
           to \in {"stored", "inserted"} => q \in objects /\ live,
           Settled(q) => to = "done",
           to = "purging" => todo[q] \cap rows = {},
           to = "compensating" => q \notin rows
    PROVE  Rest'
<1>1. \A p \in Requests : pc'[p] = IF p = q THEN to ELSE pc[p]
  BY DEF Inv, TypeOK
<1>2. \A u \in Uploads : Settled(u) => Settled(u)'
  BY <1>1 DEF Settled, Requests
<1>3. Uploads \subseteq Requests
  BY DEF Requests
<1> QED BY <1>1, <1>2, <1>3 DEF Inv, Rest, TypeOK, NoDangling, RowsHaveHomework

\* An upload commits its row only while its object is stored, and removes it only after an error.
LEMMA UploadRest == ASSUME Inv, NEW u \in Uploads, UploadStep(u) PROVE Rest'
<1>0. u \in Requests
  BY DEF Requests
<1>1. CASE CheckUpload(u) \/ RefuseContent(u)
  BY <1>0, <1>1, MoveRest DEF CheckUpload, RefuseContent, Go, history, Settled, Steps
<1>2. CASE InsertRow(u)
  BY <1>0, <1>2, MoveRest DEF InsertRow, Go, history, Settled, Steps, Inv
<1>3. CASE RowRefused(u)
  <2>1. u \notin rows
    BY <1>3 DEF RowRefused, Go, Inv, Settled
  <2> QED BY <1>0, <1>3, <2>1, MoveRest DEF RowRefused, Go, history, Settled, Steps
<1>4. CASE CompensationFails(u)
  BY <1>0, <1>4, MoveRest DEF CompensationFails, Go, Settled, Steps
<1>5. CASE StoreObject(u) \/ StoreFails(u)
  <2>1. /\ pc[u] = "checked" /\ objects \subseteq objects'
        /\ UNCHANGED <<live, rows, todo, unsure>>
    BY <1>5 DEF StoreObject, StoreFails, Go, history
  <2>2. \A p \in Requests : p # u => pc'[p] = pc[p]
    BY <1>5 DEF StoreObject, StoreFails, Go, Inv, TypeOK
  <2>3. pc'[u] = "done" \/ (pc'[u] = "stored" /\ u \in objects')
    BY <1>0, <1>5 DEF StoreObject, StoreFails, Go, Inv, TypeOK
  <2>4. u \notin rows /\ \A q \in Requests : u \notin todo[q]
    BY <2>1 DEF Inv, Settled
  <2> QED BY <1>0, <2>1, <2>2, <2>3, <2>4 DEF Inv, Rest, TypeOK, NoDangling, RowsHaveHomework,
                                          Settled, Requests
<1>6. CASE CommitRow(u) \/ RowFails(u)
  <2>1. /\ pc[u] = "inserted" /\ UNCHANGED <<live, objects, todo>>
        /\ u \in objects /\ live
    BY <1>6 DEF CommitRow, RowFails, Go, Inv
  <2>2. \A p \in Requests : p # u => pc'[p] = pc[p]
    BY <1>6 DEF CommitRow, RowFails, Go, Inv, TypeOK
  <2>3. \/ pc'[u] = "done" /\ rows' = rows \cup {u} /\ unsure' = unsure
        \/ pc'[u] = "compensating" /\ \E c \in SUBSET {u} :
              rows' = rows \cup c /\ unsure' = unsure \cup c
    BY <1>0, <1>6 DEF CommitRow, RowFails, Go, Inv, TypeOK, history
  <2>4. u \notin rows /\ \A q \in Requests : u \notin todo[q]
    BY <2>1 DEF Inv, Settled
  <2> QED BY <1>0, <2>1, <2>2, <2>3, <2>4 DEF Inv, Rest, TypeOK, NoDangling, RowsHaveHomework,
                                          Settled, Requests
<1>7. CASE Compensate(u)
  <2>1. /\ pc[u] = "compensating" /\ objects' = objects \ {u}
        /\ UNCHANGED <<live, rows, todo, unsure>>
    BY <1>7 DEF Compensate, Go, history
  <2>2. \A p \in Requests : pc'[p] = IF p = u THEN "done" ELSE pc[p]
    BY <1>7 DEF Compensate, Go, Inv, TypeOK
  <2> QED BY <1>0, <2>1, <2>2 DEF Inv, Rest, TypeOK, NoDangling, RowsHaveHomework,
                                  Settled, Requests
<1> QED BY <1>1, <1>2, <1>3, <1>4, <1>5, <1>6, <1>7 DEF UploadStep

\* A removal takes the row away before it turns to the object.
LEMMA RemovalRest ==
    ASSUME Inv, NEW d \in Removals, ReadAttachment(d) \/ RemoveRow(d) \/ RemovalFails(d)
    PROVE  Rest'
<1>1. /\ UNCHANGED <<live, objects, unsure>> /\ rows' \subseteq rows
      /\ \A p \in Requests : p # d => pc'[p] = pc[p] /\ todo'[p] = todo[p]
  BY DEF ReadAttachment, RemoveRow, RemovalFails, Go, Inv, TypeOK, history
<1>2. d \in Requests /\ d \notin Uploads
  BY RequestsAssumption DEF Requests
<1>3. pc'[d] = "purging" => rows' \cap todo'[d] = {}
  BY <1>2 DEF ReadAttachment, RemoveRow, RemovalFails, Go, Inv, TypeOK
<1>4. todo'[d] \subseteq {u \in Uploads : Settled(u)}
  BY <1>2 DEF ReadAttachment, RemoveRow, RemovalFails, Go, Inv, TypeOK, history
<1> QED BY <1>1, <1>2, <1>3, <1>4 DEF Inv, Rest, TypeOK, NoDangling, RowsHaveHomework,
                                    Settled, Requests

\* A deletion takes every row away before it turns to the objects.
LEMMA DeletionRest ==
    ASSUME Inv, NEW d \in Deletions,
           ReadHomework(d) \/ ListAttachments(d) \/ DeleteHomework(d) \/ DeletionFails(d)
    PROVE  Rest'
<1>1. /\ UNCHANGED <<objects, unsure>>
      /\ \A p \in Requests : p # d => pc'[p] = pc[p] /\ todo'[p] = todo[p]
  BY DEF ReadHomework, ListAttachments, DeleteHomework, DeletionFails, Go, Inv, TypeOK, history
<1>2. d \in Requests /\ d \notin Uploads
  BY RequestsAssumption DEF Requests
<1>3. \/ UNCHANGED <<live, rows>>
      \/ rows' = {} /\ \A u \in Uploads : pc[u] # "inserted"
  BY DEF ReadHomework, ListAttachments, DeleteHomework, DeletionFails, Unlocked, history
<1>4. pc'[d] = "purging" => rows' \cap todo'[d] = {}
  BY <1>2 DEF ReadHomework, ListAttachments, DeleteHomework, DeletionFails, Go, Inv, TypeOK
<1>5. todo'[d] \subseteq {u \in Uploads : Settled(u)}
  BY <1>2 DEF ReadHomework, ListAttachments, DeleteHomework, DeletionFails, Go, Inv, TypeOK,
              history
<1> QED BY <1>1, <1>2, <1>3, <1>4, <1>5 DEF Inv, Rest, TypeOK, NoDangling, RowsHaveHomework,
                                    Settled, Requests

\* Objects are removed only where no row is left.
LEMMA PurgeRest == ASSUME Inv, NEW q \in Requests, q \notin Uploads, PurgeStep(q) PROVE Rest'
<1>1. CASE EndPurge(q)
  BY <1>1, MoveRest DEF EndPurge, Go, history, Settled, Steps
<1>2. CASE \E k \in Uploads : Purge(q, k) \/ PurgeFails(q, k)
  <2> PICK k \in Uploads : Purge(q, k) \/ PurgeFails(q, k)
    BY <1>2
  <2>1. /\ UNCHANGED <<live, rows, pc, unsure>> /\ pc[q] = "purging" /\ k \in todo[q]
        /\ objects \ {k} \subseteq objects'
        /\ \A p \in Requests : todo'[p] \subseteq todo[p]
    BY DEF Purge, PurgeFails, Inv, TypeOK, history
  <2>2. k \notin rows /\ Settled(k)
    BY <2>1 DEF Inv
  <2> QED BY <2>1, <2>2 DEF Inv, Rest, TypeOK, NoDangling, RowsHaveHomework, Settled, Requests
<1> QED BY <1>1, <1>2 DEF PurgeStep

\* A request that ends early leaves rows and objects as they are.
LEMMA EndRest == ASSUME Inv, NEW q \in Requests, Reject(q) \/ Crash(q) PROVE Rest'
<1>1. /\ UNCHANGED <<live, rows, objects, unsure>>
      /\ \A p \in Requests : pc'[p] = IF p = q THEN "done" ELSE pc[p]
      /\ \A p \in Requests : todo'[p] \subseteq todo[p]
  BY DEF Reject, Crash, Go, Inv, TypeOK, history
<1> QED BY <1>1 DEF Inv, Rest, TypeOK, NoDangling, RowsHaveHomework, Settled, Requests

\* Every step keeps the invariant.
LEMMA NextInv == Inv /\ [Next]_vars => Inv'
<1> SUFFICES ASSUME Inv, [Next]_vars PROVE Inv'
  OBVIOUS
<1>0. TypeOK /\ (TypeOK' /\ Rest' => Inv')
  BY DEF Inv, Rest
<1>1. CASE \E u \in Uploads : UploadStep(u)
  BY <1>0, <1>1, UploadType, UploadRest
<1>2. CASE \E d \in Removals : RemovalStep(d)
  <2>1. \A d \in Removals : d \in Requests /\ d \notin Uploads
    BY RequestsAssumption DEF Requests
  <2> QED BY <1>0, <1>2, <2>1, OtherType, RemovalRest, PurgeRest DEF RemovalStep
<1>3. CASE \E d \in Deletions : DeletionStep(d)
  <2>1. \A d \in Deletions : d \in Requests /\ d \notin Uploads
    BY RequestsAssumption DEF Requests
  <2> QED BY <1>0, <1>3, <2>1, OtherType, DeletionRest, PurgeRest DEF DeletionStep
<1>4. CASE \E q \in Requests : Reject(q) \/ Crash(q)
  BY <1>0, <1>4, OtherType, EndRest
<1>5. CASE UNCHANGED vars
  BY <1>5 DEF vars, history, Inv, TypeOK, NoDangling, RowsHaveHomework, Settled
<1> QED BY <1>1, <1>2, <1>3, <1>4, <1>5 DEF Next, Finished

(***************************************************************************)
(* The inductive invariant holds in every reachable state.                 *)
(***************************************************************************)
THEOREM Invariance == Spec => []Inv
BY InitInv, NextInv, PTL DEF Spec

(***************************************************************************)
(* Listed attachments can be downloaded, whatever uploads, removals and    *)
(* deletions race, except after a COMMIT wrongly reported as failed.       *)
(***************************************************************************)
THEOREM ListedIsStored == Spec => []NoDangling
BY Invariance, PTL DEF Inv

(***************************************************************************)
(* No attachment row outlives its homework.                                *)
(***************************************************************************)
THEOREM NoOrphanRows == Spec => []RowsHaveHomework
BY Invariance, PTL DEF Inv

-----------------------------------------------------------------------------
(* No object is forgotten.                                                  *)

\* What a step of one request, which may add a row only where no deletion has
\* listed the rows, must not do.
LEMMA AccountKept ==
    ASSUME AccountInv,
           \A k \in Accounted :
               k \in Accounted' \/ k \notin objects' \/ (k \in rows' /\ Listed' = {}),
           objects' \subseteq objects \cup Accounted',
           objects' \cap (rows \ rows') \subseteq Accounted',
           Listed' = {} \/ rows' \subseteq rows \cup Accounted',
           \A d \in Listed' : rows' \subseteq todo'[d] \/ (d \in Listed /\ todo'[d] = todo[d])
    PROVE  /\ ObjectsAccounted'
           /\ \A d \in Listed' : objects' \cap rows' \subseteq todo'[d] \cup Accounted'
BY DEF AccountInv, ObjectsAccounted

\* A request answers for its keys as long as neither it nor its list changes.
LEMMA AnswersSame ==
    ASSUME NEW q \in Requests, \A p \in Requests \ {q} : pc'[p] = pc[p] /\ todo'[p] = todo[p],
           lost \subseteq lost', late \subseteq late'
    PROVE  \A k \in Accounted : k \in Accounted' \/ k \in Answers(q)
BY DEF Accounted, Answers

\* Who is asked to is on record.
LEMMA AnswersCount == \A q \in Requests : Answers(q)' \subseteq Accounted'
BY DEF Accounted

\* An upload answers for its object until the row is there or the object is not.
LEMMA UploadAccount ==
    ASSUME AccountInv, NEW u \in Uploads, UploadStep(u)
    PROVE  /\ ObjectsAccounted'
           /\ \A d \in Listed' : objects' \cap rows' \subseteq todo'[d] \cup Accounted'
<1>0. /\ u \in Requests /\ u \notin Deletions /\ TypeOK
      /\ todo' = todo /\ lost \subseteq lost' /\ late \subseteq late'
      /\ \A p \in Requests \ {u} : pc'[p] = pc[p]
  BY RequestsAssumption DEF Requests, AccountInv, Inv, TypeOK, UploadStep, CheckUpload,
     RefuseContent, StoreObject, StoreFails, InsertRow, RowRefused, CommitRow, RowFails,
     Compensate, CompensationFails, Go, history
<1>1. Listed' = Listed
  BY <1>0 DEF Listed, Requests
<1>2. \A k \in Accounted : k \in Accounted' \/ k \in Answers(u)
  BY <1>0, AnswersSame
<1>3. lost' \cup late' \cup Answers(u)' \subseteq Accounted'
  BY <1>0, AnswersCount DEF Accounted
<1>4. \A k \in Accounted :
          k \in Accounted' \/ k \notin objects' \/ (k \in rows' /\ Listed' = {})
  <2>1. CASE CheckUpload(u) \/ RefuseContent(u) \/ StoreObject(u) \/ StoreFails(u)
    BY <1>2, <2>1 DEF CheckUpload, RefuseContent, StoreObject, StoreFails, Go, Answers
  <2>2. CASE InsertRow(u) \/ RowRefused(u) \/ RowFails(u)
    BY <1>0, <1>2, <1>3, <2>2 DEF InsertRow, RowRefused, RowFails, Go, Answers, TypeOK
  <2>3. CASE CommitRow(u)
    BY <1>1, <1>2, <1>3, <2>3 DEF CommitRow, Go, Answers
  <2>4. CASE Compensate(u) \/ CompensationFails(u)
    BY <1>2, <1>3, <2>4 DEF Compensate, CompensationFails, Go, Answers
  <2> QED BY <2>1, <2>2, <2>3, <2>4 DEF UploadStep
<1>5. objects' \subseteq objects \cup Accounted'
  <2>1. CASE StoreObject(u) \/ StoreFails(u)
    BY <1>0, <1>3, <2>1 DEF StoreObject, StoreFails, Go, Answers, TypeOK
  <2>2. CASE ~ (StoreObject(u) \/ StoreFails(u))
    BY <2>2 DEF UploadStep, CheckUpload, RefuseContent, InsertRow, RowRefused, CommitRow,
                RowFails, Compensate, CompensationFails
  <2> QED BY <2>1, <2>2
<1>6. rows \subseteq rows' /\ (Listed' = {} \/ rows' \subseteq rows \cup Accounted')
  <2>1. CASE CommitRow(u)
    BY <1>1, <1>3, <2>1 DEF CommitRow
  <2>2. CASE RowFails(u)
    BY <1>0, <1>3, <2>2 DEF RowFails, Go, Answers, TypeOK
  <2>3. CASE ~ (CommitRow(u) \/ RowFails(u))
    BY <2>3 DEF UploadStep, CheckUpload, RefuseContent, StoreObject, StoreFails, InsertRow,
                RowRefused, Compensate, CompensationFails
  <2> QED BY <2>1, <2>2, <2>3
<1> QED BY <1>0, <1>1, <1>4, <1>5, <1>6, AccountKept

\* A request that takes rows away answers for their objects, or fails to.
LEMMA DeleteAccount ==
    ASSUME AccountInv, NEW d \in Requests, d \notin Uploads,
           \/ d \in Removals /\ (ReadAttachment(d) \/ RemoveRow(d) \/ RemovalFails(d))
           \/ d \in Deletions /\ ReadHomework(d)
           \/ d \in Deletions /\ (ListAttachments(d) \/ DeleteHomework(d) \/ DeletionFails(d))
    PROVE  /\ ObjectsAccounted'
           /\ \A e \in Listed' : objects' \cap rows' \subseteq todo'[e] \cup Accounted'
<1>0. /\ TypeOK /\ objects' = objects /\ rows' \subseteq rows
      /\ lost \subseteq lost' /\ late \subseteq late'
      /\ \A p \in Requests \ {d} : pc'[p] = pc[p] /\ todo'[p] = todo[p]
  BY DEF AccountInv, Inv, TypeOK, ReadAttachment, RemoveRow, RemovalFails, ReadHomework,
         ListAttachments, DeleteHomework, DeletionFails, Go, history
<1>1. Answers(d) = {}
  BY DEF ReadAttachment, RemoveRow, RemovalFails, ReadHomework, ListAttachments,
         DeleteHomework, DeletionFails, Go, Answers
<1>2. \A k \in Accounted : k \in Accounted'
  BY <1>0, <1>1, AnswersSame
<1>3. lost' \cup Answers(d)' \subseteq Accounted'
  BY AnswersCount DEF Accounted
<1>4. \A e \in Listed' : rows' \subseteq todo'[e] \/ (e \in Listed /\ todo'[e] = todo[e])
  <2>1. \A e \in Listed' \ {d} : e \in Listed /\ todo'[e] = todo[e]
    BY <1>0 DEF Listed, Requests
  <2>2. d \in Listed' => rows' \subseteq todo'[d]
    BY <1>0, RequestsAssumption DEF Listed, ReadAttachment, RemoveRow, RemovalFails,
       ReadHomework, ListAttachments, DeleteHomework, DeletionFails, Go, TypeOK, history
  <2> QED BY <2>1, <2>2
<1>5. objects' \cap (rows \ rows') \subseteq Accounted'
  <2>1. CASE ReadAttachment(d) \/ ReadHomework(d) \/ ListAttachments(d)
    BY <2>1 DEF ReadAttachment, ReadHomework, ListAttachments
  <2>2. CASE RemoveRow(d) \/ RemovalFails(d)
    BY <1>0, <1>3, <2>2 DEF RemoveRow, RemovalFails, Go, Answers, TypeOK
  <2>3. CASE d \in Deletions /\ (DeleteHomework(d) \/ DeletionFails(d))
    <3>1. d \in Listed
      BY <2>3 DEF Listed, DeleteHomework, DeletionFails, Go
    <3>2. objects \cap rows \subseteq todo[d] \cup Accounted
      BY <3>1 DEF AccountInv
    <3>3. rows' = rows \/ todo[d] \subseteq lost' \cup Answers(d)'
      BY <1>0, <2>3 DEF DeleteHomework, DeletionFails, Go, Answers, TypeOK
    <3> QED BY <1>0, <1>2, <1>3, <3>2, <3>3
  <2> QED BY <2>1, <2>2, <2>3
<1> QED BY <1>0, <1>2, <1>4, <1>5, AccountKept

\* A key leaves the list of a request when its object is gone or given up.
LEMMA PurgeAccount ==
    ASSUME AccountInv, NEW q \in Requests, PurgeStep(q)
    PROVE  /\ ObjectsAccounted'
           /\ \A d \in Listed' : objects' \cap rows' \subseteq todo'[d] \cup Accounted'
<1>0. /\ TypeOK /\ rows' = rows /\ objects' \subseteq objects
      /\ lost \subseteq lost' /\ late \subseteq late'
      /\ \A p \in Requests \ {q} : pc'[p] = pc[p] /\ todo'[p] = todo[p]
      /\ pc[q] = "purging" /\ pc'[q] # "listed"
  BY DEF AccountInv, Inv, TypeOK, PurgeStep, Purge, PurgeFails, EndPurge, Go, history
<1>1. \A d \in Listed' : d \in Listed /\ todo'[d] = todo[d]
  BY <1>0 DEF Listed, Requests
<1>2. lost' \cup Answers(q)' \subseteq Accounted'
  BY AnswersCount DEF Accounted
<1>3. \A k \in Answers(q) : k \in lost' \cup Answers(q)' \/ k \notin objects'
  BY <1>0 DEF PurgeStep, Purge, PurgeFails, EndPurge, Go, Answers, TypeOK
<1>4. \A k \in Accounted : k \in Accounted' \/ k \notin objects'
  BY <1>0, <1>2, <1>3, AnswersSame
<1> QED BY <1>0, <1>1, <1>4, AccountKept

\* A request that dies has failed to do what it answered for.
LEMMA EndAccount ==
    ASSUME AccountInv, NEW q \in Requests, Reject(q) \/ Crash(q)
    PROVE  /\ ObjectsAccounted'
           /\ \A d \in Listed' : objects' \cap rows' \subseteq todo'[d] \cup Accounted'
<1>0. /\ TypeOK /\ rows' = rows /\ objects' = objects
      /\ lost \subseteq lost' /\ late \subseteq late'
      /\ \A p \in Requests \ {q} : pc'[p] = pc[p] /\ todo'[p] = todo[p]
      /\ pc'[q] = "done"
  BY DEF AccountInv, Inv, TypeOK, Reject, Crash, Go, history
<1>1. \A d \in Listed' : d \in Listed /\ todo'[d] = todo[d]
  BY <1>0 DEF Listed, Requests
<1>2. Answers(q) \subseteq lost'
  BY DEF Reject, Crash, Go, Answers
<1>3. \A k \in Accounted : k \in Accounted'
  BY <1>0, <1>2, AnswersSame DEF Accounted
<1> QED BY <1>0, <1>1, <1>3, AccountKept

\* Every step keeps account of every object.
LEMMA NextAccount == AccountInv /\ [Next]_vars => AccountInv'
<1> SUFFICES ASSUME AccountInv, [Next]_vars PROVE AccountInv'
  OBVIOUS
<1>0. Inv'
  BY NextInv DEF AccountInv
<1>00. \A d \in Removals \cup Deletions : d \in Requests /\ d \notin Uploads
  BY RequestsAssumption DEF Requests
<1>1. CASE \E u \in Uploads : UploadStep(u)
  BY <1>0, <1>1, UploadAccount DEF AccountInv
<1>2. CASE \E d \in Removals : RemovalStep(d)
  BY <1>0, <1>00, <1>2, DeleteAccount, PurgeAccount DEF AccountInv, RemovalStep
<1>3. CASE \E d \in Deletions : DeletionStep(d)
  BY <1>0, <1>00, <1>3, DeleteAccount, PurgeAccount DEF AccountInv, DeletionStep
<1>4. CASE \E q \in Requests : Reject(q) \/ Crash(q)
  BY <1>0, <1>4, EndAccount DEF AccountInv
<1>5. CASE UNCHANGED vars
  BY <1>0, <1>5 DEF vars, history, AccountInv, ObjectsAccounted, Accounted, Answers, Listed
<1> QED BY <1>1, <1>2, <1>3, <1>4, <1>5 DEF Next, Finished

(***************************************************************************)
(* No object is forgotten by the uploads, removals and deletions of a      *)
(* homework: without metadata, without a request under way and without a   *)
(* failure on record it can only have been committed between the listing   *)
(* and the DELETE of a deletion.                                           *)
(***************************************************************************)
THEOREM NothingForgotten == Spec => []ObjectsAccounted
<1>1. Init => AccountInv
  BY InitInv DEF Init, AccountInv, ObjectsAccounted
<1>2. AccountInv => ObjectsAccounted
  BY DEF AccountInv
<1> QED BY <1>1, <1>2, NextAccount, PTL DEF Spec
==============================================================================
