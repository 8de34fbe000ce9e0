------------------------ MODULE HomeworkEditingProofs ------------------------
(***************************************************************************)
(* Theorems about HomeworkEditing and HomeworkHistory for every set of     *)
(* requests, members, texts and dates.                                     *)
(***************************************************************************)
EXTENDS HomeworkHistory, SequenceTheorems, TLAPS

\* A PATCH body laid over a row makes a row.
LEMMA MergeType ==
    ASSUME NEW row \in Values, NEW c \in Changes
    PROVE  Merge(row, c) \in Values
BY DEF Merge, Sent, Values, Changes

\* The end of a transaction concerns its request alone.
LEMMA EndEffect ==
    ASSUME TypeOK, NEW q \in Requests, End(q)
    PROVE  /\ pc'[q] = "done"
           /\ \A p \in Requests : p # q =>
                /\ pc'[p] = pc[p] /\ seen'[p] = seen[p] /\ change'[p] = change[p]
                /\ draft'[p] = draft[p] /\ member'[p] = member[p]
BY DEF TypeOK, End

\* Nothing has happened yet.
LEMMA InitInv == Init => Inv
<1> SUFFICES ASSUME Init PROVE Inv
  OBVIOUS
<1>1. TypeOK
  BY DEF Init, TypeOK, Steps, Live
<1>2. LocksOK /\ UpdatesOK
  BY DEF Init, LocksOK, UpdatesOK, RequestOK
<1>3. DatesKept /\ ChildrenHaveParent /\ TextsExplained
  BY DEF Init, DatesKept, ChildrenHaveParent, TextsExplained, Live
<1>4. EventsFollowLife /\ ((life = "unborn") <=> (events = <<>>))
  BY DEF Init, EventsFollowLife
<1> QED BY <1>1, <1>2, <1>3, <1>4 DEF Inv

-----------------------------------------------------------------------------
(* Types.                                                                   *)

\* A finished request holds nothing.
LEMMA EndType ==
    ASSUME TypeOK, NEW q \in Requests, End(q)
    PROVE  /\ pc' \in [Requests -> Steps]
           /\ seen' \in [Requests -> Values \cup {Unset}]
           /\ change' \in [Requests -> Changes \cup {Unset}]
           /\ draft' \in [Requests -> Revisions \cup {Unset}]
           /\ member' \in [Requests -> Members \cup {Unset}]
BY DEF TypeOK, End, Steps

\* The steps of update keep the types.
LEMMA UpdateType == ASSUME Inv, NEW q \in Requests, UpdateStep(q) PROVE TypeOK'
<1> USE DEF Inv
<1>1. CASE ReadForUpdate(q)
  BY <1>1 DEF TypeOK, ReadForUpdate, Advance, Steps, Live
<1>2. CASE InsertRevision(q)
  <2>1. change[q].text \in Texts /\ seen[q].text \in Texts
    BY <1>2 DEF InsertRevision, Revising, NeedsRevision, UpdatesOK, RequestOK, Changes, Values
  <2>2. draft' \in [Requests -> Revisions \cup {Unset}] /\ inserted' \in Nat
    BY <1>2, <2>1 DEF InsertRevision, TypeOK, Revisions
  <2> QED BY <1>2, <2>2 DEF TypeOK, InsertRevision, Advance, Steps, Live
<1>3. CASE UpdateRow(q)
  <2>1. Merge(homework, change[q]) \in Values
    BY <1>3, MergeType DEF UpdateRow, Writing, AcceptsUpdate, Written, TypeOK, UpdatesOK, RequestOK
  <2> QED BY <1>3, <2>1 DEF TypeOK, UpdateRow, Written, Advance, Steps, Live
<1>4. CASE CommitUpdate(q)
  <2>1. homework' \in Values
    BY <1>4 DEF CommitUpdate, UpdatesOK, RequestOK
  <2>2. revisions' \in SUBSET Revisions
    BY <1>4 DEF CommitUpdate, TypeOK
  <2>3. events' \in Seq({"created", "updated", "deleted"})
    BY <1>4 DEF CommitUpdate, TypeOK
  <2> QED BY <1>4, <2>1, <2>2, <2>3, EndType DEF TypeOK, CommitUpdate, Live
<1> QED BY <1>1, <1>2, <1>3, <1>4 DEF UpdateStep

\* So do all others.
LEMMA OtherType ==
    ASSUME Inv, NEW q \in Requests,
           \/ Create(q) \/ Refuse(q) \/ Reject(q) \/ Rollback(q)
           \/ DeleteStep(q) \/ MarkStep(q)
    PROVE  TypeOK'
<1> USE DEF Inv
<1>1. CASE Create(q)
  <2>1. events' \in Seq({"created", "updated", "deleted"})
    BY <1>1 DEF Create, TypeOK
  <2>2. homework' \in Values /\ original' \in Texts
    BY <1>1 DEF Create, Values
  <2> QED BY <1>1, <2>1, <2>2, EndType DEF TypeOK, Create, Live
<1>2. CASE Refuse(q) \/ Reject(q) \/ Rollback(q)
  BY <1>2, EndType DEF TypeOK, Refuse, Reject, Rollback, Live
<1>3. CASE ReadForDelete(q) \/ DeleteRow(q)
  BY <1>3 DEF TypeOK, ReadForDelete, DeleteRow, Advance, Steps, Live
<1>4. CASE CommitDelete(q)
  <2>1. events' \in Seq({"created", "updated", "deleted"})
    BY <1>4 DEF CommitDelete, TypeOK
  <2> QED BY <1>4, <2>1, EndType DEF TypeOK, CommitDelete, Live
<1>5. CASE ReadForMark(q) \/ Upsert(q)
  BY <1>5 DEF TypeOK, ReadForMark, Upsert, Advance, Steps, Live
<1>6. CASE CommitMark(q) \/ CommitUnmark(q)
  <2>1. completions' \in SUBSET Members
    BY <1>6 DEF CommitMark, CommitUnmark, TypeOK, UpdatesOK, RequestOK
  <2> QED BY <1>6, <2>1, EndType DEF TypeOK, CommitMark, CommitUnmark, Live
<1> QED BY <1>1, <1>2, <1>3, <1>4, <1>5, <1>6 DEF DeleteStep, MarkStep

-----------------------------------------------------------------------------
(* Statements: they change nothing that is committed.                       *)

Committed == <<life, homework, original, revisions, completions, events>>

\* The part of Inv that speaks of committed state only.
History ==
    /\ DatesKept
    /\ ChildrenHaveParent
    /\ TextsExplained
    /\ EventsFollowLife
    /\ (life = "unborn") <=> (events = <<>>)

\* What speaks of committed state holds as long as that does not change.
LEMMA StatementHistory == Inv /\ UNCHANGED Committed => History'
BY DEF Inv, Committed, History, DatesKept, ChildrenHaveParent, TextsExplained, EventsFollowLife,
       Live, Explained

\* A request that ends or has no lock yet disturbs no lock.
LEMMA UnlockedStep ==
    ASSUME Inv, NEW q \in Requests, UNCHANGED life,
           \A p \in Requests : p # q => pc'[p] = pc[p],
           pc'[q] \in Steps \ {"revised", "updated", "deleted", "marked", "missed"},
           pc'[q] = "done" \/ Live
    PROVE  LocksOK'
BY DEF Inv, LocksOK, WriteLocked, KeyShared, Live

\* A request in which nothing but its own variables changes.
LEMMA OthersUpdates ==
    ASSUME Inv, NEW q \in Requests, UNCHANGED Committed,
           \A p \in Requests : p # q =>
               /\ pc'[p] = pc[p] /\ seen'[p] = seen[p] /\ change'[p] = change[p]
               /\ draft'[p] = draft[p] /\ member'[p] = member[p],
           pc'[q] \in {"deleting", "deleted", "missed", "done"}
    PROVE  UpdatesOK'
BY DEF Inv, UpdatesOK, RequestOK, Written, Committed, Explained, Live

\* A request that gives up leaves everything as it was.
LEMMA EndRest ==
    ASSUME Inv, NEW q \in Requests, Refuse(q) \/ Reject(q) \/ Rollback(q)
    PROVE  LocksOK' /\ UpdatesOK' /\ History'
<1>1. End(q) /\ UNCHANGED Committed
  BY DEF Refuse, Reject, Rollback, Committed
<1>2. UNCHANGED life
  BY <1>1 DEF Committed
<1>3. TypeOK
  BY DEF Inv
<1> QED BY <1>1, <1>2, <1>3, EndEffect, UnlockedStep, OthersUpdates, StatementHistory DEF Steps

\* What an update carries is accounted for, from its read to its UPDATE.
LEMMA UpdateStatements ==
    ASSUME Inv, NEW q \in Requests, ReadForUpdate(q) \/ InsertRevision(q) \/ UpdateRow(q)
    PROVE  LocksOK' /\ UpdatesOK' /\ History'
<1> USE DEF Inv
<1>1. UNCHANGED Committed /\ UNCHANGED member
  BY DEF ReadForUpdate, InsertRevision, UpdateRow, Committed
<1>2. \A p \in Requests : p # q =>
         /\ pc'[p] = pc[p] /\ seen'[p] = seen[p] /\ change'[p] = change[p]
         /\ draft'[p] = draft[p]
  BY DEF ReadForUpdate, InsertRevision, UpdateRow, Advance, TypeOK
<1>3. \A p \in Requests : p # q => RequestOK(p)'
  BY <1>1, <1>2 DEF UpdatesOK, RequestOK, Written, Committed, Explained, Live
<1>4. History'
  BY <1>1, StatementHistory
<1>5. CASE ReadForUpdate(q)
  <2>1. /\ pc'[q] = "updating" /\ seen'[q] = homework /\ change'[q] \in Changes
        /\ draft'[q] = draft[q] /\ pc[q] = "new" /\ Live
    BY <1>5 DEF ReadForUpdate, Advance, TypeOK
  <2>2. LocksOK'
    BY <1>1, <1>2, <2>1, UnlockedStep DEF Steps, Committed
  <2>3. homework \in Values /\ homework.text \in Explained
    BY <2>1 DEF TypeOK, TextsExplained
  <2>4. RequestOK(q)'
    BY <1>1, <2>1, <2>3 DEF RequestOK, UpdatesOK, Committed, Explained, Live
  <2> QED BY <1>3, <1>4, <2>2, <2>4 DEF UpdatesOK
<1>6. CASE InsertRevision(q)
  <2>1. /\ pc[q] = "updating" /\ pc'[q] = "revised" /\ Live
        /\ seen'[q] = seen[q] /\ change'[q] = change[q]
        /\ draft'[q] = [old |-> seen[q].text, new |-> change[q].text, at |-> inserted]
    BY <1>6 DEF InsertRevision, Revising, Advance, TypeOK
  <2>2. LocksOK'
    BY <1>1, <1>2, <1>6, <2>1
       DEF InsertRevision, LocksOK, WriteLocked, DeleteLocked, KeyShared, Committed, Live
  <2>3. seen[q] \in Values /\ change[q] \in Changes /\ change[q].text \in Texts
    BY <1>6, <2>1 DEF InsertRevision, Revising, NeedsRevision, UpdatesOK, RequestOK, Changes
  <2>4. draft'[q] \in Revisions
    BY <2>1, <2>3 DEF Revisions, TypeOK, Values
  <2>5. draft'[q] # Unset
    BY <2>4, UnsetAssumption
  <2>6. RequestOK(q)'
    BY <1>1, <2>1, <2>3, <2>4, <2>5 DEF RequestOK, UpdatesOK, Committed, Explained, Live
  <2> QED BY <1>3, <1>4, <2>2, <2>6 DEF UpdatesOK
<1>7. CASE UpdateRow(q)
  <2>1. /\ pc[q] = "revised" \/ (pc[q] = "updating" /\ ~ NeedsRevision(q))
        /\ pc'[q] = "updated" /\ Live /\ ~ WriteLocked(q)
        /\ change'[q] = change[q] /\ draft'[q] = draft[q]
        /\ seen'[q] = Merge(homework, change[q]) /\ DatesInOrder(Merge(homework, change[q]))
    BY <1>7 DEF UpdateRow, Writing, AcceptsUpdate, Written, Advance, TypeOK
  <2>2. LocksOK'
    BY <1>1, <1>2, <2>1 DEF LocksOK, WriteLocked, KeyShared, Committed, Live
  <2>3. Merge(homework, change[q]) \in Values
    BY <2>1, MergeType DEF TypeOK, UpdatesOK, RequestOK
  <2>4. \/ Merge(homework, change[q]).text \in Explained
        \/ draft[q] # Unset /\ Merge(homework, change[q]).text = draft[q].new
    <3>1. CASE change[q].text = Unset
      BY <2>1, <3>1 DEF Merge, Sent, TextsExplained
    <3>2. CASE change[q].text # Unset
      <4>1. Merge(homework, change[q]).text = change[q].text
        BY <3>2 DEF Merge, Sent
      <4>2. CASE pc[q] = "revised"
        BY <4>1, <4>2 DEF UpdatesOK, RequestOK
      <4>3. CASE pc[q] = "updating" /\ ~ NeedsRevision(q)
        BY <2>1, <3>2, <4>1, <4>3 DEF NeedsRevision, UpdatesOK, RequestOK
      <4> QED BY <2>1, <4>2, <4>3
    <3> QED BY <3>1, <3>2
  <2>5. pc'[q] \notin {"new", "updating", "revised", "marking", "marked", "unmarking"}
    BY <2>1
  <2>6. change[q] \in Changes /\ (draft[q] # Unset =>
           /\ draft[q] \in Revisions
           /\ draft[q].old \in Explained
           /\ draft[q].new = change[q].text)
    BY <2>1 DEF UpdatesOK, RequestOK
  <2>7. UNCHANGED Explained
    BY <1>1 DEF Committed, Explained
  <2>8. RequestOK(q)'
    BY <1>1, <2>1, <2>3, <2>4, <2>5, <2>6, <2>7 DEF RequestOK, Written, Committed, DatesInOrder
  <2> QED BY <1>3, <1>4, <2>2, <2>8 DEF UpdatesOK
<1> QED BY <1>5, <1>6, <1>7

\* The statements of a deletion and of a mark take the locks they wait for.
LEMMA OtherStatements ==
    ASSUME Inv, NEW q \in Requests,
           ReadForDelete(q) \/ DeleteRow(q) \/ ReadForMark(q) \/ Upsert(q)
    PROVE  LocksOK' /\ UpdatesOK' /\ History'
<1> USE DEF Inv
<1>1. UNCHANGED Committed /\ UNCHANGED <<seen, change, draft>>
  BY DEF ReadForDelete, DeleteRow, ReadForMark, Upsert, Committed
<1>2. \A p \in Requests : p # q => pc'[p] = pc[p] /\ member'[p] = member[p]
  BY DEF ReadForDelete, DeleteRow, ReadForMark, Upsert, Advance, TypeOK
<1>3. \A p \in Requests : p # q => RequestOK(p)'
  BY <1>1, <1>2 DEF UpdatesOK, RequestOK, Written, Committed, Explained, Live
<1>4. History'
  BY <1>1, StatementHistory
<1>5. CASE ReadForDelete(q)
  <2>1. pc'[q] = "deleting" /\ Live
    BY <1>5 DEF ReadForDelete, Advance, TypeOK
  <2>2. LocksOK'
    BY <1>1, <1>2, <2>1, UnlockedStep DEF Steps, Committed
  <2>3. RequestOK(q)'
    BY <2>1 DEF RequestOK
  <2> QED BY <1>3, <1>4, <2>2, <2>3 DEF UpdatesOK
<1>6. CASE DeleteRow(q)
  <2>1. /\ pc[q] = "deleting" /\ ~ WriteLocked(q) /\ ~ KeyShared(q)
        /\ pc'[q] = IF Live THEN "deleted" ELSE "missed"
    BY <1>6 DEF DeleteRow, Advance, TypeOK
  <2>2. Live \/ life = "gone"
    BY <2>1 DEF LocksOK, Live, TypeOK
  <2>3. LocksOK'
    BY <1>1, <1>2, <2>1, <2>2 DEF LocksOK, WriteLocked, KeyShared, Committed, Live
  <2>4. RequestOK(q)'
    BY <2>1 DEF RequestOK
  <2> QED BY <1>3, <1>4, <2>3, <2>4 DEF UpdatesOK
<1>7. CASE ReadForMark(q)
  <2>1. pc'[q] \in {"marking", "unmarking"} /\ member'[q] \in Members /\ Live
    BY <1>7 DEF ReadForMark, Advance, TypeOK
  <2>2. LocksOK'
    BY <1>1, <1>2, <2>1, UnlockedStep DEF Steps, Committed
  <2>3. RequestOK(q)'
    BY <2>1 DEF RequestOK
  <2> QED BY <1>3, <1>4, <2>2, <2>3 DEF UpdatesOK
<1>8. CASE Upsert(q)
  <2>1. /\ pc[q] = "marking" /\ ~ DeleteLocked(q) /\ Live
        /\ pc'[q] = "marked" /\ member'[q] = member[q]
    BY <1>8 DEF Upsert, Advance, TypeOK
  <2>2. LocksOK'
    BY <1>1, <1>2, <2>1
       DEF LocksOK, WriteLocked, DeleteLocked, KeyShared, Committed, Live
  <2>3. RequestOK(q)'
    BY <2>1 DEF UpdatesOK, RequestOK
  <2> QED BY <1>3, <1>4, <2>2, <2>3 DEF UpdatesOK
<1> QED BY <1>5, <1>6, <1>7, <1>8

-----------------------------------------------------------------------------
(* Commits.                                                                 *)

\* An update of the living, or one more deletion, keeps the events in order.
LEMMA AppendedEvent ==
    ASSUME Inv, life # "unborn", NEW event \in {"updated", "deleted"},
           events' = Append(events, event),
           event = "updated" => life = "live" /\ life' = "live",
           event = "deleted" => life' = "gone"
    PROVE  EventsFollowLife' /\ ((life' = "unborn") <=> (events' = <<>>))
<1>1. events \in Seq({"created", "updated", "deleted"}) /\ events # <<>> /\ EventsFollowLife
  BY DEF Inv, TypeOK
<1>2. Len(events) \in Nat /\ Len(events) >= 1
  BY <1>1, EmptySeq
<1>3. /\ Len(events') = Len(events) + 1
      /\ events'[Len(events) + 1] = event
      /\ \A i \in 1..Len(events) : events'[i] = events[i]
  BY <1>1
<1>4. \A i \in 1..Len(events') : i \in 1..Len(events) \/ i = Len(events) + 1
  BY <1>2, <1>3
<1>5. \A i \in 1..Len(events') : (events'[i] = "created") <=> (i = 1)
  BY <1>1, <1>2, <1>3, <1>4 DEF EventsFollowLife
<1>6. CASE event = "updated"
  <2>1. \A i \in 1..Len(events') : events'[i] # "deleted"
    BY <1>1, <1>3, <1>4, <1>6 DEF EventsFollowLife
  <2> QED BY <1>2, <1>3, <1>5, <1>6, <2>1 DEF EventsFollowLife
<1>7. CASE event = "deleted"
  <2>1. \A i, j \in 1..Len(events') :
           i < j /\ events'[i] = "deleted" => events'[j] = "deleted"
    BY <1>1, <1>2, <1>3, <1>4, <1>7 DEF EventsFollowLife
  <2> QED BY <1>2, <1>3, <1>5, <1>7, <2>1 DEF EventsFollowLife
<1> QED BY <1>6, <1>7

\* Nobody is under way on a homework that has not been created.
LEMMA CreateCommit ==
    ASSUME Inv, NEW q \in Requests, Create(q)
    PROVE  LocksOK' /\ UpdatesOK' /\ History'
<1> USE DEF Inv
<1>1. /\ life = "unborn" /\ Live' /\ homework' \in Values /\ DatesInOrder(homework')
      /\ original' = homework'.text /\ events' = Append(events, "created")
      /\ UNCHANGED <<revisions, completions>>
  BY DEF Create, Live
<1>2. pc'[q] = "done" /\ \A p \in Requests : p # q => pc'[p] = pc[p]
  BY EndEffect DEF Create
<1>3. \A p \in Requests : pc[p] \in {"new", "done"}
  BY <1>1 DEF LocksOK
<1>4. \A p \in Requests : pc'[p] \in {"new", "done"}
  BY <1>2, <1>3
<1>5. \A p \in Requests : pc'[p] = "new" => draft'[p] = Unset
  <2>1. \A p \in Requests : p # q => draft'[p] = draft[p]
    BY EndEffect DEF Create
  <2> QED BY <1>2, <2>1 DEF UpdatesOK, RequestOK
<1>6. LocksOK' /\ UpdatesOK'
  BY <1>4, <1>5 DEF LocksOK, UpdatesOK, RequestOK
<1>7. revisions = {} /\ completions = {}
  BY <1>1 DEF ChildrenHaveParent, Live
<1>8. DatesKept' /\ ChildrenHaveParent' /\ TextsExplained'
  BY <1>1, <1>7 DEF DatesKept, DatesInOrder, ChildrenHaveParent, TextsExplained, Explained
<1>9. events' = <<"created">>
  BY <1>1
<1>10. EventsFollowLife' /\ ((life' = "unborn") <=> (events' = <<>>))
  BY <1>1, <1>9 DEF EventsFollowLife, Live
<1> QED BY <1>6, <1>8, <1>10 DEF History

\* An update brings its text and, with a revision, the explanation.
LEMMA UpdateCommit ==
    ASSUME Inv, NEW q \in Requests, CommitUpdate(q)
    PROVE  LocksOK' /\ UpdatesOK' /\ History'
<1> USE DEF Inv
<1>1. /\ pc[q] = "updated" /\ homework' = seen[q] /\ events' = Append(events, "updated")
      /\ revisions' = revisions \cup ({draft[q]} \ {Unset})
      /\ UNCHANGED <<life, original, completions>>
  BY DEF CommitUpdate
<1>2. pc'[q] = "done" /\ \A p \in Requests : p # q =>
         /\ pc'[p] = pc[p] /\ seen'[p] = seen[p] /\ change'[p] = change[p]
         /\ draft'[p] = draft[p] /\ member'[p] = member[p]
  BY EndEffect DEF CommitUpdate
<1>3. Live
  BY <1>1 DEF LocksOK
<1>4. LocksOK'
  BY <1>1, <1>2, UnlockedStep DEF Steps
<1>5. Explained \subseteq Explained'
  BY <1>1 DEF Explained
<1>6. UpdatesOK'
  <2>1. \A p \in Requests : p # q => pc[p] # "updated"
    BY <1>1 DEF LocksOK, WriteLocked
  <2>2. \A p \in Requests : p # q => RequestOK(p)'
    BY <1>1, <1>2, <1>5, <2>1 DEF UpdatesOK, RequestOK, Live, DatesInOrder
  <2>3. RequestOK(q)'
    BY <1>2 DEF RequestOK
  <2> QED BY <2>2, <2>3 DEF UpdatesOK
<1>7. DatesKept' /\ ChildrenHaveParent'
  BY <1>1, <1>3 DEF UpdatesOK, RequestOK, DatesKept, DatesInOrder, ChildrenHaveParent, Live
<1>8. TextsExplained'
  <2>1. homework'.text \in Explained'
    BY <1>1, <1>5 DEF UpdatesOK, RequestOK, Explained
  <2>2. \A rev \in revisions' : rev.old \in Explained'
    BY <1>1, <1>3, <1>5 DEF UpdatesOK, RequestOK, TextsExplained
  <2> QED BY <2>1, <2>2 DEF TextsExplained
<1>9. EventsFollowLife' /\ ((life' = "unborn") <=> (events' = <<>>))
  BY <1>1, <1>3, AppendedEvent DEF Live
<1> QED BY <1>4, <1>6, <1>7, <1>8, <1>9 DEF History

\* The DELETE had the row to itself, or found it gone.
LEMMA DeleteCommit ==
    ASSUME Inv, NEW q \in Requests, CommitDelete(q)
    PROVE  LocksOK' /\ UpdatesOK' /\ History'
<1> USE DEF Inv
<1>1. /\ pc[q] \in {"deleted", "missed"} /\ life' = "gone"
      /\ revisions' = {} /\ completions' = {} /\ events' = Append(events, "deleted")
  BY DEF CommitDelete
<1>2. pc'[q] = "done" /\ \A p \in Requests : p # q =>
         /\ pc'[p] = pc[p] /\ seen'[p] = seen[p] /\ change'[p] = change[p]
         /\ draft'[p] = draft[p] /\ member'[p] = member[p]
  BY EndEffect DEF CommitDelete
<1>3. \A p \in Requests : p # q => pc[p] \notin {"revised", "updated", "deleted", "marked"}
  <2>1. CASE pc[q] = "deleted"
    BY <2>1 DEF LocksOK, WriteLocked, KeyShared
  <2>2. CASE pc[q] = "missed"
    BY <2>2 DEF LocksOK, Live
  <2> QED BY <1>1, <2>1, <2>2
<1>4. LocksOK'
  BY <1>1, <1>2, <1>3 DEF LocksOK, WriteLocked, KeyShared
<1>5. UpdatesOK'
  BY <1>1, <1>2, <1>3 DEF UpdatesOK, RequestOK, Live
<1>6. DatesKept' /\ ChildrenHaveParent' /\ TextsExplained'
  BY <1>1 DEF DatesKept, ChildrenHaveParent, TextsExplained, Live
<1>7. life # "unborn"
  BY <1>1 DEF LocksOK
<1>8. EventsFollowLife' /\ ((life' = "unborn") <=> (events' = <<>>))
  BY <1>1, <1>7, AppendedEvent
<1> QED BY <1>4, <1>5, <1>6, <1>8 DEF History

\* Marks touch completions only, and hold the homework in place.
LEMMA MarkCommit ==
    ASSUME Inv, NEW q \in Requests, CommitMark(q) \/ CommitUnmark(q)
    PROVE  LocksOK' /\ UpdatesOK' /\ History'
<1> USE DEF Inv
<1>1. UNCHANGED <<life, homework, original, revisions, events>>
  BY DEF CommitMark, CommitUnmark
<1>2. pc'[q] = "done" /\ \A p \in Requests : p # q =>
         /\ pc'[p] = pc[p] /\ seen'[p] = seen[p] /\ change'[p] = change[p]
         /\ draft'[p] = draft[p] /\ member'[p] = member[p]
  BY EndEffect DEF CommitMark, CommitUnmark
<1>3. LocksOK'
  BY <1>1, <1>2, UnlockedStep DEF Steps
<1>4. UpdatesOK'
  BY <1>1, <1>2 DEF UpdatesOK, RequestOK, Written, Explained, Live
<1>5. ChildrenHaveParent'
  <2>1. CASE CommitMark(q)
    BY <1>1, <2>1 DEF CommitMark, LocksOK, ChildrenHaveParent, Live
  <2>2. CASE CommitUnmark(q)
    BY <1>1, <2>2 DEF CommitUnmark, ChildrenHaveParent, Live
  <2> QED BY <2>1, <2>2
<1>6. DatesKept' /\ TextsExplained' /\ EventsFollowLife' /\ ((life' = "unborn") <=> (events' = <<>>))
  BY <1>1 DEF DatesKept, TextsExplained, EventsFollowLife, Explained, Live
<1> QED BY <1>3, <1>4, <1>5, <1>6 DEF History

-----------------------------------------------------------------------------
(* The theorems.                                                            *)

\* Every step keeps the invariant.
LEMMA NextInv == Inv /\ [Next]_vars => Inv'
<1> SUFFICES ASSUME Inv, [Next]_vars PROVE Inv'
  OBVIOUS
<1>1. ASSUME NEW q \in Requests, UpdateStep(q) PROVE Inv'
  BY <1>1, UpdateType, UpdateStatements, UpdateCommit DEF UpdateStep, Inv, History
<1>2. ASSUME NEW q \in Requests, DeleteStep(q) PROVE Inv'
  BY <1>2, OtherType, OtherStatements, DeleteCommit DEF DeleteStep, Inv, History
<1>3. ASSUME NEW q \in Requests, MarkStep(q) PROVE Inv'
  BY <1>3, OtherType, OtherStatements, MarkCommit DEF MarkStep, Inv, History
<1>4. ASSUME NEW q \in Requests, Create(q) PROVE Inv'
  BY <1>4, OtherType, CreateCommit DEF Inv, History
<1>5. ASSUME NEW q \in Requests, Refuse(q) \/ Reject(q) \/ Rollback(q) PROVE Inv'
  BY <1>5, OtherType, EndRest DEF Inv, History
<1>6. CASE UNCHANGED vars
  BY <1>6 DEF Inv, vars, requestVars, TypeOK, LocksOK, UpdatesOK, RequestOK, Written, DatesKept,
              ChildrenHaveParent, TextsExplained, EventsFollowLife, WriteLocked, KeyShared,
              Explained, Live
<1> QED BY <1>1, <1>2, <1>3, <1>4, <1>5, <1>6 DEF Next, Progress, Finished

(***************************************************************************)
(* The inductive invariant holds: the locks exclude what they should, and  *)
(* what every request under way carries is accounted for by the history.   *)
(***************************************************************************)
THEOREM Invariance == Spec => []Inv
BY InitInv, NextInv, PTL DEF Spec

(***************************************************************************)
(* Every variable keeps its type: no text, date or revision is ever the    *)
(* marker of a field that the PATCH body leaves out.                       *)
(***************************************************************************)
THEOREM TypeCorrectness == Spec => []TypeOK
<1>1. Inv => TypeOK
  BY DEF Inv
<1> QED BY <1>1, Invariance, PTL

(***************************************************************************)
(* A homework is never due before it is assigned, whatever partial updates *)
(* overlap.                                                                *)
(***************************************************************************)
THEOREM DatesStayInOrder == Spec => []DatesKept
<1>1. Inv => DatesKept
  BY DEF Inv
<1> QED BY <1>1, Invariance, PTL

(***************************************************************************)
(* No revision or completion outlives its homework: inserts and the DELETE *)
(* exclude each other, and the cascade takes what came first.              *)
(***************************************************************************)
THEOREM NoOrphanChildren == Spec => []ChildrenHaveParent
<1>1. Inv => ChildrenHaveParent
  BY DEF Inv
<1> QED BY <1>1, Invariance, PTL

(***************************************************************************)
(* The current text and the text each revision started from are the        *)
(* original text or the outcome of a kept revision, however many updates   *)
(* overlap.                                                                *)
(***************************************************************************)
THEOREM HistoryExplainsTexts == Spec => []TextsExplained
<1>1. Inv => TextsExplained
  BY DEF Inv
<1> QED BY <1>1, Invariance, PTL

(***************************************************************************)
(* The events recorded for a homework begin with its creation, contain no  *)
(* update after a deletion, and a deletion exactly when the row is gone.   *)
(***************************************************************************)
THEOREM EventsTellTheLife == Spec => []EventsFollowLife
<1>1. Inv => EventsFollowLife
  BY DEF Inv
<1> QED BY <1>1, Invariance, PTL

(***************************************************************************)
(* However many updates, deletions and marks are under way, one of them is *)
(* not waiting: an update with its revision inserted waits only for those  *)
(* that have written, and these wait for nobody.                           *)
(***************************************************************************)
THEOREM NobodyEverStuck == Spec => []NobodyStuck
<1>1. TypeOK => NobodyStuck
  <2> SUFFICES ASSUME TypeOK, NEW q \in Requests, pc[q] \notin {"new", "done"},
                      \A p \in Requests : ~ Answered(p)
               PROVE  FALSE
    BY DEF NobodyStuck
  <2>1. \A p \in Requests : pc[p] \notin {"updated", "deleted", "missed", "marked", "unmarking"}
    BY DEF Answered
  <2>2. \A p \in Requests : ~ WriteLocked(p) /\ ~ DeleteLocked(p) /\ MarksAlone(p)
    BY <2>1 DEF WriteLocked, DeleteLocked, MarksAlone
  <2>3. \A p \in Requests : pc[p] # "revised"
    BY <2>2 DEF Answered, Writing
  <2>4. ~ KeyShared(q)
    BY <2>1, <2>3 DEF KeyShared
  <2>5. pc[q] \in {"updating", "deleting", "marking"}
    BY <2>1, <2>3 DEF TypeOK, Steps
  <2> QED BY <2>2, <2>4, <2>5 DEF Answered, Revising, Writing
<1> QED BY <1>1, TypeCorrectness, PTL

-----------------------------------------------------------------------------
(* The history as a chain.                                                  *)

\* No update is under way, and nothing has been revised.
LEMMA ChainInit == InitWithHistory => HistoryInv
<1> SUFFICES ASSUME InitWithHistory PROVE HistoryInv
  OBVIOUS
<1>1. Inv
  BY InitInv DEF InitWithHistory
<1>2. Updating = {} /\ revisions = {} /\ ~ Live
  BY DEF InitWithHistory, Init, Updating, Live
<1>3. StampsOK /\ Alone /\ HistoryIsChain
  BY <1>2 DEF StampsOK, Alone, HistoryIsChain
<1> QED BY <1>1, <1>2, <1>3 DEF HistoryInv, ChainOK

\* Updates that have not overlapped before a step, or do not after it, are one.
LEMMA AloneStep == HistoryInv /\ NextWithHistory /\ ~ overlapped' => Alone /\ Alone' /\ ~ overlapped
BY DEF HistoryInv, ChainOK, NextWithHistory

\* A chain stays one as long as nothing of it is changed.
LEMMA ChainKept ==
    ASSUME HistoryIsChain, UNCHANGED <<life, homework, original, revisions>>,
           ~ overlapped' => ~ overlapped
    PROVE  HistoryIsChain'
<1>1. \A revs : TextAfter(revs)' = TextAfter(revs)
  BY DEF TextAfter
<1> QED BY <1>1 DEF HistoryIsChain, Live

\* A step of a request that updates nothing, or gives up.
LEMMA ChainFrame ==
    ASSUME HistoryInv, NextWithHistory, NEW q \in Requests,
           UNCHANGED <<life, homework, original, revisions, inserted>>,
           \A p \in Requests : p # q => pc'[p] = pc[p] /\ seen'[p] = seen[p] /\ draft'[p] = draft[p],
           pc'[q] \notin {"updating", "revised", "updated"}
    PROVE  ChainOK'
<1>1. \A p \in Updating' : p \in Updating /\ pc'[p] = pc[p] /\ seen'[p] = seen[p] /\ draft'[p] = draft[p]
  BY DEF Updating
<1>2. StampsOK'
  BY <1>1 DEF HistoryInv, ChainOK, StampsOK
<1>3. ~ overlapped' => Alone' /\ ~ overlapped
  BY AloneStep
<1>4. Live' /\ ~ overlapped' => \A p \in Updating' : UpToDate(p)'
  BY <1>1, <1>3 DEF HistoryInv, ChainOK, UpToDate, Live
<1>5. HistoryIsChain'
  BY <1>3, ChainKept DEF HistoryInv, ChainOK
<1> QED BY <1>2, <1>3, <1>4, <1>5 DEF ChainOK

\* Everything but the steps of an update.
LEMMA OtherChain ==
    ASSUME HistoryInv, NextWithHistory, NEW q \in Requests,
           \/ Create(q) \/ Refuse(q) \/ Reject(q) \/ Rollback(q) \/ DeleteStep(q) \/ MarkStep(q)
    PROVE  ChainOK'
<1> USE DEF HistoryInv
<1>0. TypeOK
  BY DEF Inv
<1>1. CASE Create(q)
  <2>1. \A p \in Requests : pc'[p] \in {"new", "done"}
    BY <1>0, <1>1, EndEffect DEF Create, Inv, LocksOK
  <2>2. Updating' = {}
    BY <2>1 DEF Updating
  <2>3. revisions' = {} /\ homework'.text = original'
    BY <1>1 DEF Create, Inv, ChildrenHaveParent, Live
  <2>4. HistoryIsChain'
    BY <2>3 DEF HistoryIsChain, TextAfter
  <2> QED BY <2>2, <2>3, <2>4 DEF ChainOK, StampsOK, Alone
<1>2. CASE Refuse(q) \/ Reject(q) \/ Rollback(q) \/ CommitMark(q) \/ CommitUnmark(q)
  <2>1. End(q) /\ UNCHANGED <<life, homework, original, revisions, inserted>>
    BY <1>2 DEF Refuse, Reject, Rollback, CommitMark, CommitUnmark
  <2> QED BY <1>0, <2>1, EndEffect, ChainFrame
<1>3. CASE ReadForDelete(q) \/ DeleteRow(q) \/ ReadForMark(q) \/ Upsert(q)
  <2>1. /\ UNCHANGED <<life, homework, original, revisions, inserted, seen, draft>>
        /\ pc'[q] \notin {"updating", "revised", "updated"}
        /\ \A p \in Requests : p # q => pc'[p] = pc[p]
    BY <1>0, <1>3 DEF ReadForDelete, DeleteRow, ReadForMark, Upsert, Advance, TypeOK
  <2> QED BY <2>1, ChainFrame
<1>4. CASE CommitDelete(q)
  <2>1. /\ revisions' = {} /\ ~ Live' /\ UNCHANGED inserted
        /\ \A p \in Updating' : p \in Updating /\ draft'[p] = draft[p]
    BY <1>0, <1>4, EndEffect DEF CommitDelete, Live, Updating
  <2>2. StampsOK'
    BY <2>1 DEF ChainOK, StampsOK
  <2> QED BY <2>1, <2>2, AloneStep DEF ChainOK, HistoryIsChain
<1> QED BY <1>1, <1>2, <1>3, <1>4 DEF DeleteStep, MarkStep

\* What holds of an update alone is all there is to show of its steps.
LEMMA UpdateFrame ==
    ASSUME HistoryInv, NextWithHistory, NEW q \in Requests, q \in Updating',
           UNCHANGED <<life, homework, original, revisions>>, StampsOK',
           Live /\ ~ overlapped /\ (q \in Updating => UpToDate(q)) => UpToDate(q)'
    PROVE  ChainOK'
<1>1. ~ overlapped' => Alone' /\ ~ overlapped
  BY AloneStep
<1>2. ~ overlapped' => Updating' = {q}
  BY <1>1 DEF Alone
<1>3. Live' /\ ~ overlapped' => \A p \in Updating' : UpToDate(p)'
  BY <1>1, <1>2 DEF HistoryInv, ChainOK, Live
<1>4. HistoryIsChain'
  BY <1>1, ChainKept DEF HistoryInv, ChainOK
<1> QED BY <1>1, <1>3, <1>4 DEF ChainOK

\* An update reads the row, inserts its revision, writes.
LEMMA UpdateChain ==
    ASSUME HistoryInv, NextWithHistory, NEW q \in Requests,
           ReadForUpdate(q) \/ InsertRevision(q) \/ UpdateRow(q)
    PROVE  ChainOK'
<1> USE DEF HistoryInv
<1>0. TypeOK /\ RequestOK(q) /\ StampsOK
  BY DEF Inv, UpdatesOK, ChainOK
<1>1. /\ UNCHANGED <<life, homework, original, revisions>>
      /\ \A p \in Requests : p # q => pc'[p] = pc[p] /\ draft'[p] = draft[p]
      /\ pc'[q] \in {"updating", "revised", "updated"}
  BY <1>0 DEF ReadForUpdate, InsertRevision, UpdateRow, Advance, TypeOK
<1>2. q \in Updating' /\ \A p \in Updating' : p # q => p \in Updating /\ draft'[p] = draft[p]
  BY <1>1 DEF Updating
<1>3. CASE ReadForUpdate(q)
  <2>1. pc'[q] = "updating" /\ seen'[q] = homework /\ draft'[q] = Unset /\ UNCHANGED inserted
    BY <1>0, <1>3 DEF ReadForUpdate, Advance, TypeOK, RequestOK
  <2>2. StampsOK'
    BY <1>0, <1>1, <1>2, <2>1 DEF StampsOK
  <2>3. UpToDate(q)'
    BY <1>1, <2>1 DEF UpToDate
  <2> QED BY <1>1, <1>2, <2>2, <2>3, UpdateFrame
<1>4. CASE InsertRevision(q)
  <2>1. /\ pc[q] = "updating" /\ pc'[q] = "revised" /\ seen'[q] = seen[q] /\ q \in Updating
        /\ draft'[q] = [old |-> seen[q].text, new |-> change[q].text, at |-> inserted]
        /\ inserted' = inserted + 1 /\ inserted \in Nat
    BY <1>0, <1>4 DEF InsertRevision, Revising, Advance, TypeOK, Updating
  <2>2. \A rev \in revisions : rev.at \in Nat
    BY <1>0 DEF TypeOK, Revisions
  <2>3. \A p \in Updating : draft[p] # Unset => draft[p].at \in Nat
    BY <1>0 DEF TypeOK, Revisions, Updating
  <2>4. StampsOK'
    BY <1>0, <1>1, <1>2, <2>1, <2>2, <2>3 DEF StampsOK
  <2>5. UpToDate(q) => UpToDate(q)'
    BY <1>0, <1>1, <2>1 DEF UpToDate, StampsOK
  <2> QED BY <1>1, <1>2, <2>1, <2>4, <2>5, UpdateFrame
<1>5. CASE UpdateRow(q)
  <2>1. /\ pc[q] \in {"updating", "revised"} /\ (pc[q] = "updating" => ~ NeedsRevision(q))
        /\ pc'[q] = "updated" /\ seen'[q].text = Sent(change[q].text, homework.text)
        /\ UNCHANGED <<draft, inserted>>
    BY <1>0, <1>5 DEF UpdateRow, Writing, Written, Advance, TypeOK, Updating, Merge
  <2>2. q \in Updating
    BY <2>1 DEF Updating
  <2>3. StampsOK'
    BY <1>0, <1>1, <1>2, <2>1, <2>2 DEF StampsOK
  <2>4. ASSUME UpToDate(q)
        PROVE  seen'[q].text = IF draft[q] = Unset THEN homework.text ELSE draft[q].new
    <3>1. CASE pc[q] = "revised"
      <4>1. draft[q] # Unset /\ draft[q].new = change[q].text /\ draft[q].new \in Texts
        BY <1>0, <3>1 DEF RequestOK, Revisions
      <4> QED BY <2>1, <4>1, UnsetAssumption DEF Sent
    <3>2. CASE pc[q] = "updating" /\ ~ NeedsRevision(q)
      BY <1>0, <2>1, <2>4, <3>2 DEF RequestOK, NeedsRevision, UpToDate, Sent
    <3> QED BY <2>1, <3>1, <3>2
  <2>5. UpToDate(q) => UpToDate(q)'
    BY <1>1, <2>1, <2>4 DEF UpToDate
  <2> QED BY <1>1, <1>2, <2>2, <2>3, <2>5, UpdateFrame
<1> QED BY <1>3, <1>4, <1>5

\* The text after a revision that is later than all others.
LEMMA LatestIsLast ==
    ASSUME NEW revs \in SUBSET Revisions, NEW last \in Revisions, \A rev \in revs : rev.at < last.at
    PROVE  TextAfter(revs \cup {last}) = last.new
<1> DEFINE all == revs \cup {last}
<1>1. \A rev \in all : rev.at \in Nat
  BY DEF Revisions
<1>2. last \in all /\ \A rev \in all : rev.at <= last.at
  BY <1>1
<1>3. \A rev \in all : (\A other \in all : other.at <= rev.at) => rev = last
  BY <1>1, <1>2
<1>4. Latest(all) = last
  BY <1>2, <1>3 DEF Latest
<1> QED BY <1>2, <1>4 DEF TextAfter

\* The commit of an update that was alone appends its revision to the chain.
LEMMA CommitChain ==
    ASSUME HistoryInv, NextWithHistory, NEW q \in Requests, CommitUpdate(q)
    PROVE  ChainOK'
<1> USE DEF HistoryInv
<1>0. TypeOK /\ RequestOK(q) /\ StampsOK /\ Live
  BY DEF Inv, UpdatesOK, ChainOK, LocksOK, CommitUpdate
<1>1. /\ pc[q] = "updated" /\ homework' = seen[q] /\ UNCHANGED <<life, original, inserted>>
      /\ revisions' = revisions \cup ({draft[q]} \ {Unset}) /\ q \in Updating
  BY DEF CommitUpdate, Updating
<1>2. \A p \in Updating' : p \in Updating /\ p # q /\ draft'[p] = draft[p]
  BY <1>0, EndEffect DEF CommitUpdate, Updating
<1>3. StampsOK'
  BY <1>0, <1>1, <1>2 DEF StampsOK
<1>4. ~ overlapped' => Alone' /\ Alone /\ ~ overlapped
  BY AloneStep
<1>5. ~ overlapped' => Updating' = {}
  BY <1>1, <1>2, <1>4 DEF Alone
<1>6. ASSUME ~ overlapped' PROVE HistoryIsChain'
  <2>1. UpToDate(q) /\ HistoryIsChain /\ ~ overlapped
    BY <1>0, <1>1, <1>4, <1>6 DEF ChainOK
  <2>2. /\ homework.text = TextAfter(revisions)
        /\ \A rev \in revisions :
             rev.old = TextAfter({earlier \in revisions : earlier.at < rev.at})
    BY <1>0, <2>1 DEF HistoryIsChain
  <2>3. CASE draft[q] = Unset
    <3>1. revisions' = revisions /\ homework'.text = homework.text /\ original' = original
      BY <1>1, <2>1, <2>3 DEF UpToDate
    <3> QED BY <2>2, <3>1 DEF HistoryIsChain, TextAfter, Latest
  <2>4. CASE draft[q] # Unset
    <3> DEFINE d == draft[q]
    <3>1. /\ d \in Revisions /\ revisions \in SUBSET Revisions /\ revisions' = revisions \cup {d}
          /\ homework'.text = d.new /\ d.old = homework.text
          /\ \A rev \in revisions : rev.at < d.at
      BY <1>0, <1>1, <2>1, <2>4 DEF UpToDate, RequestOK, TypeOK
    <3> HIDE DEF d
    <3>2. \A revs : TextAfter(revs)' = TextAfter(revs)
      BY <1>1 DEF TextAfter
    <3>3. homework'.text = TextAfter(revisions')
      BY <3>1, LatestIsLast
    <3>4. \A rev \in revisions \cup {d} : rev.at \in Nat
      BY <3>1 DEF Revisions
    <3>5. {earlier \in revisions' : earlier.at < d.at} = revisions
      BY <3>1, <3>4
    <3>6. \A rev \in revisions :
             {earlier \in revisions' : earlier.at < rev.at} = {earlier \in revisions : earlier.at < rev.at}
      BY <3>1, <3>4
    <3>7. \A rev \in revisions' :
             rev.old = TextAfter({earlier \in revisions' : earlier.at < rev.at})
      BY <2>2, <3>1, <3>5, <3>6
    <3> QED BY <3>3, <3>7, <1>1 DEF HistoryIsChain, TextAfter
  <2> QED BY <2>3, <2>4
<1> QED BY <1>3, <1>4, <1>5, <1>6 DEF ChainOK, HistoryIsChain

\* Every step keeps the chain.
LEMMA ChainNext == HistoryInv /\ [NextWithHistory]_<<vars, overlapped>> => HistoryInv'
<1> SUFFICES ASSUME HistoryInv, [NextWithHistory]_<<vars, overlapped>> PROVE HistoryInv'
  OBVIOUS
<1>1. Inv'
  BY NextInv DEF HistoryInv, NextWithHistory
<1>2. ASSUME UNCHANGED vars, ~ overlapped' => ~ overlapped PROVE ChainOK'
  <2>1. UNCHANGED <<life, homework, original, revisions, inserted, pc, seen, draft>>
    BY <1>2 DEF vars, requestVars
  <2>2. UNCHANGED Updating
    BY <2>1 DEF Updating
  <2>3. StampsOK' /\ UNCHANGED Alone
    BY <2>1, <2>2 DEF HistoryInv, ChainOK, StampsOK, Alone
  <2>4. HistoryIsChain'
    BY <1>2, <2>1, <2>3, ChainKept DEF HistoryInv, ChainOK
  <2>5. \A p \in Updating : UpToDate(p) => UpToDate(p)'
    BY <2>1 DEF UpToDate
  <2> QED BY <1>2, <2>1, <2>2, <2>3, <2>4, <2>5 DEF HistoryInv, ChainOK, Live
<1>3. CASE UNCHANGED <<vars, overlapped>>
  BY <1>1, <1>2, <1>3 DEF HistoryInv
<1>4. CASE NextWithHistory
  BY <1>1, <1>2, <1>4, OtherChain, UpdateChain, CommitChain
     DEF NextWithHistory, Next, Progress, UpdateStep, Finished, HistoryInv
<1> QED BY <1>3, <1>4

(***************************************************************************)
(* As long as no two updates overlap, the history of a homework is a chain *)
(* from its original text to the current one, whatever deletions and marks *)
(* do meanwhile and whatever requests fail.                                *)
(***************************************************************************)
THEOREM HistoryStaysChain == SpecWithHistory => []HistoryIsChain
<1>1. HistoryInv => HistoryIsChain
  BY DEF HistoryInv, ChainOK
<1> QED BY <1>1, ChainInit, ChainNext, PTL DEF SpecWithHistory

-----------------------------------------------------------------------------
(* The requests implement HomeworkLife: a commit applies what was asked,    *)
(* and the statements before it stutter.                                    *)

\* What HomeworkLife makes of rows and patches is what the requests make.
LEMMA SameValues ==
    /\ Promise!Values = Values
    /\ Promise!Changes = Changes
    /\ \A row : Promise!DatesInOrder(row) <=> DatesInOrder(row)
    /\ \A row, c : Promise!Merge(row, c) = Merge(row, c)
    /\ Promise!Known = Explained
BY DEF Promise!Values, Values, Promise!Changes, Changes, Promise!DatesInOrder, DatesInOrder,
       Promise!Merge, Merge, Promise!Sent, Sent, Promise!Known, Explained

\* Nobody asks for anything yet.
LEMMA InitLife == Init => Promise!Init
BY DEF Init, Promise!Init, Asked, Order

\* A step of q leaves what the others ask for.
LEMMA OneAsks ==
    ASSUME NEW q \in Requests,
           \A p \in Requests : p # q =>
               pc'[p] = pc[p] /\ change'[p] = change[p] /\ member'[p] = member[p]
    PROVE  /\ Asked' = [Asked EXCEPT ![q] = Order(q)']
           /\ Asked[q] = Order(q) /\ Asked'[q] = Order(q)'
<1>1. \A p \in Requests : p # q => Order(p)' = Order(p)
  BY DEF Order
<1> QED BY <1>1 DEF Asked

\* The first read of a request is when it asks.
LEMMA ReadAsks ==
    ASSUME Inv, NEW q \in Requests, ReadForUpdate(q) \/ ReadForDelete(q) \/ ReadForMark(q)
    PROVE  Promise!Ask(q)
<1>1. \A p \in Requests : p # q =>
         pc'[p] = pc[p] /\ change'[p] = change[p] /\ member'[p] = member[p]
  BY DEF ReadForUpdate, ReadForDelete, ReadForMark, Advance, Inv, TypeOK
<1>2. pc[q] = "new" /\ Live /\ UNCHANGED Promise!facts
  BY DEF ReadForUpdate, ReadForDelete, ReadForMark, Promise!facts
<1>3. Asked[q] = {} /\ Asked' = [Asked EXCEPT ![q] = Order(q)'] /\ Asked'[q] = Order(q)'
  BY <1>1, <1>2, OneAsks DEF Order
<1>4. \E order \in Promise!Orders : Order(q)' = {order}
  <2>1. CASE ReadForUpdate(q)
    <3>1. pc'[q] = "updating" /\ change'[q] \in Changes
      BY <2>1 DEF ReadForUpdate, Advance, Inv, TypeOK
    <3>2. Order(q)' = {[what |-> "update", body |-> change'[q]]}
      BY <3>1 DEF Order
    <3> QED BY <3>1, <3>2, SameValues DEF Promise!Orders
  <2>2. CASE ReadForDelete(q)
    <3>1. pc'[q] = "deleting"
      BY <2>2 DEF ReadForDelete, Advance, Inv, TypeOK
    <3>2. Order(q)' = {[what |-> "delete", body |-> Unset]}
      BY <3>1 DEF Order
    <3> QED BY <3>2 DEF Promise!Orders
  <2>3. CASE ReadForMark(q)
    <3>1. pc'[q] \in {"marking", "unmarking"} /\ member'[q] \in Members
      BY <2>3 DEF ReadForMark, Advance, Inv, TypeOK
    <3>2. \/ Order(q)' = {[what |-> "mark", body |-> member'[q]]}
          \/ Order(q)' = {[what |-> "unmark", body |-> member'[q]]}
      BY <3>1 DEF Order
    <3> QED BY <3>1, <3>2 DEF Promise!Orders
  <2> QED BY <2>1, <2>2, <2>3
<1> QED BY <1>2, <1>3, <1>4 DEF Promise!Ask, Live

\* The statements that follow are part of what was asked.
LEMMA StatementsStutter ==
    ASSUME Inv, NEW q \in Requests,
           InsertRevision(q) \/ UpdateRow(q) \/ DeleteRow(q) \/ Upsert(q)
    PROVE  UNCHANGED Promise!vars
<1>1. UNCHANGED <<Promise!facts, change, member>> /\ \A p \in Requests : p # q => pc'[p] = pc[p]
  BY DEF InsertRevision, UpdateRow, DeleteRow, Upsert, Advance, Inv, TypeOK, Promise!facts
<1>2. \/ pc[q] \in {"updating", "revised"} /\ pc'[q] \in {"revised", "updated"}
      \/ pc[q] = "deleting" /\ pc'[q] \in {"deleted", "missed"}
      \/ pc[q] = "marking" /\ pc'[q] = "marked"
  BY DEF InsertRevision, UpdateRow, DeleteRow, Upsert, Revising, Writing, Advance, Inv, TypeOK
<1>3. Order(q)' = Order(q)
  BY <1>1, <1>2 DEF Order
<1>4. Asked' = Asked
  BY <1>1, <1>3, OneAsks DEF Asked
<1> QED BY <1>1, <1>4 DEF Promise!vars

\* A request that ends has its answer.
LEMMA EndAnswers ==
    ASSUME Inv, NEW q \in Requests, End(q)
    PROVE  IF pc[q] \in {"new", "done"} THEN UNCHANGED Asked ELSE Promise!Answer(q)
<1>1. pc'[q] = "done" /\ \A p \in Requests : p # q =>
         pc'[p] = pc[p] /\ change'[p] = change[p] /\ member'[p] = member[p]
  BY EndEffect DEF Inv
<1>2. Order(q)' = {}
  BY <1>1 DEF Order
<1>3. IF pc[q] \in {"new", "done"} THEN Order(q) = {} ELSE Order(q) # {}
  BY DEF Order, Inv, TypeOK, Steps
<1>4. Asked' = [Asked EXCEPT ![q] = {}] /\ Asked[q] = Order(q) /\ Asked'[q] = {}
  BY <1>1, <1>2, OneAsks
<1>5. CASE pc[q] \in {"new", "done"}
  BY <1>3, <1>4, <1>5 DEF Asked
<1>6. CASE pc[q] \notin {"new", "done"}
  BY <1>3, <1>4, <1>6 DEF Promise!Answer
<1> QED BY <1>5, <1>6

\* A request that is refused or fails forgets what was asked.
LEMMA EndForgets ==
    ASSUME Inv, NEW q \in Requests, Refuse(q) \/ Reject(q) \/ Rollback(q)
    PROVE  Promise!Forget(q) \/ UNCHANGED Promise!vars
<1>1. End(q) /\ UNCHANGED Promise!facts
  BY DEF Refuse, Reject, Rollback, Promise!facts
<1> QED BY <1>1, EndAnswers DEF Promise!Forget, Promise!vars

\* A create is one step.
LEMMA CreateCreates ==
    ASSUME Inv, NEW q \in Requests, Create(q)
    PROVE  Promise!Create
<1>1. UNCHANGED Asked
  BY EndAnswers DEF Create
<1>2. homework' \in Values /\ DatesInOrder(homework') /\ original' = homework'.text
  BY DEF Create
<1> QED BY <1>1, <1>2, SameValues DEF Create, Promise!Create, Promise!Announce

\* The commit of an update applies it to the homework as it is.
LEMMA UpdateApplies ==
    ASSUME Inv, NEW q \in Requests, CommitUpdate(q)
    PROVE  Promise!Apply(q)
<1>1. /\ pc[q] = "updated" /\ homework' = seen[q]
      /\ revisions' = revisions \cup ({draft[q]} \ {Unset})
      /\ events' = Append(events, "updated") /\ End(q)
      /\ UNCHANGED <<life, original, completions>>
  BY DEF CommitUpdate
<1>2. Promise!Answer(q) /\ Asked[q] = {[what |-> "update", body |-> change[q]]}
  BY <1>1, EndAnswers DEF Asked, Order
<1>3. Live /\ seen[q] = Merge(homework, change[q]) /\ DatesInOrder(seen[q])
  BY <1>1 DEF Inv, LocksOK, UpdatesOK, RequestOK, Written
<1>4. Promise!Record(change[q])
  <2>1. CASE draft[q] = Unset
    <3>1. seen[q].text \in Explained /\ revisions' = revisions
      BY <1>1, <2>1 DEF Inv, UpdatesOK, RequestOK
    <3>2. change[q].text # Unset => change[q].text = seen[q].text
      BY <1>3 DEF Merge, Sent
    <3> QED BY <3>1, <3>2, SameValues DEF Promise!Record
  <2>2. CASE draft[q] # Unset
    <3>1. draft[q].old \in Explained /\ draft[q].new = change[q].text
      BY <1>1, <2>2 DEF Inv, UpdatesOK, RequestOK
    <3>2. draft[q] \in revisions' /\ revisions' = revisions \cup {draft[q]}
      BY <1>1, <2>2
    <3> QED BY <3>1, <3>2, SameValues DEF Promise!Record
  <2> QED BY <2>1, <2>2
<1>5. Promise!Update(change[q])
  BY <1>1, <1>3, <1>4, SameValues DEF Promise!Update, Promise!Announce, Live
<1> QED BY <1>2, <1>5 DEF Promise!Apply

\* So does that of a deletion, whether or not the row was still there.
LEMMA DeleteApplies ==
    ASSUME Inv, NEW q \in Requests, CommitDelete(q)
    PROVE  Promise!Apply(q)
<1>1. pc[q] \in {"deleted", "missed"} /\ End(q)
  BY DEF CommitDelete
<1>2. Promise!Answer(q) /\ Asked[q] = {[what |-> "delete", body |-> Unset]}
  BY <1>1, EndAnswers DEF Asked, Order
<1>3. Promise!Delete
  BY <1>1 DEF CommitDelete, Promise!Delete, Promise!Announce, Inv, LocksOK
<1> QED BY <1>2, <1>3 DEF Promise!Apply

\* And that of a mark, which holds the homework in place.
LEMMA MarkApplies ==
    ASSUME Inv, NEW q \in Requests, CommitMark(q) \/ CommitUnmark(q)
    PROVE  Promise!Apply(q)
<1>1. CASE CommitMark(q)
  <2>1. pc[q] = "marked" /\ End(q) /\ Live
    BY <1>1 DEF CommitMark, Inv, LocksOK
  <2>2. Promise!Answer(q) /\ Asked[q] = {[what |-> "mark", body |-> member[q]]}
    BY <2>1, EndAnswers DEF Asked, Order
  <2>3. Promise!Mark(member[q])
    BY <1>1, <2>1 DEF CommitMark, Promise!Mark, Live
  <2> QED BY <2>2, <2>3 DEF Promise!Apply
<1>2. CASE CommitUnmark(q)
  <2>1. pc[q] = "unmarking" /\ End(q)
    BY <1>2 DEF CommitUnmark
  <2>2. Promise!Answer(q) /\ Asked[q] = {[what |-> "unmark", body |-> member[q]]}
    BY <2>1, EndAnswers DEF Asked, Order
  <2>3. Promise!Unmark(member[q])
    BY <1>2 DEF CommitUnmark, Promise!Unmark
  <2> QED BY <2>2, <2>3 DEF Promise!Apply
<1> QED BY <1>1, <1>2

\* Every step is one of HomeworkLife's, or none.
LEMMA NextLife == Inv /\ [Next]_vars => [Promise!Next]_(Promise!vars)
<1> SUFFICES ASSUME Inv, [Next]_vars PROVE Promise!Next \/ UNCHANGED Promise!vars
  OBVIOUS
<1>1. CASE UNCHANGED vars
  BY <1>1 DEF vars, requestVars, Promise!vars, Promise!facts, Asked, Order
<1>2. ASSUME NEW q \in Requests, UpdateStep(q) \/ DeleteStep(q) \/ MarkStep(q)
      PROVE  Promise!Next \/ UNCHANGED Promise!vars
  BY <1>2, ReadAsks, StatementsStutter, UpdateApplies, DeleteApplies, MarkApplies
     DEF UpdateStep, DeleteStep, MarkStep, Promise!Next
<1>3. ASSUME NEW q \in Requests, Create(q) \/ Refuse(q) \/ Reject(q) \/ Rollback(q)
      PROVE  Promise!Next \/ UNCHANGED Promise!vars
  BY <1>3, CreateCreates, EndForgets DEF Promise!Next
<1> QED BY <1>1, <1>2, <1>3 DEF Next, Progress, Finished

(***************************************************************************)
(* However requests on a homework overlap, each takes effect at its commit *)
(* as it was asked for, with its revision and its event, or not at all.    *)
(***************************************************************************)
THEOREM Implementation == Spec => LifeSpec
<1>1. Spec => Promise!Init /\ [][Promise!Next]_(Promise!vars)
  BY InitLife, NextLife, Invariance, PTL DEF Spec
<1> QED BY <1>1 DEF LifeSpec, Promise!Spec
=============================================================================
