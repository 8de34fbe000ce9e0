------------------------ MODULE ScheduleEditingProofs ------------------------
(***************************************************************************)
(* Theorems about ScheduleEditing, for any requests, rows, columns and     *)
(* patches: one row per slot, times in order, and valid rows as long as no *)
(* update was stale.                                                       *)
(***************************************************************************)
EXTENDS ScheduleEditing, ScheduleRowsProofs, FiniteSetTheorems, WellFoundedInduction

Placed(p) == pc[p] \in {"inserted", "updated"}
Locking(p) == pc[p] \in {"locked", "updated", "deleted"}
Creating(p) == pc[p] \in {"creating", "inserted"}
Updating(p) == pc[p] \in {"reading", "updating", "locked", "updated"}

\* What a request carries along.
RequestsOK ==
    \A q \in Requests :
        /\ pc[q] \notin {"new", "done"} => target[q] \in Ids
        /\ Creating(q) => draft[q] \in Creates /\ ~ There(target[q])
        /\ Updating(q) => /\ seen[q] \in Rows
                          /\ change[q] \in Patches
                          /\ Fits(change[q], seen[q])
                          /\ Valid(Merge(seen[q], change[q]))
                          /\ There(target[q]) => (IsEntry(rows[target[q]]) <=> IsEntry(seen[q]))
        /\ pc[q] \in {"locked", "updated"} =>
             /\ There(target[q])
             /\ draft[q] = Merge(rows[target[q]], change[q])
             /\ Ordered(draft[q])
        /\ pc[q] \in {"new", "deleting", "deleted"} => draft[q] = None

\* Ids are generated for one request each; a row is locked by one.
TargetsApart ==
    \A p, q \in Requests :
        p # q /\ target[p] = target[q] =>
            /\ ~ Creating(p)
            /\ Locking(p) /\ Locking(q) => ~ There(target[p])

\* What is in the index is in nobody else's slot.
PlacedAlone == \A p \in Requests : Placed(p) => ~ Taken(target[p], draft[p])
PlacedApart ==
    \A p, q \in Requests : Placed(p) /\ Placed(q) /\ SameSlot(draft[p], draft[q]) => p = q

IInv ==
    /\ TypeOK
    /\ RequestsOK
    /\ TargetsApart
    /\ PlacedAlone
    /\ PlacedApart
    /\ SlotsUnique
    /\ TimesOrdered
    /\ ValidUnlessStale

\* Setting columns keeps a row a row.
LEMMA MergeIsRow ==
    ASSUME NEW row \in Rows, NEW c \in Changes
    PROVE  Merge(row, c) \in Rows
BY DEF Merge, Sent, Rows, Columns, Changes

\* An update leaves a row in its table: entries have no type to set, and an
\* override's type is set to another override type.
LEMMA MergeKeepsTable ==
    ASSUME NEW row \in Rows, NEW c \in Changes, Fits(c, row)
    PROVE  IsEntry(Merge(row, c)) <=> IsEntry(row)
BY KeepAssumption DEF Merge, Sent, Rows, Columns, Changes, Fits, IsEntry, OverrideTypes

\* An entry in order keeps all its columns.
LEMMA MergeKeepsEntry ==
    ASSUME NEW row \in Rows, NEW c \in Changes, Fits(c, row), IsEntry(row), Valid(row),
           Ordered(Merge(row, c))
    PROVE  Valid(Merge(row, c))
<1>1. IsEntry(Merge(row, c))
  BY MergeKeepsTable
<1>2. LET new == Merge(row, c)
      IN new.subject # None /\ new.start # None /\ new.end # None
  BY DEF Merge, Sent, Fits, Valid, ValidEntry
<1> QED BY <1>1, <1>2 DEF Valid, ValidEntry

\* What the service finds valid, the database accepts.
LEMMA ValidIsOrdered == ASSUME NEW row, Valid(row) PROVE Ordered(row)
BY DEF Valid, ValidEntry, ValidOverride

\* Valid rows in different slots.
LEMMA InitOK == Init => IInv
<1> SUFFICES ASSUME Init PROVE IInv
  OBVIOUS
<1>1. \A i \in Ids : There(i) => Valid(rows[i]) /\ rows[i] \in Rows
  BY CreatesAssumption DEF Init, There
<1>2. TypeOK
  BY <1>1 DEF Init, TypeOK, Steps, There
<1>3. TimesOrdered /\ ValidUnlessStale
  BY <1>1, ValidIsOrdered DEF TimesOrdered, ValidUnlessStale
<1>4. SlotsUnique
  BY DEF Init, SlotsUnique
<1>5. RequestsOK /\ TargetsApart /\ PlacedAlone /\ PlacedApart
  BY DEF Init, RequestsOK, TargetsApart, PlacedAlone, PlacedApart,
         Creating, Updating, Locking, Placed
<1> QED BY <1>2, <1>3, <1>4, <1>5 DEF IInv

\* A transaction that ends without effects.
LEMMA EndStep ==
    ASSUME IInv, NEW q \in Requests, End(q), UNCHANGED <<rows, stale>>
    PROVE  IInv'
<1> USE DEF IInv, End, Advance, There
<1>1. TypeOK'
  BY DEF TypeOK, Steps
<1>2. \A p \in Requests \ {q} : /\ pc'[p] = pc[p]
                                /\ seen'[p] = seen[p]
                                /\ change'[p] = change[p]
                                /\ draft'[p] = draft[p]
  BY DEF TypeOK
<1>3. pc'[q] = "done" /\ target' = target /\ rows' = rows /\ stale' = stale
  BY DEF TypeOK
<1> HIDE DEF End, Advance
<1>4. RequestsOK'
  BY <1>2, <1>3 DEF RequestsOK, Creating, Updating
<1>5. TargetsApart'
  BY <1>2, <1>3 DEF TargetsApart, Creating, Locking
<1>6. PlacedAlone'
  BY <1>2, <1>3 DEF PlacedAlone, Placed, Taken
<1>7. PlacedApart'
  BY <1>2, <1>3 DEF PlacedApart, Placed
<1>8. (SlotsUnique /\ TimesOrdered /\ ValidUnlessStale)'
  BY <1>3 DEF SlotsUnique, TimesOrdered, ValidUnlessStale
<1> QED BY <1>1, <1>4, <1>5, <1>6, <1>7, <1>8

\* A step of a request before its commit leaves the committed rows alone.
LEMMA RowsKept ==
    ASSUME IInv, UNCHANGED <<rows, stale>>
    PROVE  (SlotsUnique /\ TimesOrdered /\ ValidUnlessStale)'
BY DEF IInv, SlotsUnique, TimesOrdered, ValidUnlessStale, There

\* A request that neither enters nor leaves the index leaves it alone.
LEMMA IndexKept ==
    ASSUME IInv, NEW q \in Requests, UNCHANGED rows,
           ~ Placed(q)', \A p \in Requests \ {q} :
               pc'[p] = pc[p] /\ draft'[p] = draft[p] /\ target'[p] = target[p]
    PROVE  (PlacedAlone /\ PlacedApart)'
BY DEF IInv, PlacedAlone, PlacedApart, Placed, Taken, There

\* A request enters the index when its slot is free.
LEMMA IndexEntered ==
    ASSUME IInv, NEW q \in Requests, SlotFree(q), UNCHANGED <<rows, target, draft>>,
           \A p \in Requests \ {q} : pc'[p] = pc[p]
    PROVE  (PlacedAlone /\ PlacedApart)'
<1>1. \A p \in Requests \ {q} : Placed(p) => ~ SameSlot(draft[p], draft[q])
  BY DEF SlotFree, Claimed, Claimants, Placed
<1>2. PlacedApart'
  BY <1>1 DEF IInv, PlacedApart, Placed, SameSlot
<1>3. PlacedAlone'
  BY DEF IInv, PlacedAlone, Placed, Taken, There, SlotFree
<1> QED BY <1>2, <1>3

\* The start of a create.
LEMMA StartCreateStep ==
    ASSUME IInv, NEW q \in Requests, StartCreate(q)
    PROVE  IInv'
<1> USE DEF IInv
<1>1. PICK i \in Ids, row \in Creates :
         /\ Unused(i)
         /\ target' = [target EXCEPT ![q] = i]
         /\ draft' = [draft EXCEPT ![q] = row]
  BY DEF StartCreate
<1>2. row \in Rows /\ Valid(row)
  BY CreatesAssumption
<1>3. /\ pc[q] = "new" /\ pc' = [pc EXCEPT ![q] = "creating"]
      /\ UNCHANGED <<rows, seen, change, stale>>
  BY DEF StartCreate, Advance
<1>4. TypeOK'
  BY <1>1, <1>2, <1>3 DEF TypeOK, Steps
<1>5. \A p \in Requests \ {q} :
         pc'[p] = pc[p] /\ draft'[p] = draft[p] /\ target'[p] = target[p]
  BY <1>1, <1>3 DEF TypeOK
<1>6. pc'[q] = "creating" /\ target'[q] = i /\ draft'[q] = row
  BY <1>1, <1>3 DEF TypeOK
<1>7. RequestsOK'
  BY <1>1, <1>2, <1>3, <1>5, <1>6
     DEF RequestsOK, Creating, Updating, Unused, There
<1>8. TargetsApart'
  BY <1>1, <1>3, <1>5, <1>6 DEF TargetsApart, Creating, Locking, Unused, There
<1>9. (PlacedAlone /\ PlacedApart)'
  BY <1>3, <1>5, <1>6, IndexKept DEF Placed
<1> QED BY <1>3, <1>4, <1>7, <1>8, <1>9, RowsKept

\* The insert of a create.
LEMMA InsertStep ==
    ASSUME IInv, NEW q \in Requests, Insert(q)
    PROVE  IInv'
<1> USE DEF IInv
<1>1. /\ pc[q] = "creating" /\ pc' = [pc EXCEPT ![q] = "inserted"] /\ SlotFree(q)
      /\ UNCHANGED <<rows, target, seen, change, draft, stale>>
  BY DEF Insert, Advance
<1>2. TypeOK'
  BY <1>1 DEF TypeOK, Steps
<1>3. pc'[q] = "inserted" /\ \A p \in Requests \ {q} : pc'[p] = pc[p]
  BY <1>1 DEF TypeOK
<1>4. RequestsOK'
  BY <1>1, <1>3 DEF RequestsOK, Creating, Updating, There
<1>5. TargetsApart'
  BY <1>1, <1>3 DEF TargetsApart, Creating, Locking, There
<1>6. (PlacedAlone /\ PlacedApart)'
  BY <1>1, <1>3, IndexEntered
<1> QED BY <1>1, <1>2, <1>4, <1>5, <1>6, RowsKept

\* The read of an update, with its validation.
LEMMA ReadForUpdateStep ==
    ASSUME IInv, NEW q \in Requests, ReadForUpdate(q)
    PROVE  IInv'
<1> USE DEF IInv
<1>1. PICK i \in Ids, c \in Patches :
         /\ There(i)
         /\ Fits(c, rows[i])
         /\ Valid(Merge(rows[i], c))
         /\ target' = [target EXCEPT ![q] = i]
         /\ change' = [change EXCEPT ![q] = c]
         /\ seen' = [seen EXCEPT ![q] = rows[i]]
  BY DEF ReadForUpdate
<1>2. /\ pc[q] = "new" /\ pc' = [pc EXCEPT ![q] = "reading"]
      /\ UNCHANGED <<rows, draft, stale>>
  BY DEF ReadForUpdate, Advance
<1>3. c \in Changes /\ rows[i] \in Rows
  BY <1>1, PatchesAssumption DEF TypeOK, There
<1>4. TypeOK'
  BY <1>1, <1>2, <1>3 DEF TypeOK, Steps
<1>5. \A p \in Requests \ {q} :
         /\ pc'[p] = pc[p] /\ draft'[p] = draft[p] /\ target'[p] = target[p]
         /\ seen'[p] = seen[p] /\ change'[p] = change[p]
  BY <1>1, <1>2 DEF TypeOK
<1>6. /\ pc'[q] = "reading" /\ target'[q] = i /\ seen'[q] = rows[i] /\ change'[q] = c
  BY <1>1, <1>2 DEF TypeOK
<1>7. RequestsOK'
  BY <1>1, <1>2, <1>3, <1>5, <1>6 DEF RequestsOK, Creating, Updating, There
<1>8. TargetsApart'
  BY <1>1, <1>2, <1>5, <1>6 DEF TargetsApart, RequestsOK, Creating, Locking, There
<1>9. (PlacedAlone /\ PlacedApart)'
  BY <1>2, <1>5, <1>6, IndexKept DEF Placed
<1> QED BY <1>2, <1>4, <1>7, <1>8, <1>9, RowsKept

\* A look at the slot, or the DELETE: only where the request stands changes.
LEMMA CheckSlotStep ==
    ASSUME IInv, NEW q \in Requests, CheckSlot(q)
    PROVE  IInv'
<1>1. CASE End(q)
  BY <1>1, EndStep DEF CheckSlot
<1>2. CASE Advance(q, "updating") /\ UNCHANGED <<target, seen, change, draft>>
  <2> USE DEF IInv
  <2>1. /\ pc[q] = "reading" /\ pc' = [pc EXCEPT ![q] = "updating"]
        /\ UNCHANGED <<rows, target, seen, change, draft, stale>>
    BY <1>2 DEF CheckSlot, Advance
  <2>2. TypeOK'
    BY <2>1 DEF TypeOK, Steps
  <2>3. pc'[q] = "updating" /\ \A p \in Requests \ {q} : pc'[p] = pc[p]
    BY <2>1 DEF TypeOK
  <2>4. RequestsOK'
    BY <2>1, <2>3 DEF RequestsOK, Creating, Updating, There
  <2>5. TargetsApart'
    BY <2>1, <2>3 DEF TargetsApart, Creating, Locking, There
  <2>6. (PlacedAlone /\ PlacedApart)'
    BY <2>1, <2>3, IndexKept DEF Placed
  <2> QED BY <2>1, <2>2, <2>4, <2>5, <2>6, RowsKept
<1> QED BY <1>1, <1>2 DEF CheckSlot

\* The UPDATE gets its row.
LEMMA LockRowStep ==
    ASSUME IInv, NEW q \in Requests, LockRow(q)
    PROVE  IInv'
<1> USE DEF IInv
<1> DEFINE new == Merge(rows[target[q]], change[q])
<1>1. /\ pc[q] = "updating" /\ pc' = [pc EXCEPT ![q] = "locked"]
      /\ There(target[q]) /\ Holders(q) = {} /\ Ordered(new)
      /\ draft' = [draft EXCEPT ![q] = new]
      /\ UNCHANGED <<rows, target, seen, change, stale>>
  BY DEF LockRow, RowUpdates, RowFree, Updated, Advance, Accepts
<1>2. target[q] \in Ids /\ rows[target[q]] \in Rows /\ change[q] \in Changes
  BY <1>1, PatchesAssumption DEF RequestsOK, Updating, TypeOK, There
<1>3. new \in Rows
  BY <1>2, MergeIsRow
<1> HIDE DEF new
<1>4. TypeOK'
  BY <1>1, <1>3 DEF TypeOK, Steps
<1>5. \A p \in Requests \ {q} :
         pc'[p] = pc[p] /\ draft'[p] = draft[p] /\ target'[p] = target[p]
  BY <1>1 DEF TypeOK
<1>6. pc'[q] = "locked" /\ draft'[q] = new
  BY <1>1 DEF TypeOK
<1>7. RequestsOK'
  BY <1>1, <1>2, <1>5, <1>6 DEF RequestsOK, Creating, Updating, There, new
<1>8. TargetsApart'
  BY <1>1, <1>5, <1>6 DEF TargetsApart, Creating, Locking, There, Holders, Holds
<1>9. (PlacedAlone /\ PlacedApart)'
  BY <1>1, <1>5, <1>6, IndexKept DEF Placed
<1> QED BY <1>1, <1>4, <1>7, <1>8, <1>9, RowsKept

\* The UPDATE enters the index.
LEMMA UpdateRowStep ==
    ASSUME IInv, NEW q \in Requests, UpdateRow(q)
    PROVE  IInv'
<1> USE DEF IInv
<1>1. /\ pc[q] = "locked" /\ pc' = [pc EXCEPT ![q] = "updated"] /\ SlotFree(q)
      /\ UNCHANGED <<rows, target, seen, change, draft, stale>>
  BY DEF UpdateRow, Advance
<1>2. TypeOK'
  BY <1>1 DEF TypeOK, Steps
<1>3. pc'[q] = "updated" /\ \A p \in Requests \ {q} : pc'[p] = pc[p]
  BY <1>1 DEF TypeOK
<1>4. RequestsOK'
  BY <1>1, <1>3 DEF RequestsOK, Creating, Updating, There
<1>5. TargetsApart'
  BY <1>1, <1>3 DEF TargetsApart, Creating, Locking, There
<1>6. (PlacedAlone /\ PlacedApart)'
  BY <1>1, <1>3, IndexEntered
<1> QED BY <1>1, <1>2, <1>4, <1>5, <1>6, RowsKept

\* The read of a delete.
LEMMA ReadForDeleteStep ==
    ASSUME IInv, NEW q \in Requests, ReadForDelete(q)
    PROVE  IInv'
<1> USE DEF IInv
<1>1. PICK i \in Ids : There(i) /\ target' = [target EXCEPT ![q] = i]
  BY DEF ReadForDelete
<1>2. /\ pc[q] = "new" /\ pc' = [pc EXCEPT ![q] = "deleting"]
      /\ UNCHANGED <<rows, seen, change, draft, stale>>
  BY DEF ReadForDelete, Advance
<1>3. TypeOK'
  BY <1>1, <1>2 DEF TypeOK, Steps
<1>4. \A p \in Requests \ {q} :
         pc'[p] = pc[p] /\ draft'[p] = draft[p] /\ target'[p] = target[p]
  BY <1>1, <1>2 DEF TypeOK
<1>5. pc'[q] = "deleting" /\ target'[q] = i
  BY <1>1, <1>2 DEF TypeOK
<1>6. RequestsOK'
  BY <1>1, <1>2, <1>4, <1>5 DEF RequestsOK, Creating, Updating, There
<1>7. TargetsApart'
  BY <1>1, <1>2, <1>4, <1>5 DEF TargetsApart, RequestsOK, Creating, Locking, There
<1>8. (PlacedAlone /\ PlacedApart)'
  BY <1>2, <1>4, <1>5, IndexKept DEF Placed
<1> QED BY <1>2, <1>3, <1>6, <1>7, <1>8, RowsKept

\* The DELETE.
LEMMA DeleteRowStep ==
    ASSUME IInv, NEW q \in Requests, DeleteRow(q)
    PROVE  IInv'
<1> USE DEF IInv
<1>1. /\ pc[q] = "deleting" /\ pc' = [pc EXCEPT ![q] = "deleted"] /\ Holders(q) = {}
      /\ UNCHANGED <<rows, target, seen, change, draft, stale>>
  BY DEF DeleteRow, RowFree, Advance
<1>2. TypeOK'
  BY <1>1 DEF TypeOK, Steps
<1>3. pc'[q] = "deleted" /\ \A p \in Requests \ {q} : pc'[p] = pc[p]
  BY <1>1 DEF TypeOK
<1>4. RequestsOK'
  BY <1>1, <1>3 DEF RequestsOK, Creating, Updating, There
<1>5. TargetsApart'
  BY <1>1, <1>3 DEF TargetsApart, Creating, Locking, There, Holders, Holds
<1>6. (PlacedAlone /\ PlacedApart)'
  BY <1>1, <1>3, IndexKept DEF Placed
<1> QED BY <1>1, <1>2, <1>4, <1>5, <1>6, RowsKept

\* What an update is about to commit is its patch of the row as it is.
LEMMA UpdatedRow ==
    ASSUME IInv, NEW q \in Requests, pc[q] = "updated"
    PROVE  LET t == target[q]
           IN  /\ t \in Ids /\ There(t) /\ rows[t] \in Rows
               /\ change[q] \in Patches /\ change[q] \in Changes
               /\ Fits(change[q], rows[t])
               /\ draft[q] = Merge(rows[t], change[q]) /\ Ordered(draft[q])
               /\ IsEntry(draft[q]) <=> IsEntry(rows[t])
<1> DEFINE t == target[q]
<1>1. /\ t \in Ids /\ There(t) /\ rows[t] \in Rows
      /\ change[q] \in Patches /\ change[q] \in Changes
      /\ Fits(change[q], seen[q]) /\ (IsEntry(rows[t]) <=> IsEntry(seen[q]))
      /\ draft[q] = Merge(rows[t], change[q]) /\ Ordered(draft[q])
  BY PatchesAssumption DEF IInv, RequestsOK, Updating, TypeOK, There
<1>2. Fits(change[q], rows[t])
  BY <1>1 DEF Fits
<1> QED BY <1>1, <1>2, MergeKeepsTable

\* The COMMIT.
LEMMA CommitStep ==
    ASSUME IInv, NEW q \in Requests, Commit(q)
    PROVE  IInv'
<1> USE DEF IInv
<1> DEFINE t == target[q]
<1>1. /\ pc[q] \in {"inserted", "updated", "deleted"} /\ pc' = [pc EXCEPT ![q] = "done"]
      /\ rows' = [rows EXCEPT ![t] = draft[q]]
      /\ target' = target
      /\ seen' = [seen EXCEPT ![q] = None]
      /\ change' = [change EXCEPT ![q] = None]
      /\ draft' = [draft EXCEPT ![q] = None]
      /\ stale' = IF pc[q] = "updated" /\ rows[t] # seen[q] THEN stale \cup {t} ELSE stale
  BY DEF Commit, End, Advance
<1>2. t \in Ids
  BY <1>1 DEF RequestsOK
<1>3. TypeOK'
  BY <1>1, <1>2 DEF TypeOK, Steps
<1>4. /\ rows'[t] = draft[q]
      /\ \A i \in Ids \ {t} : rows'[i] = rows[i]
      /\ pc'[q] = "done"
      /\ \A p \in Requests \ {q} :
           /\ pc'[p] = pc[p] /\ draft'[p] = draft[p]
           /\ seen'[p] = seen[p] /\ change'[p] = change[p]
  BY <1>1, <1>2 DEF TypeOK
<1>5. pc[q] = "deleted" => draft[q] = None
  BY DEF RequestsOK
<1>6. pc[q] # "deleted" => Placed(q) /\ draft[q] \in Rows
  BY <1>1, UpdatedRow, MergeIsRow, CreatesAssumption DEF RequestsOK, Placed, Creating
<1>7. ASSUME NEW p \in Requests \ {q}, Creating(p) \/ pc[p] \in {"locked", "updated"}
      PROVE  target[p] # t
  BY <1>1, <1>7 DEF TargetsApart, RequestsOK, Creating, Locking
<1> HIDE DEF t
<1>8. RequestsOK'
  <2>1. ASSUME NEW p \in Requests \ {q}, Updating(p), There(target[p])'
        PROVE  IsEntry(rows'[target[p]]) <=> IsEntry(seen[p])
    <3>1. target[p] \in Ids
      BY <2>1 DEF RequestsOK, Updating
    <3>2. CASE target[p] # t
      BY <1>1, <1>4, <2>1, <3>1, <3>2 DEF RequestsOK, There
    <3>3. CASE target[p] = t
      <4>1. pc[q] # "inserted"
        BY <1>1, <2>1, <3>3 DEF TargetsApart, Creating, t
      <4>2. pc[q] # "deleted"
        BY <1>1, <1>4, <1>5, <2>1, <3>3 DEF There
      <4> QED BY <1>1, <1>4, <2>1, <3>3, <4>1, <4>2, UpdatedRow DEF RequestsOK, t
    <3> QED BY <3>2, <3>3
  <2> QED BY <1>1, <1>4, <1>7, <2>1 DEF RequestsOK, Creating, Updating, There
<1>9. TargetsApart'
  <2> SUFFICES ASSUME NEW p \in Requests, NEW r \in Requests, p # r, target[p] = target[r]
               PROVE  /\ ~ Creating(p)'
                      /\ Locking(p)' /\ Locking(r)' => ~ There(target[p])'
    BY <1>1 DEF TargetsApart
  <2>1. ~ Creating(p)'
    BY <1>4 DEF TargetsApart, Creating
  <2>2. ASSUME Locking(p)', Locking(r)' PROVE ~ There(target[p])'
    <3>1. p # q /\ r # q /\ Locking(p) /\ Locking(r)
      BY <1>4, <2>2 DEF Locking
    <3>2. ~ There(target[p]) /\ target[p] \in Ids
      BY <3>1 DEF TargetsApart, RequestsOK, Locking
    <3>3. CASE target[p] # t
      BY <1>1, <1>4, <3>2, <3>3 DEF There
    <3>4. CASE target[p] = t
      <4>1. pc[q] = "deleted"
        BY <1>1, <3>1, <3>2, <3>4 DEF TargetsApart, RequestsOK, Creating, t
      <4> QED BY <1>1, <1>4, <1>5, <3>4, <4>1 DEF There
    <3> QED BY <3>3, <3>4
  <2> QED BY <2>1, <2>2
<1>10. PlacedApart'
  BY <1>4 DEF PlacedApart, Placed
<1>11. PlacedAlone'
  <2> SUFFICES ASSUME NEW p \in Requests, Placed(p)', NEW j \in Ids \ {target[p]},
                      There(j)', SameSlot(rows'[j], draft'[p])
               PROVE  FALSE
    BY <1>1 DEF PlacedAlone, Taken
  <2>1. p # q /\ Placed(p) /\ draft'[p] = draft[p]
    BY <1>4 DEF Placed
  <2>2. CASE j # t
    BY <1>4, <2>1, <2>2 DEF PlacedAlone, Taken, There
  <2>3. CASE j = t
    <3>1. draft[q] # None
      BY <1>4, <2>3 DEF There
    <3>2. Placed(q) /\ SameSlot(draft[q], draft[p])
      BY <1>4, <1>5, <1>6, <2>1, <2>3, <3>1
    <3> QED BY <2>1, <3>2 DEF PlacedApart
  <2> QED BY <2>2, <2>3
<1>12. SlotsUnique'
  <2>1. ASSUME NEW i \in Ids \ {t}, There(i)', rows'[t] # None PROVE ~ SameSlot(rows'[i], rows'[t])
    <3>1. Placed(q) /\ There(i) /\ rows'[i] = rows[i]
      BY <1>4, <1>5, <1>6, <2>1 DEF There
    <3> QED BY <1>4, <3>1 DEF PlacedAlone, Taken, t
  <2>2. \A i, j \in Ids \ {t} : There(i)' /\ There(j)' /\ SameSlot(rows'[i], rows'[j]) => i = j
    BY <1>4 DEF SlotsUnique, There
  <2>3. \A a, b : SameSlot(a, b) => SameSlot(b, a)
    BY DEF SameSlot
  <2> SUFFICES ASSUME NEW i \in Ids, NEW j \in Ids, rows'[i] # None, rows'[j] # None,
                      SameSlot(rows'[i], rows'[j])
               PROVE  i = j
    BY DEF SlotsUnique, There
  <2>4. CASE i = t
    BY <2>1, <2>3, <2>4 DEF There
  <2>5. CASE j = t
    BY <2>1, <2>3, <2>5 DEF There
  <2> QED BY <2>2, <2>4, <2>5 DEF There
<1>13. TimesOrdered'
  <2>1. rows'[t] # None => Ordered(draft[q])
    BY <1>1, <1>4, <1>5, ValidIsOrdered, CreatesAssumption DEF RequestsOK, Creating, There
  <2> QED BY <1>4, <2>1 DEF TimesOrdered, There
<1>14. ValidUnlessStale'
  <2>1. ASSUME rows'[t] # None, t \in stale' => IsEntry(draft[q]) PROVE Valid(draft[q])
    <3>1. CASE pc[q] = "inserted"
      BY <3>1, CreatesAssumption DEF RequestsOK, Creating
    <3>2. CASE pc[q] = "updated"
      <4>1. CASE rows[t] = seen[q]
        BY <3>2, <4>1 DEF RequestsOK, Updating, t
      <4>2. CASE rows[t] # seen[q]
        <5>1. IsEntry(rows[t])
          BY <1>1, <2>1, <3>2, <4>2, UpdatedRow DEF t
        <5>2. Valid(rows[t])
          BY <1>2, <3>2, <5>1, UpdatedRow DEF ValidUnlessStale, t
        <5> QED BY <3>2, <5>1, <5>2, UpdatedRow, MergeKeepsEntry DEF t
      <4> QED BY <4>1, <4>2
    <3>3. pc[q] # "deleted"
      BY <1>4, <1>5, <2>1 DEF There
    <3> QED BY <1>1, <3>1, <3>2, <3>3
  <2>2. stale \subseteq stale'
    BY <1>1
  <2> QED BY <1>4, <2>1, <2>2 DEF ValidUnlessStale, There
<1> QED BY <1>3, <1>8, <1>9, <1>10, <1>11, <1>12, <1>13, <1>14

\* No step of the system breaks the invariant.
LEMMA InvariantKept == IInv /\ [Next]_vars => IInv'
<1> SUFFICES ASSUME IInv, [Next]_vars PROVE IInv'
  OBVIOUS
<1>1. CASE UNCHANGED vars
  BY <1>1 DEF vars, requestVars, IInv, TypeOK, RequestsOK, TargetsApart, PlacedAlone,
     PlacedApart, SlotsUnique, TimesOrdered, ValidUnlessStale,
     There, Taken, Placed, Locking, Creating, Updating
<1>2. CASE Next
  <2> SUFFICES ASSUME NEW q \in Requests,
                      \/ Reject(q) \/ Rollback(q)
                      \/ StartCreate(q) \/ Insert(q)
                      \/ ReadForUpdate(q) \/ CheckSlot(q) \/ LockRow(q)
                      \/ UpdateFails(q) \/ UpdateRow(q)
                      \/ ReadForDelete(q) \/ DeleteRow(q)
                      \/ SlotConflict(q) \/ Commit(q) \/ DeadlockVictim(q)
               PROVE  IInv'
    BY <1>2 DEF Next
  <2>1. CASE Reject(q) \/ Rollback(q) \/ UpdateFails(q) \/ SlotConflict(q) \/ DeadlockVictim(q)
    BY <2>1, EndStep DEF Reject, Rollback, UpdateFails, SlotConflict, DeadlockVictim
  <2> QED BY <2>1, StartCreateStep, InsertStep, ReadForUpdateStep, CheckSlotStep,
             LockRowStep, UpdateRowStep, ReadForDeleteStep, DeleteRowStep, CommitStep
<1> QED BY <1>1, <1>2

\* The invariant of ScheduleEditing: what requests carry, whose row is whose,
\* and what is in the unique index.
THEOREM Invariance == Spec => []IInv
BY InitOK, InvariantKept, PTL DEF Spec

\* At most one committed row per slot, for any number of requests.
THEOREM OneRowPerSlot == Spec => []SlotsUnique
<1>1. IInv => SlotsUnique
  BY DEF IInv
<1> QED BY Invariance, <1>1, PTL

\* No committed row ends before it starts.
THEOREM TimesStayOrdered == Spec => []TimesOrdered
<1>1. IInv => TimesOrdered
  BY DEF IInv
<1> QED BY Invariance, <1>1, PTL

\* Only an update on the strength of an older version makes a row invalid.
THEOREM OnlyStaleUpdatesInvalidate == Spec => []ValidUnlessStale
<1>1. IInv => ValidUnlessStale
  BY DEF IInv
<1> QED BY Invariance, <1>1, PTL

\* Days stay timely as long as no update was stale.
THEOREM DaysStayTimely == Spec => []DayTimely
<1>1. IInv => DayTimely
  <2> DEFINE table == {rows[i] : i \in {j \in Ids : There(j)}}
             es == {r \in table : IsEntry(r)}
             os == {r \in table : ~ IsEntry(r)}
  <2> SUFFICES ASSUME IInv, stale = {}
               PROVE  \A n \in DOMAIN DayOf(es, os) : Timely(DayOf(es, os)[n])
    BY DEF DayTimely
  <2>1. \A r \in table : Valid(r)
    BY DEF IInv, ValidUnlessStale
  <2>2. (\A e \in es : ValidEntry(e)) /\ (\A o \in os : ValidOverride(o))
    BY <2>1 DEF Valid
  <2>3. UniqueNumbers(es) /\ UniqueNumbers(os)
    BY DEF IInv, SlotsUnique, SameSlot, UniqueNumbers
  <2> HIDE DEF es, os
  <2>4. DOMAIN DayOf(es, os) = Shown(es, os)
    BY DEF DayOf
  <2> QED BY <2>2, <2>3, <2>4, ValidDayIsTimely
<1> QED BY Invariance, <1>1, PTL

-----------------------------------------------------------------------------
(* Waits end.                                                               *)

\* Whoever is waited for is under way.
LEMMA WaitsForUnderWay == ASSUME NEW q PROVE WaitsFor(q) \subseteq {p \in Requests : UnderWay(p)}
BY DEF WaitsFor, Claimants, Holders, Holds, UnderWay

\* A request under way that gets no answer waits for somebody.
LEMMA UnansweredWaits ==
    ASSUME TypeOK, NEW q \in Requests, UnderWay(q), ~ Answered(q)
    PROVE  WaitsFor(q) # {}
<1>1. CASE InIndex(q)
  BY <1>1 DEF WaitsFor, Answered, SlotFree, SlotLost, Claimed
<1>2. CASE pc[q] = "updating"
  BY <1>2 DEF WaitsFor, Answered, InIndex, RowUpdates, RowRefuses, RowFree
<1>3. CASE pc[q] = "deleting"
  BY <1>3 DEF WaitsFor, Answered, InIndex, RowFree
<1> QED BY <1>1, <1>2, <1>3 DEF TypeOK, Steps, UnderWay, Answered, InIndex

\* In a finite set, where everybody waits for somebody of the set, there is a
\* circle: the smallest part of the set of which the same can be said.
LEMMA CircleFound ==
    ASSUME NEW U \in SUBSET Requests, U # {}, \A p \in U : WaitsFor(p) \cap U # {}
    PROVE  \E S \in SUBSET U : S # {} /\ Circle(S)
<1> DEFINE Within(S) == \A p \in S : WaitsFor(p) \cap S # {}
           T == {S \in SUBSET Requests : S \subseteq U /\ S # {} /\ Within(S)}
           R == StrictSubsetOrdering(Requests)
<1>1. IsWellFoundedOn(R, SUBSET Requests)
  BY RequestsAssumption, FS_StrictSubsetOrderingWellFounded, FS_FiniteSubsetsOfFinite
<1>2. U \in T
  OBVIOUS
<1>3. PICK S \in T : \A V \in T : ~ (<<V, S>> \in R)
  <2>1. T \subseteq SUBSET Requests /\ T # {}
    BY <1>2
  <2> HIDE DEF T, R
  <2> QED BY <1>1, <2>1, WFMin
<1>4. ASSUME NEW p \in S, \A r \in S : p \notin WaitsFor(r)
      PROVE  FALSE
  <2> DEFINE V == S \ {p}
  <2>1. Within(V) /\ V \subseteq U
    BY <1>4
  <2>2. V # {}
    BY <1>4
  <2>3. V \in T
    BY <2>1, <2>2
  <2>4. <<V, S>> \in R
    BY <1>4 DEF StrictSubsetOrdering
  <2> QED BY <1>3, <2>3, <2>4
<1> QED BY <1>3, <1>4 DEF Circle

\* Whatever slots and rows the requests compete for, while one is under way
\* one is answered, or there is a circle of waits for PostgreSQL to break.
THEOREM NobodyEverStuck == Spec => []NobodyStuck
<1>1. IInv => NobodyStuck
  <2> DEFINE U == {p \in Requests : UnderWay(p)}
  <2> SUFFICES ASSUME IInv, U # {}, \A q \in Requests : ~ Answered(q)
               PROVE  \E q \in Requests : InCircle(q)
    BY DEF NobodyStuck
  <2>1. \A q \in U : WaitsFor(q) # {} /\ WaitsFor(q) \subseteq U
    BY UnansweredWaits, WaitsForUnderWay DEF IInv
  <2>2. PICK S \in SUBSET U : S # {} /\ Circle(S)
    <3>1. U \in SUBSET Requests /\ \A q \in U : WaitsFor(q) \cap U # {}
      BY <2>1
    <3> HIDE DEF U
    <3> QED BY <3>1, CircleFound
  <2> QED BY <2>2 DEF InCircle
<1> QED BY Invariance, <1>1, PTL

-----------------------------------------------------------------------------
(* The requests implement Timetable: a commit is one of its changes, and    *)
(* every other step stutters.                                               *)

\* What Timetable makes of rows and patches is what the requests make of them.
LEMMA SamePatches ==
    /\ \A a, b : Promise!SameSlot(a, b) <=> SameSlot(a, b)
    /\ \A row : Promise!Ordered(row) <=> Ordered(row)
    /\ \A c, row : Promise!Fits(c, row) <=> Fits(c, row)
    /\ \A c, row : Promise!Merge(row, c) = Merge(row, c)
BY DEF Promise!SameSlot, SameSlot, Promise!Ordered, Ordered, Promise!Fits, Fits,
       Promise!Merge, Merge, Promise!Sent, Sent, Promise!IsEntry, IsEntry

\* The rows that are there at first are in different slots.
LEMMA InitTimetable == Init => Promise!Init
<1> SUFFICES ASSUME Init PROVE Promise!Init
  OBVIOUS
<1>1. Asked = [q \in Requests |-> {}]
  BY DEF Init, Asked, Order
<1> QED BY <1>1, SamePatches DEF Init, Promise!Init, Promise!Present, Promise!FreeFor, There

\* A row that is in the index is alone in its slot.
LEMMA FreeAtCommit ==
    ASSUME IInv, NEW q \in Requests, Placed(q)
    PROVE  Promise!FreeFor(target[q], draft[q])
BY SamePatches DEF IInv, PlacedAlone, Taken, There, Promise!FreeFor, Promise!Present

\* A step of q leaves what the others ask for.
LEMMA OneAsks ==
    ASSUME NEW q \in Requests,
           \A p \in Requests \ {q} : /\ pc'[p] = pc[p] /\ target'[p] = target[p]
                                     /\ draft'[p] = draft[p] /\ change'[p] = change[p]
    PROVE  /\ Asked' = [Asked EXCEPT ![q] = Order(q)']
           /\ Asked[q] = Order(q) /\ Asked'[q] = Order(q)'
<1>1. \A p \in Requests \ {q} : Order(p)' = Order(p)
  BY DEF Order
<1> QED BY <1>1 DEF Asked

\* The first read of a request is when it asks.
LEMMA ReadAsks ==
    ASSUME IInv, NEW q \in Requests, StartCreate(q) \/ ReadForUpdate(q) \/ ReadForDelete(q)
    PROVE  Promise!Ask(q)
<1>1. \A p \in Requests \ {q} : /\ pc'[p] = pc[p] /\ target'[p] = target[p]
                                /\ draft'[p] = draft[p] /\ change'[p] = change[p]
  BY DEF StartCreate, ReadForUpdate, ReadForDelete, Advance, IInv, TypeOK
<1>2. pc[q] = "new" /\ UNCHANGED rows
  BY DEF StartCreate, ReadForUpdate, ReadForDelete
<1>3. Asked[q] = {} /\ Asked' = [Asked EXCEPT ![q] = Order(q)'] /\ Asked'[q] = Order(q)'
  BY <1>1, <1>2, OneAsks DEF Order
<1>4. \E order \in Promise!Orders : Order(q)' = {order}
  <2>1. CASE StartCreate(q)
    <3>1. pc'[q] = "creating" /\ target'[q] \in Ids /\ draft'[q] \in Creates
      BY <2>1 DEF StartCreate, Advance, IInv, TypeOK
    <3>2. Order(q)' = {[what |-> "add", id |-> target'[q], body |-> draft'[q]]}
      BY <3>1 DEF Order
    <3> QED BY <3>1, <3>2 DEF Promise!Orders
  <2>2. CASE ReadForUpdate(q)
    <3>1. pc'[q] = "reading" /\ target'[q] \in Ids /\ change'[q] \in Patches
      BY <2>2 DEF ReadForUpdate, Advance, IInv, TypeOK
    <3>2. Order(q)' = {[what |-> "change", id |-> target'[q], body |-> change'[q]]}
      BY <3>1 DEF Order
    <3> QED BY <3>1, <3>2 DEF Promise!Orders
  <2>3. CASE ReadForDelete(q)
    <3>1. pc'[q] = "deleting" /\ target'[q] \in Ids
      BY <2>3 DEF ReadForDelete, Advance, IInv, TypeOK
    <3>2. Order(q)' = {[what |-> "remove", id |-> target'[q], body |-> None]}
      BY <3>1 DEF Order
    <3> QED BY <3>1, <3>2 DEF Promise!Orders
  <2> QED BY <2>1, <2>2, <2>3
<1> QED BY <1>2, <1>3, <1>4 DEF Promise!Ask

\* The statements that follow are part of what was asked.
LEMMA StatementsStutter ==
    ASSUME IInv, NEW q \in Requests,
           \/ Insert(q) \/ LockRow(q) \/ UpdateRow(q) \/ DeleteRow(q)
           \/ CheckSlot(q) /\ ~ End(q)
    PROVE  UNCHANGED Promise!vars
<1>1. /\ UNCHANGED <<rows, target, change>>
      /\ \A p \in Requests \ {q} : pc'[p] = pc[p] /\ draft'[p] = draft[p]
  BY DEF Insert, LockRow, UpdateRow, DeleteRow, CheckSlot, Advance, IInv, TypeOK
<1>2. \/ pc[q] = "creating" /\ pc'[q] = "inserted" /\ draft'[q] = draft[q]
      \/ /\ pc[q] \in {"reading", "updating", "locked"}
         /\ pc'[q] \in {"updating", "locked", "updated"}
      \/ pc[q] = "deleting" /\ pc'[q] = "deleted"
  BY DEF Insert, LockRow, UpdateRow, DeleteRow, CheckSlot, Advance, IInv, TypeOK
<1>3. Order(q)' = Order(q)
  BY <1>1, <1>2 DEF Order
<1>4. Asked' = Asked
  BY <1>1, <1>3, OneAsks DEF Asked
<1> QED BY <1>1, <1>4 DEF Promise!vars

\* A request that ends has its answer.
LEMMA EndAnswers ==
    ASSUME IInv, NEW q \in Requests, End(q)
    PROVE  IF pc[q] \in {"new", "done"} THEN UNCHANGED Asked ELSE Promise!Answer(q)
<1>1. \A p \in Requests \ {q} : /\ pc'[p] = pc[p] /\ target'[p] = target[p]
                                /\ draft'[p] = draft[p] /\ change'[p] = change[p]
  BY DEF End, Advance, IInv, TypeOK
<1>2. Order(q)' = {}
  BY DEF End, Advance, Order, IInv, TypeOK
<1>3. IF pc[q] \in {"new", "done"} THEN Order(q) = {} ELSE Order(q) # {}
  BY DEF Order, IInv, TypeOK, Steps
<1>4. Asked' = [Asked EXCEPT ![q] = {}] /\ Asked[q] = Order(q) /\ Asked'[q] = {}
  BY <1>1, <1>2, OneAsks
<1>5. CASE pc[q] \in {"new", "done"}
  BY <1>3, <1>4, <1>5 DEF Asked
<1>6. CASE pc[q] \notin {"new", "done"}
  BY <1>3, <1>4, <1>6 DEF Promise!Answer
<1> QED BY <1>5, <1>6

\* Every end but the commit forgets what was asked.
LEMMA EndForgets ==
    ASSUME IInv, NEW q \in Requests, End(q), UNCHANGED rows
    PROVE  Promise!Forget(q) \/ UNCHANGED Promise!vars
BY EndAnswers DEF Promise!Forget, Promise!vars

\* The commit applies it.
LEMMA CommitApplies ==
    ASSUME IInv, NEW q \in Requests, Commit(q)
    PROVE  Promise!Apply(q)
<1> DEFINE t == target[q]
<1>1. /\ pc[q] \in {"inserted", "updated", "deleted"} /\ End(q)
      /\ rows' = [rows EXCEPT ![t] = draft[q]]
  BY DEF Commit
<1>2. Promise!Answer(q) /\ Asked[q] = Order(q)
  BY <1>1, EndAnswers DEF Asked
<1>3. t \in Ids /\ Promise!Put(t, draft[q])
  BY <1>1 DEF IInv, RequestsOK, Promise!Put
<1> HIDE DEF t
<1>4. CASE pc[q] = "inserted"
  <2>1. ~ There(t) /\ Promise!FreeFor(t, draft[q])
    BY <1>4, FreeAtCommit DEF IInv, RequestsOK, Creating, Placed, t
  <2>2. Promise!Add(t, draft[q])
    BY <1>3, <2>1 DEF Promise!Add, Promise!Present, There
  <2>3. Order(q) = {[what |-> "add", id |-> t, body |-> draft[q]]}
    BY <1>4 DEF Order, t
  <2> QED BY <1>2, <2>2, <2>3 DEF Promise!Apply
<1>5. CASE pc[q] = "updated"
  <2>1. /\ There(t) /\ Fits(change[q], rows[t])
        /\ draft[q] = Merge(rows[t], change[q]) /\ Ordered(draft[q])
        /\ Promise!FreeFor(t, draft[q])
    BY <1>5, UpdatedRow, FreeAtCommit DEF Placed, t
  <2>2. Promise!Fits(change[q], rows[t]) /\ Promise!Ordered(draft[q])
        /\ draft[q] = Promise!Merge(rows[t], change[q])
    BY <2>1, SamePatches
  <2>3. Promise!Change(t, change[q])
    BY <1>3, <2>1, <2>2 DEF Promise!Change, Promise!Present, There
  <2>4. Order(q) = {[what |-> "change", id |-> t, body |-> change[q]]}
    BY <1>5 DEF Order, t
  <2> QED BY <1>2, <2>3, <2>4 DEF Promise!Apply
<1>6. CASE pc[q] = "deleted"
  <2>1. Promise!Remove(t)
    BY <1>3, <1>6 DEF IInv, RequestsOK, Promise!Remove
  <2>2. Order(q) = {[what |-> "remove", id |-> t, body |-> None]}
    BY <1>6 DEF Order, t
  <2> QED BY <1>2, <2>1, <2>2 DEF Promise!Apply
<1> QED BY <1>1, <1>4, <1>5, <1>6

\* Every step is one of Timetable's, or none.
LEMMA NextTimetable == IInv /\ [Next]_vars => [Promise!Next]_(Promise!vars)
<1> SUFFICES ASSUME IInv, [Next]_vars PROVE Promise!Next \/ UNCHANGED Promise!vars
  OBVIOUS
<1>1. CASE UNCHANGED vars
  BY <1>1 DEF vars, requestVars, Promise!vars, Asked, Order
<1>2. ASSUME NEW q \in Requests,
             \/ Reject(q) \/ Rollback(q) \/ UpdateFails(q) \/ SlotConflict(q)
             \/ DeadlockVictim(q)
             \/ CheckSlot(q) /\ End(q)
      PROVE  Promise!Next \/ UNCHANGED Promise!vars
  <2>1. End(q) /\ UNCHANGED rows
    BY <1>2 DEF Reject, Rollback, UpdateFails, SlotConflict, DeadlockVictim, CheckSlot
  <2> QED BY <2>1, EndForgets DEF Promise!Next
<1>3. ASSUME NEW q \in Requests,
             \/ StartCreate(q) \/ ReadForUpdate(q) \/ ReadForDelete(q) \/ Commit(q)
      PROVE  Promise!Next
  BY <1>3, ReadAsks, CommitApplies DEF Promise!Next
<1> QED BY <1>1, <1>2, <1>3, StatementsStutter DEF Next

\* However requests overlap, each takes effect at its commit as it was asked
\* for, or not at all: no update is lost, none revives a deleted row, and no
\* entry turns into an override.
THEOREM Implementation == Spec => TimetableSpec
<1>1. Spec => Promise!Init /\ [][Promise!Next]_(Promise!vars)
  BY InitTimetable, NextTimetable, Invariance, PTL DEF Spec
<1> QED BY <1>1 DEF TimetableSpec, Promise!Spec
=============================================================================
