-------------------------- MODULE SchoolClassProofs --------------------------
(***************************************************************************)
(* Theorems about SchoolClass and Lifespan for every set of requests,      *)
(* people, row identities, moments and days.                               *)
(***************************************************************************)
EXTENDS Lifespan, TLAPS

EventSteps == {"editing", "edited", "erasing", "erased"}
SubjectSteps == {"using", "used", "renaming", "renamed", "dropping", "dropped", "clearing"}

\* A step of q moves q alone, to one of the places S.
Moves(q, S) == \E s \in S : pc' = [pc EXCEPT ![q] = s]

-----------------------------------------------------------------------------
(* Where the steps lead.                                                    *)

LEMMA MemberMoves ==
    ASSUME NEW q \in Requests, MemberStep(q)
    PROVE  Moves(q, MemberSteps \cup {"done"})
BY DEF MemberStep, Moves, MemberSteps, StartAdd, InsertMember, AlreadyMember, ReadMember,
       ChangeRole, MemberGone, RemoveMember, CommitMember, Advance, End

LEMMA EventMoves ==
    ASSUME NEW q \in Requests, EventStep(q)
    PROVE  Moves(q, EventSteps \cup {"done"})
BY DEF EventStep, Moves, EventSteps, CreateEvent, ReadForUpdate, UpdateEvent, UpdateRefused,
       CommitUpdate, ReadForDelete, DeleteEvent, CommitDelete, EndEvent, End, Advance

LEMMA SubjectMoves ==
    ASSUME NEW q \in Requests, SubjectStep(q)
    PROVE  Moves(q, SubjectSteps \cup {"done"})
BY DEF SubjectStep, Moves, SubjectSteps, CreateSubject, ReadForUse, InsertUse, UseRefused,
       CommitUse, DropUse, ReadSubject, RenameSubject, SubjectGone, DropSubject, SubjectInUse,
       CommitSubject, ClearCache, EndSubject, End, Advance

LEMMA OtherMoves ==
    ASSUME NEW q \in Requests, Authorize(q) \/ Upload(q) \/ Reject(q) \/ Rollback(q)
    PROVE  Moves(q, {"allowed", "uploading", "done"})
BY DEF Moves, Authorize, Upload, Reject, Rollback, EndEvent, End, Advance

-----------------------------------------------------------------------------
(* The subject.                                                             *)

\* A step elsewhere does not concern the subject.
LEMMA SubjectFrame ==
    ASSUME TypeOK, SubjectOK, NEW q \in Requests, UNCHANGED subjectVars,
           Moves(q, MemberSteps \cup EventSteps \cup {"allowed", "uploading", "done"})
    PROVE  SubjectOK'
<1>1. \A r \in Requests :
        pc'[r] \in {"renaming", "renamed", "used", "dropping", "dropped"} => pc'[r] = pc[r]
  BY DEF Moves, TypeOK, MemberSteps, EventSteps
<1>2. SubjectThere' = SubjectThere
  BY DEF SubjectThere, subjectVars
<1>3. \A r \in Requests : SubjectRequestOK(r)'
  BY <1>1, <1>2 DEF SubjectOK, SubjectRequestOK, subjectVars
<1> QED BY <1>2, <1>3 DEF SubjectOK, UsesHaveSubject, SubjectToldTrue, subjectVars

\* Each step on the subject keeps what is said of it.
LEMMA SubjectKept ==
    ASSUME TypeOK, SubjectOK, NEW q \in Requests, SubjectStep(q)
    PROVE  SubjectOK'
<1> USE DEF SubjectOK, SubjectRequestOK, SubjectThere, UsesHaveSubject, SubjectToldTrue, TypeOK
<1>1. CASE CreateSubject(q)
  BY <1>1 DEF CreateSubject, EndSubject, End, Advance
<1>2. CASE ReadForUse(q) \/ ReadSubject(q)
  BY <1>2 DEF ReadForUse, ReadSubject, Advance, subjectVars
<1>3. CASE InsertUse(q)
  BY <1>3 DEF InsertUse, DropLocked, Advance, subjectVars
<1>4. CASE UseRefused(q) \/ SubjectGone(q) \/ SubjectInUse(q) \/ ClearCache(q)
  BY <1>4 DEF UseRefused, SubjectGone, SubjectInUse, ClearCache, EndSubject, End,
              Advance, subjectVars
<1>5. CASE CommitUse(q)
  BY <1>5 DEF CommitUse, EndSubject, End, Advance
<1>6. CASE DropUse(q)
  BY <1>6 DEF DropUse, EndSubject, End, Advance
<1>7. CASE RenameSubject(q)
  BY <1>7 DEF RenameSubject, SubjectLocked, Advance, subjectVars
<1>8. CASE DropSubject(q)
  BY <1>8 DEF DropSubject, SubjectLocked, NamedBy, Advance, subjectVars
<1>9. CASE CommitSubject(q)
  BY <1>9 DEF CommitSubject, Advance
<1> QED BY <1>1, <1>2, <1>3, <1>4, <1>5, <1>6, <1>7, <1>8, <1>9 DEF SubjectStep

-----------------------------------------------------------------------------
(* The school event.                                                        *)

\* A step elsewhere does not concern the event.
LEMMA EventFrame ==
    ASSUME TypeOK, EventOK, NEW q \in Requests, UNCHANGED <<life, event, announced, behind>>,
           \A r \in Requests \ {q} : seen'[r] = seen[r] /\ change'[r] = change[r],
           Moves(q, MemberSteps \cup SubjectSteps \cup {"allowed", "uploading", "done"})
    PROVE  EventOK'
<1>1. \A r \in Requests : pc'[r] \in EventSteps => pc'[r] = pc[r] /\ r # q
  BY DEF Moves, TypeOK, MemberSteps, EventSteps, SubjectSteps
<1>2. Live' = Live
  BY DEF Live
<1>3. \A r \in Requests : EventRequestOK(r)'
  BY <1>1, <1>2 DEF EventOK, EventRequestOK, EventSteps, InOrder, Merge, Sent
<1> QED BY <1>2, <1>3 DEF EventOK, EventInOrder, AnnouncedInOrder, AnnouncedIsStored, InOrder

\* Dates laid over dates make dates.
LEMMA MergeType ==
    ASSUME NEW span \in Spans, NEW c \in Changes
    PROVE  Merge(span, c) \in Spans
BY DEF Merge, Sent, Spans, Changes

\* A row or an announcement is never the value that stands for none.
LEMMA SpansAreSomething == None \notin Spans
BY NoneAssumption

\* Each step on the event keeps what is said of it.
LEMMA EventKept ==
    ASSUME TypeOK, EventOK, NEW q \in Requests, EventStep(q)
    PROVE  EventOK'
<1> USE DEF EventOK, EventRequestOK, TypeOK, Live
<1> USE SpansAreSomething DEF EventInOrder, AnnouncedInOrder, AnnouncedIsStored
<1>1. CASE CreateEvent(q)
  BY <1>1 DEF CreateEvent, EndEvent, End, Advance, InOrder
<1>2. CASE ReadForUpdate(q)
  <2>1. PICK c \in Changes : Permits(event, c) /\ change' = [change EXCEPT ![q] = c]
    BY <1>2 DEF ReadForUpdate
  <2>2. seen'[q] = event /\ change'[q] = c /\ InOrder(Merge(event, c)) /\ event \in Spans
    BY <1>2, <2>1 DEF ReadForUpdate, Permits
  <2>3. UNCHANGED <<life, event, announced, behind>>
    BY <1>2 DEF ReadForUpdate
  <2>4. /\ pc'[q] = "editing"
        /\ \A r \in Requests \ {q} : pc'[r] = pc[r] /\ seen'[r] = seen[r] /\ change'[r] = change[r]
    BY <1>2, <2>1 DEF ReadForUpdate, Advance
  <2>5. InOrder(Merge(seen[q], change[q]))'
    BY <2>2 DEF InOrder, Merge, Sent
  <2>6. EventRequestOK(q)'
    BY <1>2, <2>2, <2>3, <2>4, <2>5 DEF ReadForUpdate
  <2>7. \A r \in Requests \ {q} : EventRequestOK(r)'
    BY <2>3, <2>4 DEF InOrder, Merge, Sent
  <2> QED BY <2>3, <2>6, <2>7 DEF InOrder
<1>3. CASE UpdateEvent(q)
  BY <1>3 DEF UpdateEvent, EventLocked, Accepts, Advance, eventVars, InOrder, Merge, Sent
<1>4. CASE UpdateRefused(q)
  BY <1>4 DEF UpdateRefused, EndEvent, End, Advance, InOrder, Merge, Sent
<1>5. CASE CommitUpdate(q)
  <2>1. event \in Spans /\ seen[q] \in Spans /\ change[q] \in Changes
    BY <1>5 DEF CommitUpdate
  <2>2. Merge(event, change[q]) \in Spans /\ Merge(seen[q], change[q]) \in Spans
    BY <2>1, MergeType
  <2>3. /\ pc'[q] = "done"
        /\ \A r \in Requests \ {q} : pc'[r] = pc[r] /\ seen'[r] = seen[r] /\ change'[r] = change[r]
    BY <1>5 DEF CommitUpdate, EndEvent, End, Advance
  <2>4. \A r \in Requests : EventRequestOK(r)'
    BY <1>5, <2>3 DEF CommitUpdate, InOrder, Merge, Sent
  <2>5. (EventInOrder /\ AnnouncedInOrder)'
    BY <1>5 DEF CommitUpdate, InOrder
  <2>6. AnnouncedIsStored'
    BY <1>5, <2>2 DEF CommitUpdate
  <2> QED BY <1>5, <2>2, <2>4, <2>5, <2>6 DEF CommitUpdate
<1>6. CASE ReadForDelete(q) \/ DeleteEvent(q)
  BY <1>6 DEF ReadForDelete, DeleteEvent, EventLocked, Advance, eventVars, InOrder, Merge, Sent
<1>7. CASE CommitDelete(q)
  BY <1>7 DEF CommitDelete, EndEvent, End, Advance, InOrder, Merge, Sent
<1> QED BY <1>1, <1>2, <1>3, <1>4, <1>5, <1>6, <1>7 DEF EventStep

-----------------------------------------------------------------------------
(* The members.                                                             *)

\* A request that leaves, or is elsewhere, does not concern the members.
LEMMA MembersFrame ==
    ASSUME TypeOK, MembersOK, NEW q \in Requests, UNCHANGED <<members, known, hollow>>,
           Moves(q, EventSteps \cup SubjectSteps \cup {"allowed", "uploading", "done"}),
           \/ pc[q] \notin MemberSteps /\ UNCHANGED <<target, draft>>
           \/ /\ target' = [target EXCEPT ![q] = None]
              /\ draft' = [draft EXCEPT ![q] = None]
    PROVE  MembersOK'
<1>1. /\ pc'[q] \notin MemberSteps /\ target'[q] = None
      /\ \A r \in Requests \ {q} : pc'[r] = pc[r] /\ target'[r] = target[r] /\ draft'[r] = draft[r]
  BY DEF Moves, TypeOK, MemberSteps, EventSteps, SubjectSteps, MembersOK, CarriesOK
<1>2. /\ \A i : There(i)' = There(i)
      /\ \A p : RowsOf(p)' = RowsOf(p)
  BY DEF There, RowsOf
<1>3. \A r \in Requests : CarriesOK(r)'
  <2>1. CarriesOK(q)'
    BY <1>1 DEF CarriesOK, MemberSteps
  <2>2. ASSUME NEW r \in Requests \ {q} PROVE CarriesOK(r)'
    <3>1. CarriesOK(r) /\ (pc[r] \in {"adding", "added"} => target[r] # None)
      BY IdsAssumption DEF MembersOK, CarriesOK, MemberSteps
    <3> QED BY <1>1, <1>2, <3>1 DEF CarriesOK
  <2> QED BY <2>1, <2>2
<1>4. \A r \in Requests : HoldsOK(r)'
  BY <1>1, <1>2 DEF MembersOK, HoldsOK, Holds, MemberSteps
<1>5. MembersUnique' /\ MembersKnown'
  BY <1>2 DEF MembersOK, MembersUnique, MembersKnown
<1> QED BY <1>3, <1>4, <1>5 DEF MembersOK

\* A request takes its next step and the rows stay as they are: what is to be
\* shown is about that request and what it shares with another.
LEMMA MembersAdvance ==
    ASSUME TypeOK, MembersOK, NEW q \in Requests, UNCHANGED <<members, known, hollow>>,
           NEW step \in MemberSteps, pc' = [pc EXCEPT ![q] = step],
           \A r \in Requests \ {q} : target'[r] = target[r] /\ draft'[r] = draft[r],
           CarriesOK(q)', step = "changed" => There(target'[q]),
           step = "added" => RowsOf(draft'[q].person) = {},
           \A r \in Requests \ {q} :
             /\ pc[r] \in {"adding", "added"} => target'[q] # target[r]
             /\ step = "added" /\ pc[r] = "added" => draft'[q].person # draft[r].person
             /\ step \in {"changed", "removed"} => ~ Holds(r, target'[q])
    PROVE  MembersOK'
<1>1. /\ pc'[q] = step
      /\ \A r \in Requests \ {q} : pc'[r] = pc[r]
  BY DEF TypeOK
<1>2. /\ \A i : There(i)' = There(i)
      /\ \A p : RowsOf(p)' = RowsOf(p)
  BY DEF There, RowsOf
<1>3. \A r \in Requests \ {q} : CarriesOK(r)'
  BY <1>1, <1>2 DEF MembersOK, CarriesOK
<1>4. \A r \in Requests \ {q} : HoldsOK(r)'
  BY <1>1, <1>2 DEF MembersOK, HoldsOK, Holds
<1>5. HoldsOK(q)'
  BY <1>1, <1>2 DEF HoldsOK, Holds
<1>6. MembersUnique' /\ MembersKnown'
  BY <1>2 DEF MembersOK, MembersUnique, MembersKnown
<1> QED BY <1>3, <1>4, <1>5, <1>6 DEF MembersOK

\* The steps before the COMMIT.
LEMMA MembersBefore ==
    ASSUME TypeOK, MembersOK, NEW q \in Requests, MemberStep(q), ~ CommitMember(q)
    PROVE  MembersOK'
<1> USE DEF Advance
<1>1. CASE StartAdd(q)
  <2>1. PICK i \in Ids, row \in Memberships :
             /\ Unused(i)
             /\ target' = [target EXCEPT ![q] = i]
             /\ draft' = [draft EXCEPT ![q] = row]
    BY <1>1 DEF StartAdd
  <2>2. /\ UNCHANGED <<members, known, hollow>> /\ pc' = [pc EXCEPT ![q] = "adding"]
        /\ target'[q] = i /\ draft'[q] = row /\ pc'[q] = "adding"
        /\ \A r \in Requests \ {q} : target'[r] = target[r] /\ draft'[r] = draft[r]
    BY <1>1, <2>1 DEF StartAdd, TypeOK
  <2>3. CarriesOK(q)'
    BY <2>1, <2>2 DEF CarriesOK, MemberSteps, Unused, There
  <2> QED BY <2>1, <2>2, <2>3, MembersAdvance DEF Unused, MemberSteps
<1>2. CASE InsertMember(q)
  <2>1. /\ CarriesOK(q)' /\ "added" \in MemberSteps
        /\ \A r \in Requests \ {q} : target'[q] # target[r]
    BY <1>2 DEF InsertMember, MembersOK, CarriesOK, MemberSteps, memberVars, TypeOK, There
  <2>2. \A r \in Requests \ {q} : pc[r] = "added" => draft'[q].person # draft[r].person
    BY <1>2 DEF InsertMember, Claimants, memberVars
  <2> QED BY <1>2, <2>1, <2>2, MembersAdvance DEF InsertMember, memberVars
<1>3. CASE AlreadyMember(q) \/ MemberGone(q)
  <2>1. Moves(q, EventSteps \cup SubjectSteps \cup {"allowed", "uploading", "done"})
    BY <1>3 DEF AlreadyMember, MemberGone, End, Moves
  <2> QED BY <1>3, <2>1, MembersFrame DEF AlreadyMember, MemberGone, End
<1>4. CASE ReadMember(q)
  <2>1. PICK i \in Ids, row \in Memberships, step \in {"changing", "removing"} :
             /\ There(i)
             /\ row.person = members[i].person
             /\ target' = [target EXCEPT ![q] = i]
             /\ draft' = [draft EXCEPT ![q] = row]
             /\ pc' = [pc EXCEPT ![q] = step]
    <3>1. PICK i \in Ids :
             /\ There(i)
             /\ target' = [target EXCEPT ![q] = i]
             /\ \/ /\ \E role \in Roles :
                        draft' = [draft EXCEPT ![q] = [members[i] EXCEPT !.role = role]]
                   /\ pc' = [pc EXCEPT ![q] = "changing"]
                \/ /\ draft' = [draft EXCEPT ![q] = members[i]]
                   /\ pc' = [pc EXCEPT ![q] = "removing"]
      BY <1>4 DEF ReadMember
    <3>2. members[i] \in Memberships
      BY <3>1 DEF There, TypeOK
    <3>3. \A role \in Roles :
             /\ [members[i] EXCEPT !.role = role] \in Memberships
             /\ [members[i] EXCEPT !.role = role].person = members[i].person
      BY <3>2 DEF Memberships
    <3> QED BY <3>1, <3>2, <3>3
  <2>2. /\ UNCHANGED <<members, known, hollow>>
        /\ target'[q] = i /\ draft'[q] = row /\ pc'[q] = step
        /\ \A r \in Requests \ {q} : target'[r] = target[r] /\ draft'[r] = draft[r]
    BY <1>4, <2>1 DEF ReadMember, TypeOK
  <2>3. CarriesOK(q)'
    BY <2>1, <2>2 DEF CarriesOK, MemberSteps, There
  <2>4. \A r \in Requests \ {q} : pc[r] \in {"adding", "added"} => target'[q] # target[r]
    BY <2>1, <2>2 DEF MembersOK, CarriesOK
  <2> QED BY <2>1, <2>2, <2>3, <2>4, MembersAdvance DEF MemberSteps
<1>5. CASE ChangeRole(q) \/ RemoveMember(q)
  <2>1. PICK step \in {"changed", "removed"} :
             /\ pc' = [pc EXCEPT ![q] = step]
             /\ step = "changed" => There(target[q])
    BY <1>5 DEF ChangeRole, RemoveMember
  <2>2. UNCHANGED <<members, known, hollow, target, draft>> /\ pc'[q] = step
    BY <1>5, <2>1 DEF ChangeRole, RemoveMember, memberVars, TypeOK
  <2>3. CarriesOK(q)'
    BY <1>5, <2>1, <2>2 DEF ChangeRole, RemoveMember, MembersOK, CarriesOK, MemberSteps, There
  <2>4. \A r \in Requests \ {q} :
             /\ pc[r] \in {"adding", "added"} => target'[q] # target[r]
             /\ ~ Holds(r, target'[q])
    BY <1>5, <2>2 DEF ChangeRole, RemoveMember, Holders, MembersOK, CarriesOK
  <2> QED BY <2>1, <2>2, <2>3, <2>4, MembersAdvance DEF MemberSteps
<1> QED BY <1>1, <1>2, <1>3, <1>4, <1>5 DEF MemberStep

\* What the COMMIT on a member writes: the row of q is new, or of the same person.
LEMMA CommitEffect ==
    ASSUME TypeOK, MembersOK, NEW q \in Requests, CommitMember(q),
           NEW i, i = target[q], NEW p, p = draft[q].person
    PROVE  /\ i \in Ids /\ draft[q] \in Memberships /\ p \in People
           /\ pc[q] = "added" => ~ There(i) /\ \A r \in Requests \ {q} : target[r] # i
           /\ pc[q] # "added" /\ There(i) => members[i].person = p
           /\ pc[q] = "changed" => There(i)
           /\ pc[q] = "added" => RowsOf(p) = {}
           /\ pc[q] \in {"added", "changed", "removed"}
           /\ \A j \in Ids \ {i} : members'[j] = members[j]
           /\ pc[q] = "removed" => ~ There(i)'
           /\ pc[q] # "removed" => There(i)' /\ members'[i] = draft[q]
           /\ \A j \in Ids : There(j)' =>
                \/ There(j) /\ members'[j].person = members[j].person
                \/ pc[q] = "added" /\ j = i /\ members'[j].person = p
<1>1. /\ i \in Ids /\ draft[q] \in Memberships /\ p \in People
      /\ pc[q] = "added" => ~ There(i) /\ \A r \in Requests \ {q} : target[r] # i
      /\ pc[q] # "added" /\ There(i) => members[i].person = p
      /\ pc[q] = "changed" => There(i)
      /\ pc[q] = "added" => RowsOf(p) = {}
      /\ pc[q] \in {"added", "changed", "removed"}
  BY DEF MembersOK, CarriesOK, HoldsOK, MemberSteps, Memberships, CommitMember
<1>2. /\ \A j \in Ids \ {i} : members'[j] = members[j]
      /\ pc[q] = "removed" => ~ There(i)'
      /\ pc[q] # "removed" => There(i)' /\ members'[i] = draft[q]
  BY <1>1, NoneAssumption DEF CommitMember, TypeOK, There
<1> QED BY <1>1, <1>2 DEF There

\* The COMMIT on a member: its row is new, of the same person, or gone.
LEMMA MembersCommit ==
    ASSUME TypeOK, MembersOK, NEW q \in Requests, CommitMember(q)
    PROVE  MembersOK'
<1>0. PICK i, p : i = target[q] /\ p = draft[q].person
  OBVIOUS
<1>1. /\ i \in Ids /\ draft[q] \in Memberships /\ p \in People
      /\ pc[q] = "added" => ~ There(i) /\ \A r \in Requests \ {q} : target[r] # i
      /\ pc[q] # "added" /\ There(i) => members[i].person = p
      /\ pc[q] = "changed" => There(i)
      /\ pc[q] = "added" => RowsOf(p) = {}
      /\ pc[q] \in {"added", "changed", "removed"}
  BY <1>0, CommitEffect
<1>2. /\ pc' = [pc EXCEPT ![q] = "done"]
      /\ target' = [target EXCEPT ![q] = None]
      /\ draft' = [draft EXCEPT ![q] = None]
  BY DEF CommitMember, End, Advance
<1>3. /\ pc'[q] = "done" /\ target'[q] = None
      /\ \A r \in Requests \ {q} : pc'[r] = pc[r] /\ target'[r] = target[r] /\ draft'[r] = draft[r]
  BY <1>2 DEF TypeOK
<1>4. /\ \A j \in Ids \ {i} : members'[j] = members[j]
      /\ pc[q] = "removed" => ~ There(i)'
      /\ pc[q] # "removed" => There(i)' /\ members'[i] = draft[q]
  BY <1>0, CommitEffect
<1>5. \A j \in Ids : There(j)' =>
        \/ There(j) /\ members'[j].person = members[j].person
        \/ pc[q] = "added" /\ j = i /\ members'[j].person = p
  BY <1>0, CommitEffect
<1>6. MembersUnique'
  <2>1. \A j \in Ids : There(j) /\ pc[q] = "added" => members[j].person # p
    BY <1>1 DEF RowsOf
  <2> QED BY <1>5, <2>1 DEF MembersOK, MembersUnique
<1>7. \A r \in Requests : CarriesOK(r)'
  <2>1. CarriesOK(q)'
    BY <1>3 DEF CarriesOK, MemberSteps
  <2>2. ASSUME NEW r \in Requests \ {q} PROVE CarriesOK(r)'
    <3>1. CarriesOK(r)
      BY DEF MembersOK
    <3>2. pc[r] \in {"adding", "added"} =>
            ~ There(target[r])' /\ \A s \in Requests \ {r} : target'[s] # target[r]
      BY <1>0, <1>3, <1>4, <3>1, IdsAssumption DEF CarriesOK, There, MemberSteps
    <3>3. pc[r] \in MemberSteps \ {"adding", "added"} /\ There(target[r])' =>
            members'[target[r]].person = draft[r].person
      BY <1>1, <1>3, <1>5, <3>1 DEF CarriesOK
    <3> QED BY <1>3, <3>1, <3>2, <3>3 DEF CarriesOK, There
  <2> QED BY <2>1, <2>2
<1>8. \A r \in Requests : HoldsOK(r)'
  <2>1. HoldsOK(q)'
    BY <1>3 DEF HoldsOK, Holds
  <2>2. ASSUME NEW r \in Requests \ {q} PROVE HoldsOK(r)'
    <3>1. HoldsOK(r) /\ CarriesOK(r)
      BY DEF MembersOK
    <3>2. pc[r] = "changed" => There(target[r])'
      <4> SUFFICES ASSUME pc[r] = "changed" PROVE There(target[r])'
        OBVIOUS
      <4>1. There(target[r]) /\ target[r] \in Ids
        BY <3>1 DEF HoldsOK, CarriesOK, MemberSteps
      <4>2. CASE target[r] # i
        BY <1>3, <1>4, <4>1, <4>2 DEF There
      <4>3. CASE target[r] = i
        <5>1. pc[q] # "removed"
          BY <1>0, <3>1, <4>1, <4>3 DEF HoldsOK, Holds
        <5> QED BY <1>3, <1>4, <4>3, <5>1
      <4> QED BY <4>2, <4>3
    <3>3. pc[r] = "added" => RowsOf(draft[r].person)' = {}
      <4> SUFFICES ASSUME pc[r] = "added", NEW j \in Ids, There(j)'
                   PROVE  members'[j].person # draft[r].person
        BY <1>3 DEF RowsOf
      <4>1. \A k \in Ids : There(k) => members[k].person # draft[r].person
        BY <3>1 DEF HoldsOK, RowsOf
      <4>2. pc[q] = "added" => p # draft[r].person
        BY <1>0, <3>1 DEF HoldsOK
      <4> QED BY <1>5, <4>1, <4>2
    <3>4. ASSUME NEW s \in Requests \ {r} PROVE ~ (Holds(r, target[r])' /\ Holds(s, target[r])')
      <4>1. ~ (Holds(r, target[r]) /\ Holds(s, target[r]))
        BY <3>1 DEF HoldsOK
      <4>2. pc[r] \in {"changed", "removed"} => target[r] \in Ids
        BY <3>1 DEF CarriesOK, MemberSteps
      <4>3. pc[q] = "added" => target[r] # i
        BY <1>1
      <4> QED BY <1>3, <1>5, <4>1, <4>2, <4>3 DEF Holds
    <3> QED BY <1>3, <3>1, <3>2, <3>3, <3>4 DEF HoldsOK, Holds, There
  <2> QED BY <2>1, <2>2
<1>9. MembersKnown'
  <2> SUFFICES ASSUME NEW x \in People \ hollow'
               PROVE  /\ known'[x] = None => RowsOf(x)' = {}
                      /\ known'[x] # None => \E j \in RowsOf(x)' : members'[j].role = known'[x]
    BY DEF MembersKnown, RowsOf, There
  <2>1. CASE x # p
    <3>1. known'[x] = known[x] /\ x \notin hollow
      BY <1>0, <1>1, <2>1 DEF CommitMember, TypeOK
    <3>2. \A j \in Ids : j \in RowsOf(x) => j # i
      BY <1>1, <2>1 DEF RowsOf
    <3>3. \A j \in Ids : j \in RowsOf(x)' <=> j \in RowsOf(x)
      BY <1>1, <1>4, <1>5, <2>1, <3>2 DEF RowsOf, There
    <3>4. RowsOf(x)' = RowsOf(x)
      BY <3>3 DEF RowsOf
    <3> QED BY <1>4, <3>1, <3>2, <3>4 DEF MembersOK, MembersKnown, RowsOf
  <2>2. CASE x = p /\ pc[q] # "removed"
    <3>1. known'[x] = draft[q].role /\ known'[x] # None
      BY <1>0, <1>1, <2>2, NoneAssumption DEF CommitMember, TypeOK, Memberships
    <3>2. i \in RowsOf(x)' /\ members'[i].role = known'[x]
      BY <1>0, <1>1, <1>4, <2>2, <3>1 DEF RowsOf
    <3> QED BY <3>1, <3>2
  <2>3. CASE x = p /\ pc[q] = "removed"
    <3>1. There(i) /\ known'[x] = None
      BY <1>0, <1>1, <2>3 DEF CommitMember, TypeOK
    <3>2. \A j \in Ids : There(j) /\ members[j].person = p => j = i
      BY <1>1, <2>3, <3>1 DEF MembersOK, MembersUnique
    <3>3. RowsOf(x)' = {}
      BY <1>4, <1>5, <2>3, <3>2 DEF RowsOf
    <3> QED BY <3>1, <3>3
  <2> QED BY <2>1, <2>2, <2>3
<1> QED BY <1>6, <1>7, <1>8, <1>9 DEF MembersOK

-----------------------------------------------------------------------------
(* Who acts as an editor.                                                   *)

\* An end, or a step that stays on its side of the check.
LEMMA ActorsFrame ==
    ASSUME TypeOK, ActorsOK, NEW q \in Requests,
           \/ End(q)
           \/ /\ UNCHANGED actor
              /\ \E s : pc' = [pc EXCEPT ![q] = s] /\ (s \in Acting <=> pc[q] \in Acting)
    PROVE  ActorsOK'
BY DEF TypeOK, ActorsOK, Acting, End, Advance

\* Only the check lets somebody in, and every end lets go of the actor.
LEMMA ActorsKept ==
    ASSUME TypeOK, ActorsOK, NEW q \in Requests, Progress(q) \/ Rollback(q)
    PROVE  ActorsOK'
<1> USE DEF Advance, Acting
<1>1. CASE Authorize(q)
  <2>1. PICK p \in People \cup {Admin} : actor' = [actor EXCEPT ![q] = p]
    BY <1>1 DEF Authorize
  <2>2. p # None
    BY NoneAssumption, AdminAssumption
  <2> QED BY <1>1, <2>1, <2>2 DEF Authorize, ActorsOK, TypeOK
<1>2. CASE MemberStep(q)
  BY <1>2, ActorsFrame DEF MemberStep, StartAdd, InsertMember, AlreadyMember, ReadMember,
     ChangeRole, MemberGone, RemoveMember, CommitMember
<1>3. CASE EventStep(q)
  BY <1>3, ActorsFrame DEF EventStep, CreateEvent, ReadForUpdate, UpdateEvent, UpdateRefused,
     CommitUpdate, ReadForDelete, DeleteEvent, CommitDelete, EndEvent
<1>4. CASE SubjectStep(q)
  BY <1>4, ActorsFrame DEF SubjectStep, CreateSubject, ReadForUse, InsertUse, UseRefused,
     CommitUse, DropUse, ReadSubject, RenameSubject, SubjectGone, DropSubject, SubjectInUse,
     CommitSubject, ClearCache, EndSubject
<1>5. CASE Upload(q) \/ Reject(q) \/ Rollback(q)
  BY <1>5, ActorsFrame DEF Upload, Reject, Rollback, EndEvent
<1> QED BY <1>1, <1>2, <1>3, <1>4, <1>5 DEF Progress

-----------------------------------------------------------------------------
(* Types.                                                                   *)

\* A request at its end carries nothing.
LEMMA EndType ==
    ASSUME TypeOK, NEW q \in Requests, End(q)
    PROVE  /\ pc' \in [Requests -> Steps]
           /\ target' \in [Requests -> Ids \cup {None}]
           /\ draft' \in [Requests -> Memberships \cup {None}]
           /\ actor' \in [Requests -> People \cup {Admin, None}]
BY DEF TypeOK, End, Advance, Steps

\* The same of what it has read of an event.
LEMMA EndEventType ==
    ASSUME TypeOK, NEW q \in Requests, EndEvent(q)
    PROVE  /\ End(q)
           /\ seen' \in [Requests -> Spans \cup {None}]
           /\ change' \in [Requests -> Changes \cup {None}]
           /\ UNCHANGED <<members, known, hollow>>
BY DEF TypeOK, EndEvent

LEMMA MemberType ==
    ASSUME TypeOK, MembersOK, NEW q \in Requests, MemberStep(q),
           UNCHANGED <<eventVars, subjectVars>>
    PROVE  TypeOK'
<1> USE DEF eventVars, subjectVars, Advance, Steps, memberVars
<1>1. CASE StartAdd(q)
  BY <1>1 DEF TypeOK, StartAdd
<1>2. CASE InsertMember(q) \/ ChangeRole(q) \/ RemoveMember(q)
  BY <1>2 DEF TypeOK, InsertMember, ChangeRole, RemoveMember
<1>3. CASE AlreadyMember(q) \/ MemberGone(q)
  BY <1>3, EndType DEF TypeOK, AlreadyMember, MemberGone
<1>4. CASE ReadMember(q)
  <2>1. \A i \in Ids, role \in Roles :
          There(i) => members[i] \in Memberships /\ [members[i] EXCEPT !.role = role] \in Memberships
    BY DEF TypeOK, There, Memberships
  <2>2. draft' \in [Requests -> Memberships \cup {None}]
    BY <1>4, <2>1 DEF TypeOK, ReadMember
  <2>3. target' \in [Requests -> Ids \cup {None}] /\ pc' \in [Requests -> Steps]
    BY <1>4 DEF TypeOK, ReadMember
  <2> QED BY <1>4, <2>2, <2>3 DEF TypeOK, ReadMember
<1>5. CASE CommitMember(q)
  <2>1. target[q] \in Ids /\ draft[q] \in Memberships /\ draft[q].person \in People /\ draft[q].role \in Roles
    BY <1>5 DEF CommitMember, MembersOK, CarriesOK, MemberSteps, Memberships
  <2>2. members' \in [Ids -> Memberships \cup {None}]
    BY <1>5, <2>1 DEF CommitMember, TypeOK
  <2>3. known' \in [People -> Roles \cup {None}] /\ hollow' \in SUBSET People
    BY <1>5, <2>1 DEF CommitMember, TypeOK
  <2>4. /\ pc' \in [Requests -> Steps]
        /\ target' \in [Requests -> Ids \cup {None}]
        /\ draft' \in [Requests -> Memberships \cup {None}]
        /\ actor' \in [Requests -> People \cup {Admin, None}]
    BY <1>5, EndType DEF CommitMember
  <2> QED BY <1>5, <2>2, <2>3, <2>4 DEF CommitMember, TypeOK
<1> QED BY <1>1, <1>2, <1>3, <1>4, <1>5 DEF MemberStep

LEMMA EventType ==
    ASSUME TypeOK, EventOK, NEW q \in Requests, EventStep(q), UNCHANGED subjectVars
    PROVE  TypeOK'
<1> USE EndType, EndEventType DEF subjectVars, Advance, Steps, memberVars
<1>1. CASE CreateEvent(q)
  BY <1>1 DEF TypeOK, CreateEvent
<1>2. CASE ReadForUpdate(q)
  BY <1>2 DEF TypeOK, ReadForUpdate, EventOK, Live
<1>3. CASE UpdateEvent(q) \/ ReadForDelete(q) \/ DeleteEvent(q)
  BY <1>3 DEF TypeOK, UpdateEvent, ReadForDelete, DeleteEvent, eventVars
<1>4. CASE UpdateRefused(q)
  BY <1>4 DEF TypeOK, UpdateRefused
<1>5. CASE CommitUpdate(q)
  <2>1. Merge(event, change[q]) \in Spans /\ Merge(seen[q], change[q]) \in Spans
    BY <1>5, MergeType DEF CommitUpdate, EventOK, EventRequestOK, Live
  <2> QED BY <1>5, <2>1 DEF TypeOK, CommitUpdate
<1>6. CASE CommitDelete(q)
  BY <1>6 DEF TypeOK, CommitDelete
<1> QED BY <1>1, <1>2, <1>3, <1>4, <1>5, <1>6 DEF EventStep

LEMMA SubjectType ==
    ASSUME TypeOK, NEW q \in Requests, SubjectStep(q), UNCHANGED eventVars
    PROVE  TypeOK'
<1> USE EndType DEF eventVars, Advance, Steps, memberVars, TypeOK
<1>1. CASE CreateSubject(q) \/ CommitUse(q) \/ DropUse(q)
  BY <1>1 DEF CreateSubject, CommitUse, DropUse, EndSubject
<1>2. CASE ReadForUse(q) \/ InsertUse(q) \/ ReadSubject(q) \/ RenameSubject(q) \/ DropSubject(q)
  BY <1>2 DEF ReadForUse, InsertUse, ReadSubject, RenameSubject, DropSubject, subjectVars
<1>3. CASE UseRefused(q) \/ SubjectGone(q) \/ SubjectInUse(q) \/ ClearCache(q)
  BY <1>3 DEF UseRefused, SubjectGone, SubjectInUse, ClearCache, EndSubject, subjectVars
<1>4. CASE CommitSubject(q)
  BY <1>4 DEF CommitSubject
<1> QED BY <1>1, <1>2, <1>3, <1>4 DEF SubjectStep

LEMMA OtherType ==
    ASSUME TypeOK, NEW q \in Requests,
           \/ Authorize(q) /\ UNCHANGED <<eventVars, subjectVars>>
           \/ Upload(q) \/ Reject(q) \/ Rollback(q)
    PROVE  TypeOK'
<1> USE EndType, EndEventType DEF eventVars, subjectVars, Advance, Steps, memberVars
<1>1. CASE Authorize(q) /\ UNCHANGED <<eventVars, subjectVars>>
  BY <1>1 DEF TypeOK, Authorize
<1>2. CASE Upload(q)
  BY <1>2 DEF TypeOK, Upload
<1>3. CASE Reject(q) \/ Rollback(q)
  BY <1>3 DEF TypeOK, Reject, Rollback
<1> QED BY <1>1, <1>2, <1>3

-----------------------------------------------------------------------------
(* The invariant.                                                           *)

LEMMA InitInv == Init => Inv
<1> SUFFICES ASSUME Init PROVE Inv
  OBVIOUS
<1> USE DEF Init, MembersInit, EventsInit, SubjectsInit, Roster
<1>1. TypeOK
  <2>1. ASSUME NEW p \in People, RowsOf(p) # {}
        PROVE  members[CHOOSE i \in RowsOf(p) : TRUE].role \in Roles
    BY <2>1 DEF RowsOf, There, Memberships
  <2> QED BY <2>1 DEF TypeOK, Steps
<1>2. MembersOK
  <2>1. MembersUnique
    BY DEF MembersUnique
  <2>2. MembersKnown
    <3> SUFFICES ASSUME NEW p \in People
                 PROVE  /\ known[p] = None => RowsOf(p) = {}
                        /\ known[p] # None => \E i \in RowsOf(p) : members[i].role = known[p]
      BY DEF MembersKnown
    <3>1. CASE RowsOf(p) = {}
      BY <3>1
    <3>2. CASE RowsOf(p) # {}
      <4>1. (CHOOSE i \in RowsOf(p) : TRUE) \in RowsOf(p)
        BY <3>2
      <4>2. members[CHOOSE i \in RowsOf(p) : TRUE].role \in Roles
        BY <4>1 DEF RowsOf, There, Memberships
      <4> QED BY <3>2, <4>1, <4>2, NoneAssumption
    <3> QED BY <3>1, <3>2
  <2> QED BY <2>1, <2>2 DEF MembersOK, CarriesOK, HoldsOK, Holds, MemberSteps
<1>3. ActorsOK
  BY DEF ActorsOK, Acting
<1>4. EventOK
  BY DEF EventOK, EventInOrder, AnnouncedInOrder, AnnouncedIsStored, EventRequestOK, Live
<1>5. SubjectOK
  BY DEF SubjectOK, UsesHaveSubject, SubjectToldTrue, SubjectRequestOK, SubjectThere
<1> QED BY <1>1, <1>2, <1>3, <1>4, <1>5 DEF Inv

\* A step on the members: the event and the subject stay.
LEMMA MemberStepInv ==
    ASSUME Inv, NEW q \in Requests, MemberStep(q), UNCHANGED <<eventVars, subjectVars>>
    PROVE  Inv'
<1> USE DEF Inv
<1>1. TypeOK'
  BY MemberType
<1>2. MembersOK'
  BY MembersBefore, MembersCommit
<1>3. ActorsOK'
  BY ActorsKept DEF Progress
<1>4. Moves(q, MemberSteps \cup {"done"})
  BY MemberMoves
<1>5. EventOK'
  BY <1>4, EventFrame DEF Moves, eventVars
<1>6. SubjectOK'
  BY <1>4, SubjectFrame DEF Moves
<1> QED BY <1>1, <1>2, <1>3, <1>5, <1>6

\* A step on the event: the members and the subject stay.
LEMMA EventStepInv ==
    ASSUME Inv, NEW q \in Requests, EventStep(q), UNCHANGED subjectVars
    PROVE  Inv'
<1> USE DEF Inv
<1>1. TypeOK' /\ EventOK'
  BY EventType, EventKept
<1>2. ActorsOK'
  BY ActorsKept DEF Progress
<1>3. Moves(q, EventSteps \cup {"done"})
  BY EventMoves
<1>4. SubjectOK'
  BY <1>3, SubjectFrame DEF Moves
<1>5. pc[q] \notin MemberSteps
  BY DEF EventStep, CreateEvent, ReadForUpdate, UpdateEvent, UpdateRefused, CommitUpdate,
         ReadForDelete, DeleteEvent, CommitDelete, MemberSteps
<1>6. /\ UNCHANGED <<members, known, hollow>>
      /\ \/ UNCHANGED <<target, draft>>
         \/ /\ target' = [target EXCEPT ![q] = None]
            /\ draft' = [draft EXCEPT ![q] = None]
  BY DEF EventStep, CreateEvent, ReadForUpdate, UpdateEvent, UpdateRefused, CommitUpdate,
         ReadForDelete, DeleteEvent, CommitDelete, EndEvent, End, memberVars
<1>7. MembersOK'
  BY <1>3, <1>5, <1>6, MembersFrame DEF Moves
<1> QED BY <1>1, <1>2, <1>4, <1>7

\* A step on the subject: the members and the event stay.
LEMMA SubjectStepInv ==
    ASSUME Inv, NEW q \in Requests, SubjectStep(q), UNCHANGED eventVars
    PROVE  Inv'
<1> USE DEF Inv
<1>1. TypeOK' /\ SubjectOK'
  BY SubjectType, SubjectKept
<1>2. ActorsOK'
  BY ActorsKept DEF Progress
<1>3. Moves(q, SubjectSteps \cup {"done"})
  BY SubjectMoves
<1>4. EventOK'
  BY <1>3, EventFrame DEF Moves, eventVars
<1>5. pc[q] \notin MemberSteps
  BY DEF SubjectStep, CreateSubject, ReadForUse, InsertUse, UseRefused, CommitUse, DropUse,
         ReadSubject, RenameSubject, SubjectGone, DropSubject, SubjectInUse, CommitSubject,
         ClearCache, MemberSteps
<1>6. /\ UNCHANGED <<members, known, hollow>>
      /\ \/ UNCHANGED <<target, draft>>
         \/ /\ target' = [target EXCEPT ![q] = None]
            /\ draft' = [draft EXCEPT ![q] = None]
  BY DEF SubjectStep, CreateSubject, ReadForUse, InsertUse, UseRefused, CommitUse, DropUse,
         ReadSubject, RenameSubject, SubjectGone, DropSubject, SubjectInUse, CommitSubject,
         ClearCache, EndSubject, End, memberVars
<1>7. MembersOK'
  BY <1>3, <1>5, <1>6, MembersFrame DEF Moves
<1> QED BY <1>1, <1>2, <1>4, <1>7

\* The other steps leave every row alone.
LEMMA OtherStepInv ==
    ASSUME Inv, NEW q \in Requests,
           \/ Authorize(q) /\ UNCHANGED <<eventVars, subjectVars>>
           \/ Upload(q) \/ Reject(q) \/ Rollback(q)
    PROVE  Inv'
<1> USE DEF Inv
<1>1. TypeOK'
  BY OtherType
<1>2. ActorsOK'
  BY ActorsKept DEF Progress
<1>3. Moves(q, {"allowed", "uploading", "done"})
  BY OtherMoves
<1>4. /\ UNCHANGED <<members, known, hollow, life, event, announced, behind, subjectVars>>
      /\ \A r \in Requests \ {q} : seen'[r] = seen[r] /\ change'[r] = change[r]
      /\ \/ pc[q] \notin MemberSteps /\ UNCHANGED <<target, draft>>
         \/ /\ target' = [target EXCEPT ![q] = None]
            /\ draft' = [draft EXCEPT ![q] = None]
  BY DEF Authorize, Upload, Reject, Rollback, EndEvent, End, memberVars, eventVars,
         MemberSteps, TypeOK
<1>5. EventOK'
  BY <1>3, <1>4, EventFrame DEF Moves
<1>6. SubjectOK'
  BY <1>3, <1>4, SubjectFrame DEF Moves
<1>7. MembersOK'
  BY <1>3, <1>4, MembersFrame DEF Moves
<1> QED BY <1>1, <1>2, <1>5, <1>6, <1>7

\* Nothing changes.
LEMMA StutterInv == ASSUME Inv, UNCHANGED vars PROVE Inv'
BY DEF vars, memberVars, eventVars, subjectVars, Inv, TypeOK, MembersOK,
       MembersUnique, MembersKnown, CarriesOK, HoldsOK, Holds, RowsOf, There, ActorsOK,
       EventOK, EventInOrder, AnnouncedInOrder, AnnouncedIsStored, EventRequestOK,
       Live, InOrder, Merge, Sent, SubjectOK, UsesHaveSubject, SubjectToldTrue,
       SubjectRequestOK, SubjectThere

LEMMA NextInv == Inv /\ [Next]_vars => Inv'
BY MemberStepInv, EventStepInv, SubjectStepInv, OtherStepInv, StutterInv
   DEF Next, Progress, Finished

LEMMA Invariance == Spec => []Inv
BY InitInv, NextInv, PTL DEF Spec

-----------------------------------------------------------------------------
(* The days of an event.                                                    *)

\* The WHERE clause and the moments of an event, for a day from a up to b.
LEMMA ListedIsOnDay ==
    ASSUME NEW span \in Spans, InOrder(span), NEW d \in Days
    PROVE  Listed(span, d) <=> OnDay(span, d) /\ ~ AtMidnight(span, d)
<1> DEFINE a == d * DayLength
           b == (d + 1) * DayLength
           s == span.starts
           e == span.ends
<1>1. /\ a \in Int /\ b \in Int /\ a < b
      /\ s \in Int /\ e \in Int \cup {None} /\ (e # None => e \in Int /\ s <= e)
  <2>1. d \in Nat /\ DayLength \in Nat /\ DayLength > 0
    BY DaysAssumption
  <2>2. a \in Int /\ b = a + DayLength
    BY <2>1
  <2>3. s \in Int /\ e \in Int \cup {None} /\ (e # None => e \in Int /\ s <= e)
    <3>1. span.starts \in Times /\ span.ends \in Times \cup {None}
      BY DEF Spans
    <3>2. span.ends # None => span.starts <= span.ends
      BY DEF InOrder
    <3>3. \A t \in Times : t \in Int
      BY TimesAssumption
    <3> QED BY <3>1, <3>2, <3>3
  <2> QED BY <2>1, <2>2, <2>3
<1>2. AtMidnight(span, d) <=> s = a /\ e = s
  BY DEF AtMidnight
<1>3. Listed(span, d) <=> s < b /\ (IF e = None THEN s >= a ELSE e > a)
  BY DEF Listed
<1>4. OnDay(span, d) <=> \E t \in Moments(span) : a <= t /\ t < b
  BY DEF OnDay
<1> HIDE DEF a, b
<1>5. CASE e \in {None, s}
  <2>1. OnDay(span, d) <=> a <= s /\ s < b
    BY <1>4, <1>5 DEF Moments
  <2>2. None # s
    BY NoneAssumption DEF Spans
  <2> QED BY <1>1, <1>2, <1>3, <1>5, <2>1, <2>2
<1>6. CASE e \notin {None, s}
  <2>1. e \in Int /\ s < e
    BY <1>1, <1>6
  <2>2. Moments(span) = s .. (e - 1)
    BY <1>6 DEF Moments
  <2>3. (\E t \in s .. (e - 1) : a <= t /\ t < b) <=> s < b /\ e > a
    <3>1. ASSUME s < b, e > a PROVE \E t \in s .. (e - 1) : a <= t /\ t < b
      <4>1. CASE s >= a
        BY <1>1, <2>1, <3>1, <4>1
      <4>2. CASE s < a
        <5>1. a \in s .. (e - 1) /\ a <= a /\ a < b
          BY <1>1, <2>1, <3>1, <4>2
        <5> QED BY <5>1
      <4> QED BY <1>1, <4>1, <4>2
    <3> QED BY <1>1, <2>1, <3>1
  <2> QED BY <1>1, <1>2, <1>3, <1>4, <1>6, <2>1, <2>2, <2>3
<1> QED BY <1>5, <1>6

-----------------------------------------------------------------------------
(* What follows.                                                            *)

\* The variables have their types.
THEOREM TypeCorrectness == Spec => []TypeOK
BY Invariance, PTL DEF Inv

\* A person is a member of the class once, whatever requests race.
THEOREM OneMembership == Spec => []MembersUnique
<1>1. Inv => MembersUnique
  BY DEF Inv, MembersOK
<1> QED BY <1>1, Invariance, PTL

\* The events on class members tell who is a member with which role, up to
\* a removal that removed nothing.
THEOREM MembershipsKnown == Spec => []MembersKnown
<1>1. Inv => MembersKnown
  BY DEF Inv, MembersOK
<1> QED BY <1>1, Invariance, PTL

\* The stored dates of an event are in order, whatever partial updates race.
THEOREM EventsStayInOrder == Spec => []EventInOrder
<1>1. Inv => EventInOrder
  BY DEF Inv, EventOK
<1> QED BY <1>1, Invariance, PTL

\* So are the announced ones, those that mix two versions of the row included.
THEOREM AnnouncementsInOrder == Spec => []AnnouncedInOrder
<1>1. Inv => AnnouncedInOrder
  BY DEF Inv, EventOK
<1> QED BY <1>1, Invariance, PTL

\* What is announced is what is stored, unless an update had read an older row.
THEOREM AnnouncementsAreTrue == Spec => []AnnouncedIsStored
<1>1. Inv => AnnouncedIsStored
  BY DEF Inv, EventOK
<1> QED BY <1>1, Invariance, PTL

\* An event is listed on the days it has a moment in, but for midnight.
THEOREM ListedOnDays == Spec => []ListedOnItsDays
<1>1. Inv => ListedOnItsDays
  BY ListedIsOnDay DEF Inv, EventOK, EventInOrder, ListedOnItsDays
<1> QED BY <1>1, Invariance, PTL

\* A subject that a homework or a lesson names is there.
THEOREM NamedSubjectsStay == Spec => []UsesHaveSubject
<1>1. Inv => UsesHaveSubject
  BY DEF Inv, SubjectOK
<1> QED BY <1>1, Invariance, PTL

\* The deletion of a subject is the last event on it, and only of a deletion.
THEOREM DeletionIsLastWord == Spec => []SubjectToldTrue
<1>1. Inv => SubjectToldTrue
  BY DEF Inv, SubjectOK
<1> QED BY <1>1, Invariance, PTL

-----------------------------------------------------------------------------
(* ClassRegister: what the requests amount to.                              *)

\* Both modules have the same values.
LEMMA SameValues ==
    /\ Promise!Memberships = Memberships /\ Promise!Roles = Roles
    /\ Promise!Spans = Spans /\ Promise!Changes = Changes
    /\ \A span : Promise!InOrder(span) <=> InOrder(span)
    /\ \A span, c : Promise!Merge(span, c) = Merge(span, c)
BY DEF Promise!Memberships, Memberships, Promise!Roles, Roles, Promise!Spans, Spans,
       Promise!Changes, Changes, Promise!InOrder, InOrder, Promise!Merge, Merge,
       Promise!Sent, Sent

\* As long as the rows stay, so do the members.
LEMMA RosterFrame == ASSUME UNCHANGED members PROVE Roster' = Roster
BY DEF Roster, RowsOf, There

\* The role of a member is in the one row of the person.
LEMMA RosterNow ==
    ASSUME MembersUnique, NEW p \in People
    PROVE  /\ RowsOf(p) = {} => Roster[p] = None
           /\ \A i \in RowsOf(p) : Roster[p] = members[i].role
BY DEF MembersUnique, Roster, RowsOf

\* The same after a step.
LEMMA RosterThen ==
    ASSUME MembersUnique', NEW p \in People
    PROVE  /\ RowsOf(p)' = {} => Roster'[p] = None
           /\ \A i \in RowsOf(p)' : Roster'[p] = members'[i].role
BY DEF MembersUnique, Roster, RowsOf

\* A COMMIT on a member changes the role of that person, or nothing.
LEMMA CommitRoster ==
    ASSUME TypeOK, MembersOK, NEW q \in Requests, CommitMember(q),
           NEW p, p = draft[q].person
    PROVE  /\ p \in People /\ draft[q] \in Memberships
           /\ pc[q] = "added" => Roster[p] = None
           /\ pc[q] = "changed" => Roster[p] # None
           /\ pc[q] # "removed" => Roster' = [Roster EXCEPT ![p] = draft[q].role]
           /\ pc[q] = "removed" => Roster' = [Roster EXCEPT ![p] = None] \/ Roster' = Roster
<1>0. PICK i : i = target[q]
  OBVIOUS
<1>1. /\ i \in Ids /\ draft[q] \in Memberships /\ p \in People
      /\ pc[q] # "added" /\ There(i) => members[i].person = p
      /\ pc[q] = "changed" => There(i)
      /\ pc[q] = "added" => ~ There(i) /\ RowsOf(p) = {}
      /\ pc[q] \in {"added", "changed", "removed"}
      /\ \A j \in Ids \ {i} : members'[j] = members[j]
      /\ pc[q] = "removed" => ~ There(i)'
      /\ pc[q] # "removed" => There(i)' /\ members'[i] = draft[q]
  BY <1>0, CommitEffect
<1>2. MembersUnique /\ MembersUnique'
  BY MembersCommit DEF MembersOK
<1>3. ASSUME NEW x \in People, x # p PROVE Roster'[x] = Roster[x]
  <2>1. \A j \in Ids : j \in RowsOf(x) => j # i
    BY <1>1, <1>3 DEF RowsOf
  <2>2. \A j \in Ids : j \in RowsOf(x)' => j # i
    BY <1>1, <1>3 DEF RowsOf
  <2>3. \A j \in Ids : j \in RowsOf(x)' <=> j \in RowsOf(x)
    BY <1>1, <2>1, <2>2 DEF RowsOf, There
  <2>4. RowsOf(x)' = RowsOf(x)
    BY <2>3 DEF RowsOf
  <2>5. CASE RowsOf(x) = {}
    BY <1>2, <2>4, <2>5, RosterNow, RosterThen
  <2>6. CASE RowsOf(x) # {}
    <3>1. PICK j \in RowsOf(x) : j \in Ids /\ j # i
      BY <2>1, <2>6 DEF RowsOf
    <3> QED BY <1>1, <1>2, <2>4, <3>1, RosterNow, RosterThen
  <2> QED BY <2>5, <2>6
<1>4. /\ Roster = [x \in People |-> Roster[x]]
      /\ Roster' = [x \in People |-> Roster'[x]]
  BY DEF Roster
<1>5. pc[q] = "added" => Roster[p] = None
  BY <1>1, <1>2, RosterNow
<1>6. pc[q] = "changed" => Roster[p] # None
  <2>1. pc[q] = "changed" => i \in RowsOf(p) /\ members[i] \in Memberships
    BY <1>1 DEF RowsOf, TypeOK, There
  <2> QED BY <1>1, <1>2, <2>1, RosterNow, NoneAssumption DEF Memberships
<1>7. pc[q] # "removed" => Roster'[p] = draft[q].role
  <2>1. pc[q] # "removed" => i \in RowsOf(p)'
    BY <1>1 DEF RowsOf
  <2> QED BY <1>1, <1>2, <2>1, RosterThen
<1>8. pc[q] = "removed" => Roster'[p] = None \/ Roster' = Roster
  <2> SUFFICES ASSUME pc[q] = "removed" PROVE Roster'[p] = None \/ Roster' = Roster
    OBVIOUS
  <2>1. CASE There(i)
    <3>1. i \in RowsOf(p)
      BY <1>1, <2>1 DEF RowsOf
    <3>2. RowsOf(p)' = {}
      BY <1>1, <1>2, <3>1 DEF RowsOf, There, MembersUnique
    <3> QED BY <1>1, <1>2, <3>2, RosterThen
  <2>2. CASE ~ There(i)
    <3>1. members' = members
      BY <1>0, <2>2 DEF CommitMember
    <3> QED BY <3>1, RosterFrame
  <2> QED BY <2>1, <2>2
<1> QED BY <1>1, <1>3, <1>4, <1>5, <1>6, <1>7, <1>8

\* At first people have the roles of their rows, and nobody asks for anything.
LEMMA InitRegister == Init => Promise!Init
<1> SUFFICES ASSUME Init PROVE Promise!Init
  OBVIOUS
<1>1. MembersUnique /\ members \in [Ids -> Memberships \cup {None}]
  BY DEF Init, MembersInit, MembersUnique
<1>2. ASSUME NEW p \in People PROVE Roster[p] \in Roles \cup {None}
  <2>1. \A i \in RowsOf(p) : members[i].role \in Roles
    BY <1>1 DEF RowsOf, There, Memberships
  <2> QED BY <1>1, <2>1, RosterNow
<1>3. Roster \in [People -> Roles \cup {None}]
  BY <1>2 DEF Roster
<1>4. Asked = [q \in Requests |-> {}]
  BY DEF Init, MembersInit, Asked, Order
<1> QED BY <1>3, <1>4, SameValues DEF Init, MembersInit, EventsInit, SubjectsInit, Promise!Init

\* A step of q leaves alone what the others carry.
LEMMA OthersKeep ==
    ASSUME TypeOK, NEW q \in Requests, Progress(q) \/ Rollback(q)
    PROVE  \A p \in Requests \ {q} :
               pc'[p] = pc[p] /\ draft'[p] = draft[p] /\ change'[p] = change[p]
<1> USE DEF TypeOK, memberVars, eventVars, subjectVars, Advance, End,
            EndEvent, EndSubject
<1>1. CASE Authorize(q) /\ UNCHANGED <<eventVars, subjectVars>>
  BY <1>1 DEF Authorize
<1>2. CASE MemberStep(q) /\ UNCHANGED <<eventVars, subjectVars>>
  BY <1>2 DEF MemberStep, StartAdd, InsertMember, AlreadyMember, ReadMember, ChangeRole,
              MemberGone, RemoveMember, CommitMember
<1>3. CASE EventStep(q)
  BY <1>3 DEF EventStep, CreateEvent, ReadForUpdate, UpdateEvent, UpdateRefused, CommitUpdate,
              ReadForDelete, DeleteEvent, CommitDelete
<1>4. CASE SubjectStep(q) /\ UNCHANGED eventVars
  BY <1>4 DEF SubjectStep, CreateSubject, ReadForUse, InsertUse, UseRefused, CommitUse, DropUse,
              ReadSubject, RenameSubject, SubjectGone, DropSubject, SubjectInUse, CommitSubject,
              ClearCache
<1>5. CASE Upload(q) \/ Reject(q) \/ Rollback(q)
  BY <1>5 DEF Upload, Reject, Rollback
<1> QED BY <1>1, <1>2, <1>3, <1>4, <1>5 DEF Progress

\* So what they ask for stays.
LEMMA OneAsks ==
    ASSUME TypeOK, NEW q \in Requests, Progress(q) \/ Rollback(q)
    PROVE  /\ Asked' = [Asked EXCEPT ![q] = Order(q)']
           /\ Asked[q] = Order(q) /\ Asked'[q] = Order(q)'
<1>1. \A p \in Requests \ {q} : Order(p)' = Order(p)
  BY OthersKeep DEF Order
<1> QED BY <1>1 DEF Asked

\* A step that does not change what q asks for.
LEMMA AsksOn ==
    ASSUME TypeOK, NEW q \in Requests, Progress(q) \/ Rollback(q), Order(q)' = Order(q)
    PROVE  UNCHANGED Asked
BY OneAsks DEF Asked

\* A step after which q asks for nothing any more, and acts for nobody.
LEMMA Answers ==
    ASSUME TypeOK, NEW q \in Requests, Progress(q) \/ Rollback(q), Order(q)' = {},
           actor' = [actor EXCEPT ![q] = None]
    PROVE  Promise!Answer(q)
BY OneAsks DEF Promise!Answer

\* A request that needs no role of a member's acts for nobody all along.
LEMMA ActsForNobody ==
    ASSUME TypeOK, ActorsOK, NEW q \in Requests, pc[q] \notin Acting
    PROVE  actor = [actor EXCEPT ![q] = None]
BY DEF TypeOK, ActorsOK

\* Who is let through is an editor of the class, or an administrator.
LEMMA AuthorizeAdmits ==
    ASSUME Inv, NEW q \in Requests, Authorize(q), UNCHANGED <<eventVars, subjectVars>>
    PROVE  Promise!Admit(q)
<1> USE DEF Inv
<1>1. Progress(q)
  BY DEF Progress
<1>2. pc[q] = "new" /\ pc'[q] = "allowed" /\ actor[q] = None
  BY DEF Authorize, Advance, TypeOK, ActorsOK, Acting
<1>3. Order(q) = {} /\ Order(q)' = {}
  BY <1>2 DEF Order
<1>4. UNCHANGED <<Promise!people, Promise!plan, Promise!topic, Asked>>
  BY <1>1, <1>3, AsksOn, RosterFrame
     DEF Authorize, memberVars, eventVars, subjectVars, Promise!people, Promise!plan,
         Promise!topic
<1>5. Asked[q] = {}
  BY <1>1, <1>3, OneAsks
<1>6. PICK p \in People \cup {Admin} :
           (p # Admin => MayEdit(p)) /\ actor' = [actor EXCEPT ![q] = p]
  BY DEF Authorize
<1>7. p # Admin => Roster[p] = "editor"
  BY <1>6, RosterNow DEF MayEdit, IsEditor, MembersOK
<1> QED BY <1>2, <1>4, <1>5, <1>6, <1>7 DEF Promise!Admit

\* The first read of a request is when it asks, as an editor for what needs one.
LEMMA ReadAsks ==
    ASSUME TypeOK, ActorsOK, NEW q \in Requests, Progress(q),
           StartAdd(q) \/ ReadMember(q) \/ ReadForUpdate(q) \/ ReadForDelete(q)
             \/ ReadForUse(q) \/ ReadSubject(q),
           UNCHANGED <<members, known, life, event, announced, subject, uses, told>>
    PROVE  Promise!Ask(q)
<1>1. pc[q] \in {"new", "allowed"}
  BY DEF StartAdd, ReadMember, ReadForUpdate, ReadForDelete, ReadForUse, ReadSubject
<1>2. Order(q) = {}
  BY <1>1 DEF Order
<1>3. UNCHANGED <<Promise!people, Promise!plan, Promise!topic, actor>>
  BY RosterFrame
     DEF StartAdd, ReadMember, ReadForUpdate, ReadForDelete, ReadForUse, ReadSubject,
         Promise!people, Promise!plan, Promise!topic
<1>4. \E order \in Promise!Orders :
        Order(q)' = {order} /\ (order.what \in Promise!Editing => actor[q] # None)
  <2>1. CASE StartAdd(q)
    <3>1. pc'[q] = "adding" /\ draft'[q] \in Memberships
      BY <2>1 DEF StartAdd, Advance, TypeOK
    <3>2. Order(q)' = {[what |-> "join", body |-> draft'[q]]}
      BY <3>1 DEF Order
    <3>3. [what |-> "join", body |-> draft'[q]] \in Promise!Orders
      BY <3>1, SameValues DEF Promise!Orders
    <3> QED BY <3>2, <3>3 DEF Promise!Editing
  <2>2. CASE ReadMember(q)
    <3>1. PICK i \in Ids :
            /\ There(i)
            /\ \/ /\ \E role \in Roles :
                       draft' = [draft EXCEPT ![q] = [members[i] EXCEPT !.role = role]]
                  /\ pc' = [pc EXCEPT ![q] = "changing"]
               \/ /\ draft' = [draft EXCEPT ![q] = members[i]]
                  /\ pc' = [pc EXCEPT ![q] = "removing"]
      BY <2>2 DEF ReadMember, Advance
    <3>2. members[i] \in Memberships
      BY <3>1 DEF There, TypeOK
    <3>3. draft'[q] \in Memberships /\ pc'[q] \in {"changing", "removing"}
      BY <3>1, <3>2 DEF Memberships, TypeOK
    <3>4. \/ Order(q)' = {[what |-> "change", body |-> draft'[q]]}
          \/ Order(q)' = {[what |-> "leave", body |-> draft'[q].person]}
      BY <3>3 DEF Order
    <3>5. draft'[q].person \in People
      BY <3>3 DEF Memberships
    <3>6. /\ [what |-> "change", body |-> draft'[q]] \in Promise!Orders
          /\ [what |-> "leave", body |-> draft'[q].person] \in Promise!Orders
      BY <3>3, <3>5, SameValues DEF Promise!Orders
    <3> QED BY <3>4, <3>6 DEF Promise!Editing
  <2>3. CASE ReadForUpdate(q)
    <3>1. pc'[q] = "editing" /\ change'[q] \in Changes /\ actor[q] # None
      BY <2>3 DEF ReadForUpdate, Advance, TypeOK, ActorsOK, Acting
    <3>2. Order(q)' = {[what |-> "replan", body |-> change'[q]]}
      BY <3>1 DEF Order
    <3> QED BY <3>1, <3>2, SameValues DEF Promise!Orders, Promise!Editing
  <2>4. CASE ReadForDelete(q)
    <3>1. pc'[q] = "erasing"
      BY <2>4 DEF ReadForDelete, Advance, TypeOK
    <3>2. Order(q)' = {[what |-> "cancel", body |-> None]}
      BY <3>1 DEF Order
    <3>3. [what |-> "cancel", body |-> None] \in Promise!Orders
      BY DEF Promise!Orders
    <3> QED BY <3>2, <3>3 DEF Promise!Editing
  <2>5. CASE ReadForUse(q)
    <3>1. pc'[q] = "using" /\ actor[q] # None
      BY <2>5 DEF ReadForUse, Advance, TypeOK, ActorsOK, Acting
    <3>2. Order(q)' = {[what |-> "name", body |-> None]}
      BY <3>1 DEF Order
    <3> QED BY <3>1, <3>2 DEF Promise!Orders, Promise!Editing
  <2>6. CASE ReadSubject(q)
    <3>1. pc'[q] \in {"renaming", "dropping"}
      BY <2>6 DEF ReadSubject, Advance, TypeOK
    <3>2. \/ Order(q)' = {[what |-> "rename", body |-> None]}
          \/ Order(q)' = {[what |-> "drop", body |-> None]}
      BY <3>1 DEF Order
    <3>3. /\ [what |-> "rename", body |-> None] \in Promise!Orders
          /\ [what |-> "drop", body |-> None] \in Promise!Orders
      BY DEF Promise!Orders
    <3> QED BY <3>2, <3>3 DEF Promise!Editing
  <2> QED BY <2>1, <2>2, <2>3, <2>4, <2>5, <2>6
<1> QED BY <1>2, <1>3, <1>4, OneAsks DEF Promise!Ask

\* The statements that follow are part of what was asked; others ask for nothing.
LEMMA StatementsStutter ==
    ASSUME TypeOK, NEW q \in Requests, Progress(q),
           \/ InsertMember(q) \/ ChangeRole(q) \/ RemoveMember(q)
           \/ UpdateEvent(q) \/ DeleteEvent(q)
           \/ InsertUse(q) \/ RenameSubject(q) \/ DropSubject(q)
           \/ Upload(q) /\ ~ End(q),
           UNCHANGED <<members, known, life, event, announced, subject, uses, told>>
    PROVE  UNCHANGED Promise!vars
<1> USE DEF TypeOK, Advance
<1>0. UNCHANGED actor
  BY DEF InsertMember, ChangeRole, RemoveMember, UpdateEvent, DeleteEvent, InsertUse,
         RenameSubject, DropSubject, Upload
<1>1. CASE Upload(q) /\ ~ End(q)
  <2>1. pc[q] = "allowed" /\ pc'[q] = "uploading"
    BY <1>1 DEF Upload
  <2>2. Order(q)' = Order(q)
    BY <2>1 DEF Order
  <2> QED BY <1>0, <2>2, AsksOn, RosterFrame
          DEF Promise!vars, Promise!people, Promise!plan, Promise!topic
<1>2. CASE InsertMember(q) \/ ChangeRole(q) \/ RemoveMember(q)
  <2>1. draft' = draft
    BY <1>2 DEF InsertMember, ChangeRole, RemoveMember, memberVars
  <2>2. \/ pc[q] = "adding" /\ pc'[q] = "added"
        \/ pc[q] = "changing" /\ pc'[q] = "changed"
        \/ pc[q] = "removing" /\ pc'[q] = "removed"
    BY <1>2 DEF InsertMember, ChangeRole, RemoveMember
  <2>3. Order(q)' = Order(q)
    BY <2>1, <2>2 DEF Order
  <2> QED BY <1>0, <2>3, AsksOn, RosterFrame
          DEF Promise!vars, Promise!people, Promise!plan, Promise!topic
<1>3. CASE UpdateEvent(q) \/ DeleteEvent(q)
  <2>1. change' = change
    BY <1>3 DEF UpdateEvent, DeleteEvent, eventVars
  <2>2. \/ pc[q] = "editing" /\ pc'[q] = "edited"
        \/ pc[q] = "erasing" /\ pc'[q] = "erased"
    BY <1>3 DEF UpdateEvent, DeleteEvent
  <2>3. Order(q)' = Order(q)
    BY <2>1, <2>2 DEF Order
  <2> QED BY <1>0, <2>3, AsksOn, RosterFrame
          DEF Promise!vars, Promise!people, Promise!plan, Promise!topic
<1>4. CASE InsertUse(q) \/ RenameSubject(q) \/ DropSubject(q)
  <2>1. \/ pc[q] = "using" /\ pc'[q] = "used"
        \/ pc[q] = "renaming" /\ pc'[q] = "renamed"
        \/ pc[q] = "dropping" /\ pc'[q] = "dropped"
    BY <1>4 DEF InsertUse, RenameSubject, DropSubject
  <2>2. Order(q)' = Order(q)
    BY <2>1 DEF Order
  <2> QED BY <1>0, <2>2, AsksOn, RosterFrame
          DEF Promise!vars, Promise!people, Promise!plan, Promise!topic
<1> QED BY <1>1, <1>2, <1>3, <1>4

\* A request that is refused or fails forgets what was asked.
LEMMA EndForgets ==
    ASSUME TypeOK, NEW q \in Requests, Progress(q) \/ Rollback(q), End(q),
           UNCHANGED <<members, known, life, event, announced, subject, uses, told>>
    PROVE  Promise!Forget(q)
<1>1. Order(q)' = {}
  BY DEF End, Advance, TypeOK, Order
<1>2. UNCHANGED <<Promise!people, Promise!plan, Promise!topic>>
  BY RosterFrame DEF Promise!people, Promise!plan, Promise!topic
<1> QED BY <1>1, <1>2, Answers DEF End, Promise!Forget

\* The requests of one statement: all they change is their row and its event.
LEMMA SingleSteps ==
    ASSUME Inv, NEW q \in Requests, Progress(q),
           \/ CreateEvent(q) /\ UNCHANGED subjectVars
           \/ (CreateSubject(q) \/ DropUse(q)) /\ UNCHANGED eventVars
    PROVE  Promise!Plan(q) \/ Promise!Found \/ Promise!Unname(q)
<1>1. /\ pc[q] \in {"new", "allowed"} /\ UNCHANGED <<members, known>>
      /\ pc' = [pc EXCEPT ![q] = "done"]
  BY DEF CreateEvent, CreateSubject, DropUse, EndEvent, EndSubject, End, Advance
<1>2. Order(q) = {} /\ Order(q)' = {}
  BY <1>1 DEF Order, Inv, TypeOK
<1>3. UNCHANGED Asked /\ UNCHANGED Promise!people
  BY <1>1, <1>2, AsksOn, RosterFrame DEF Inv, Promise!people
<1>4. actor' = [actor EXCEPT ![q] = None]
  BY DEF CreateEvent, CreateSubject, DropUse, EndEvent, EndSubject, End
<1>5. Promise!Answer(q)
  BY <1>2, <1>4, Answers DEF Inv
<1>6. CASE CreateEvent(q) /\ UNCHANGED subjectVars
  <2>1. actor[q] # None
    BY <1>6 DEF CreateEvent, Inv, ActorsOK, Acting
  <2> QED BY <1>3, <1>5, <1>6, <2>1, SameValues
          DEF CreateEvent, subjectVars, Promise!Plan, Promise!topic
<1>7. CASE CreateSubject(q) /\ UNCHANGED eventVars
  <2>1. UNCHANGED actor
    BY <1>4, <1>7, ActsForNobody DEF CreateSubject, Inv, Acting
  <2> QED BY <1>3, <1>7, <2>1 DEF CreateSubject, eventVars, Promise!Found, Promise!plan
<1>8. CASE DropUse(q) /\ UNCHANGED eventVars
  <2>1. actor[q] # None
    BY <1>8 DEF DropUse, Inv, ActorsOK, Acting
  <2> QED BY <1>3, <1>5, <1>8, <2>1 DEF DropUse, eventVars, Promise!Unname, Promise!plan
<1> QED BY <1>6, <1>7, <1>8

\* The COMMIT on a member makes the membership what was asked for.
LEMMA MemberApplies ==
    ASSUME Inv, NEW q \in Requests, CommitMember(q), UNCHANGED <<eventVars, subjectVars>>
    PROVE  Promise!Apply(q)
<1>1. Progress(q)
  BY DEF Progress, MemberStep
<1>2. pc[q] \in {"added", "changed", "removed"} /\ pc'[q] = "done"
  BY DEF CommitMember, End, Advance, Inv, TypeOK
<1>3. Order(q) # {} /\ Order(q)' = {}
  BY <1>2 DEF Order
<1>4. Promise!Answer(q) /\ Asked[q] = Order(q)
  BY <1>1, <1>3, Answers, OneAsks DEF Inv, CommitMember, End
<1> DEFINE p == draft[q].person
<1>5. /\ p \in People /\ draft[q] \in Memberships
      /\ pc[q] = "added" => Roster[p] = None
      /\ pc[q] = "changed" => Roster[p] # None
      /\ pc[q] # "removed" => Roster' = [Roster EXCEPT ![p] = draft[q].role]
      /\ pc[q] = "removed" => Roster' = [Roster EXCEPT ![p] = None] \/ Roster' = Roster
  BY CommitRoster DEF Inv
<1>6. /\ pc[q] # "removed" => known' = [known EXCEPT ![p] = draft[q].role]
      /\ pc[q] = "removed" => known' = [known EXCEPT ![p] = None]
  BY <1>5, NoneAssumption DEF CommitMember
<1>7. UNCHANGED <<Promise!plan, Promise!topic>>
  BY DEF eventVars, subjectVars, Promise!plan, Promise!topic
<1>8. CASE pc[q] = "added"
  <2>1. Asked[q] = {[what |-> "join", body |-> draft[q]]}
    BY <1>4, <1>8 DEF Order
  <2>2. Promise!Join(p, draft[q].role)
    BY <1>5, <1>6, <1>8 DEF Promise!Join, Promise!Set, Promise!Say
  <2> QED BY <1>4, <1>7, <2>1, <2>2 DEF Promise!Apply, Promise!OnPeople
<1>9. CASE pc[q] = "changed"
  <2>1. Asked[q] = {[what |-> "change", body |-> draft[q]]}
    BY <1>4, <1>9 DEF Order
  <2>2. Promise!Change(p, draft[q].role)
    BY <1>5, <1>6, <1>9 DEF Promise!Change, Promise!Set, Promise!Say
  <2> QED BY <1>4, <1>7, <2>1, <2>2 DEF Promise!Apply, Promise!OnPeople
<1>10. CASE pc[q] = "removed"
  <2>1. Asked[q] = {[what |-> "leave", body |-> p]}
    BY <1>4, <1>10 DEF Order
  <2>2. Promise!Leave(p)
    BY <1>5, <1>6, <1>10 DEF Promise!Leave, Promise!Set, Promise!Say
  <2> QED BY <1>4, <1>7, <2>1, <2>2 DEF Promise!Apply, Promise!OnPeople
<1> QED BY <1>2, <1>8, <1>9, <1>10

\* The COMMIT on the event sets the dates asked for on what is there then, or
\* ends it.
LEMMA EventApplies ==
    ASSUME Inv, NEW q \in Requests, CommitUpdate(q) \/ CommitDelete(q), UNCHANGED subjectVars
    PROVE  Promise!Apply(q)
<1>1. Progress(q)
  BY DEF Progress, EventStep
<1>2. pc[q] \in {"edited", "erased"} /\ pc'[q] = "done"
  BY DEF CommitUpdate, CommitDelete, EndEvent, End, Advance, Inv, TypeOK
<1>3. Order(q) # {} /\ Order(q)' = {}
  BY <1>2 DEF Order
<1>4. Promise!Answer(q) /\ Asked[q] = Order(q)
  BY <1>1, <1>3, Answers, OneAsks DEF Inv, CommitUpdate, CommitDelete, EndEvent, End
<1>5. UNCHANGED <<Promise!people, Promise!topic>>
  BY RosterFrame
     DEF CommitUpdate, CommitDelete, EndEvent, subjectVars, Promise!people, Promise!topic
<1>6. EventRequestOK(q)
  BY DEF Inv, EventOK
<1>7. CASE CommitUpdate(q)
  <2>1. pc[q] = "edited"
    BY <1>7 DEF CommitUpdate
  <2>2. Asked[q] = {[what |-> "replan", body |-> change[q]]}
    BY <1>4, <2>1 DEF Order
  <2>3. /\ Live /\ InOrder(Merge(event, change[q]))
        /\ seen[q] \in Spans /\ InOrder(Merge(seen[q], change[q]))
    BY <1>6, <2>1 DEF EventRequestOK
  <2>4. event' = Merge(event, change[q]) /\ announced' = Merge(seen[q], change[q])
        /\ UNCHANGED life
    BY <1>7 DEF CommitUpdate
  <2>5. Promise!Replan(change[q])
    BY <2>3, <2>4, SameValues DEF Live, Promise!Replan
  <2> QED BY <1>4, <1>5, <2>2, <2>5 DEF Promise!Apply, Promise!OnPlan
<1>8. CASE CommitDelete(q)
  <2>1. pc[q] = "erased"
    BY <1>8 DEF CommitDelete
  <2>2. Asked[q] = {[what |-> "cancel", body |-> None]}
    BY <1>4, <2>1 DEF Order
  <2>3. life # "unborn"
    BY <1>6, <2>1 DEF EventRequestOK
  <2>4. Promise!Cancel
    BY <1>8, <2>3 DEF CommitDelete, Promise!Cancel
  <2> QED BY <1>4, <1>5, <2>2, <2>4 DEF Promise!Apply, Promise!OnPlan
<1> QED BY <1>7, <1>8

\* The COMMIT on the subject: it is there while it is named or renamed, and
\* nothing names it when it goes.
LEMMA SubjectApplies ==
    ASSUME Inv, NEW q \in Requests, CommitUse(q) \/ CommitSubject(q), UNCHANGED eventVars
    PROVE  Promise!Apply(q)
<1>1. Progress(q)
  BY DEF Progress, SubjectStep
<1>2. pc[q] \in {"used", "renamed", "dropped"} /\ pc'[q] \in {"clearing", "done"}
  BY DEF CommitUse, CommitSubject, EndSubject, End, Advance, Inv, TypeOK
<1>3. Order(q) # {} /\ Order(q)' = {}
  BY <1>2 DEF Order
<1>4. Promise!Answer(q) /\ Asked[q] = Order(q)
  <2>1. actor' = [actor EXCEPT ![q] = None]
    BY ActsForNobody DEF CommitUse, CommitSubject, EndSubject, End, Inv, Acting
  <2> QED BY <1>1, <1>3, <2>1, Answers, OneAsks DEF Inv
<1>5. UNCHANGED <<Promise!people, Promise!plan>>
  BY RosterFrame
     DEF CommitUse, CommitSubject, EndSubject, memberVars, eventVars, Promise!people, Promise!plan
<1>6. SubjectRequestOK(q) /\ UsesHaveSubject
  BY DEF Inv, SubjectOK
<1>7. CASE pc[q] = "used"
  <2>1. Asked[q] = {[what |-> "name", body |-> None]}
    BY <1>4, <1>7 DEF Order
  <2>2. Promise!Name(q)
    BY <1>6, <1>7 DEF CommitUse, CommitSubject, SubjectRequestOK, SubjectThere, Promise!Name
  <2> QED BY <1>4, <1>5, <2>1, <2>2 DEF Promise!Apply, Promise!OnTopic
<1>8. CASE pc[q] = "renamed"
  <2>1. Asked[q] = {[what |-> "rename", body |-> None]}
    BY <1>4, <1>8 DEF Order
  <2>2. Promise!Rename
    BY <1>6, <1>8 DEF CommitUse, CommitSubject, SubjectRequestOK, SubjectThere, Promise!Rename
  <2> QED BY <1>4, <1>5, <2>1, <2>2 DEF Promise!Apply, Promise!OnTopic
<1>9. CASE pc[q] = "dropped"
  <2>1. Asked[q] = {[what |-> "drop", body |-> None]}
    BY <1>4, <1>9 DEF Order
  <2>2. subject # "unborn" /\ uses = {}
    BY <1>6, <1>9 DEF SubjectRequestOK, UsesHaveSubject
  <2>3. Promise!Drop
    BY <1>9, <2>2 DEF CommitUse, CommitSubject, Promise!Drop
  <2> QED BY <1>4, <1>5, <2>1, <2>3 DEF Promise!Apply, Promise!OnTopic
<1> QED BY <1>2, <1>7, <1>8, <1>9

\* Every step is one of the register, or none.
LEMMA NextRegister == Inv /\ [Next]_vars => [Promise!Next]_(Promise!vars)
<1> SUFFICES ASSUME Inv, [Next]_vars PROVE Promise!Next \/ UNCHANGED Promise!vars
  OBVIOUS
<1> USE DEF Inv
<1> DEFINE Quiet == UNCHANGED <<members, known, life, event, announced, subject, uses, told>>
<1>1. CASE UNCHANGED vars
  BY <1>1, RosterFrame
     DEF vars, memberVars, eventVars, subjectVars, Asked, Order, Promise!vars, Promise!people,
         Promise!plan, Promise!topic
<1>2. ASSUME NEW q \in Requests, Authorize(q) /\ UNCHANGED <<eventVars, subjectVars>>
      PROVE  Promise!Next
  BY <1>2, AuthorizeAdmits DEF Promise!Next
<1>3. ASSUME NEW q \in Requests, MemberStep(q) /\ UNCHANGED <<eventVars, subjectVars>>
      PROVE  Promise!Next \/ UNCHANGED Promise!vars
  <2>1. Progress(q)
    BY <1>3 DEF Progress
  <2>2. CASE CommitMember(q)
    BY <1>3, <2>2, MemberApplies DEF Promise!Next
  <2>3. CASE ~ CommitMember(q)
    <3>1. Quiet
      BY <1>3, <2>3 DEF MemberStep, StartAdd, InsertMember, AlreadyMember, ReadMember, ChangeRole,
                        MemberGone, RemoveMember, memberVars, eventVars, subjectVars
    <3> QED BY <1>3, <2>1, <2>3, <3>1, ReadAsks, StatementsStutter, EndForgets
            DEF MemberStep, AlreadyMember, MemberGone, Promise!Next
  <2> QED BY <2>2, <2>3
<1>4. ASSUME NEW q \in Requests, EventStep(q) /\ UNCHANGED subjectVars
      PROVE  Promise!Next \/ UNCHANGED Promise!vars
  <2>1. Progress(q)
    BY <1>4 DEF Progress
  <2>2. CASE CommitUpdate(q) \/ CommitDelete(q) \/ CreateEvent(q)
    BY <1>4, <2>1, <2>2, EventApplies, SingleSteps DEF Promise!Next
  <2>3. CASE ~ (CommitUpdate(q) \/ CommitDelete(q) \/ CreateEvent(q))
    <3>1. Quiet
      BY <1>4, <2>3 DEF EventStep, ReadForUpdate, UpdateEvent, UpdateRefused, ReadForDelete,
                        DeleteEvent, EndEvent, memberVars, eventVars, subjectVars
    <3> QED BY <1>4, <2>1, <2>3, <3>1, ReadAsks, StatementsStutter, EndForgets
            DEF EventStep, UpdateRefused, EndEvent, Promise!Next
  <2> QED BY <2>2, <2>3
<1>5. ASSUME NEW q \in Requests, SubjectStep(q) /\ UNCHANGED eventVars
      PROVE  Promise!Next \/ UNCHANGED Promise!vars
  <2>1. Progress(q)
    BY <1>5 DEF Progress
  <2>2. CASE CommitUse(q) \/ CommitSubject(q) \/ CreateSubject(q) \/ DropUse(q)
    BY <1>5, <2>1, <2>2, SubjectApplies, SingleSteps DEF Promise!Next
  <2>3. CASE ~ (CommitUse(q) \/ CommitSubject(q) \/ CreateSubject(q) \/ DropUse(q))
    <3>1. Quiet
      BY <1>5, <2>3 DEF SubjectStep, ReadForUse, InsertUse, UseRefused, ReadSubject,
                        RenameSubject, SubjectGone, DropSubject, SubjectInUse, ClearCache,
                        EndSubject, memberVars, eventVars, subjectVars
    <3> QED BY <1>5, <2>1, <2>3, <3>1, ReadAsks, StatementsStutter, EndForgets
            DEF SubjectStep, UseRefused, SubjectGone, SubjectInUse, ClearCache, EndSubject,
                Promise!Next
  <2> QED BY <2>2, <2>3
<1>6. ASSUME NEW q \in Requests, Upload(q) \/ Reject(q) \/ Rollback(q)
      PROVE  Promise!Next \/ UNCHANGED Promise!vars
  <2>1. (Progress(q) \/ Rollback(q)) /\ Quiet
    BY <1>6 DEF Progress, Upload, Reject, Rollback, EndEvent, memberVars, eventVars, subjectVars
  <2>2. CASE Upload(q) /\ ~ End(q)
    BY <2>1, <2>2, StatementsStutter DEF Progress
  <2>3. CASE (Upload(q) /\ End(q)) \/ Reject(q) \/ Rollback(q)
    BY <2>1, <2>3, EndForgets DEF Reject, Rollback, EndEvent, Promise!Next
  <2> QED BY <1>6, <2>2, <2>3
<1> QED BY <1>1, <1>2, <1>3, <1>4, <1>5, <1>6 DEF Next, Progress, Finished

(***************************************************************************)
(* However requests on the members, the school event and the subject of a  *)
(* class overlap, each takes effect at its commit as it was asked for and  *)
(* with its event, or not at all, and what needs the editor's role is      *)
(* asked for by those only who have it when they are let through: what     *)
(* ClassMemberService, SchoolEventService, SubjectService and              *)
(* require_editor promise together.                                        *)
(***************************************************************************)
THEOREM Implementation == Spec => RegisterSpec
<1>1. Spec => Promise!Init /\ [][Promise!Next]_(Promise!vars)
  BY InitRegister, NextRegister, Invariance, PTL DEF Spec
<1> QED BY <1>1 DEF RegisterSpec, Promise!Spec

-----------------------------------------------------------------------------
(* The process around the requests.                                         *)

\* What holds of the requests holds of those the process serves.
THEOREM ServiceImplementsClass == ServiceSpec => Spec
<1>1. ServiceInit => Init
  BY DEF ServiceInit
<1>2. [ServiceNext]_allVars => [Next]_vars
  BY DEF ServiceNext, allVars, ConnectCache, ConnectStorage, ConnectBroker, StartRelay, Drain,
         Close, StopRelay, CloseBroker, CloseCache, CloseStorage, Dispose, RequestStep, AskForRedis,
         EnterLock, LeaveLock, Next
<1> QED BY <1>1, <1>2, PTL DEF ServiceSpec, Spec

LEMMA InitLife == ServiceInit => LifeInv
BY MainAssumption DEF ServiceInit, Init, MembersInit, LifeInv, LifeTypeOK, OpenOK, CallsOK,
   ClientsAccounted, UnderWay, Clients, Others

\* No request calls Redis while none is served.
LEMMA QuietOutside ==
    ASSUME LifeInv, phase \notin {"serving", "draining"}
    PROVE  /\ \A q \in Requests : call[q] = "none" /\ ~ UnderWay(q)
           /\ open \cap Clients = {redis} \ {None}
BY DEF LifeInv, LifeTypeOK, CallsOK, ClientsAccounted, UnderWay

\* What the phases have in common while no request is served: Redis is
\* connected or not, and something else is opened or closed.
LEMMA PhaseLife ==
    ASSUME LifeInv, phase \notin {"serving", "draining"}, UNCHANGED <<vars, call>>,
           redis' \in Clients \cup {None}, open' \subseteq Clients \cup Others,
           open' \cap Clients = {redis'} \ {None},
           LifeTypeOK', OpenOK', phase' = "connect cache" => open' = {},
           "relay" \in open' => "producer" \in open'
    PROVE  LifeInv'
<1>1. \A q \in Requests : call'[q] = "none" /\ ~ UnderWay(q)'
  BY QuietOutside DEF vars, UnderWay
<1>2. CallsOK'
  BY <1>1 DEF CallsOK
<1>3. ClientsAccounted'
  BY <1>1 DEF ClientsAccounted
<1> QED BY <1>2, <1>3 DEF LifeInv

\* Startup.
LEMMA StartLife ==
    ASSUME LifeInv, ConnectCache \/ ConnectStorage \/ ConnectBroker \/ StartRelay
    PROVE  LifeInv'
<1>1. phase \notin {"serving", "draining"} /\ UNCHANGED <<vars, call>>
  BY DEF ConnectCache, ConnectStorage, ConnectBroker, StartRelay
<1>2. open \cap Clients = {redis} \ {None} /\ open \subseteq Clients \cup Others
      /\ redis \in Clients \cup {None}
  BY <1>1, QuietOutside DEF LifeInv, OpenOK, LifeTypeOK
<1> USE MainAssumption, PhaseLife DEF LifeInv, LifeTypeOK, OpenOK, Others
<1>3. CASE ConnectCache
  <2>1. open = {} /\ redis = None
    BY <1>2, <1>3 DEF ConnectCache, ClientsAccounted
  <2>2. open' \subseteq Clients /\ open' = {redis'} \ {None}
    BY <1>3, <2>1 DEF ConnectCache, Clients
  <2> QED BY <1>1, <1>3, <2>1, <2>2 DEF ConnectCache, Clients
<1>4. CASE ConnectStorage
  BY <1>1, <1>2, <1>4 DEF ConnectStorage
<1>5. CASE ConnectBroker
  BY <1>1, <1>2, <1>5 DEF ConnectBroker
<1>6. CASE StartRelay
  BY <1>1, <1>2, <1>6 DEF StartRelay
<1> QED BY <1>3, <1>4, <1>5, <1>6

\* The signal, and the end of the last request.
LEMMA DrainLife == ASSUME LifeInv, Drain PROVE LifeInv'
<1>1. phase \in {"serving", "draining"} /\ phase' \in {"draining", "stop relay"}
  BY DEF Drain
<1>2. CallsOK'
  BY DEF Drain, LifeInv, CallsOK, UnderWay, vars
<1>3. LifeTypeOK' /\ OpenOK' /\ ClientsAccounted'
  BY <1>1 DEF Drain, LifeInv, LifeTypeOK, OpenOK, ClientsAccounted
<1> QED BY <1>2, <1>3 DEF LifeInv

\* Shutdown.
LEMMA CloseLife ==
    ASSUME LifeInv, StopRelay \/ CloseBroker \/ CloseCache \/ CloseStorage \/ Dispose
    PROVE  LifeInv'
<1>1. phase \notin {"serving", "draining"} /\ UNCHANGED <<vars, call>>
  BY DEF StopRelay, CloseBroker, CloseCache, CloseStorage, Dispose, Close
<1>2. open \cap Clients = {redis} \ {None} /\ open \subseteq Clients \cup Others
      /\ redis \in Clients \cup {None}
  BY <1>1, QuietOutside DEF LifeInv, OpenOK, LifeTypeOK
<1> USE MainAssumption, PhaseLife DEF LifeInv, LifeTypeOK, OpenOK, Others, Close, Following
<1>3. CASE StopRelay
  BY <1>1, <1>2, <1>3 DEF StopRelay
<1>4. CASE CloseBroker
  BY <1>1, <1>2, <1>4 DEF CloseBroker
<1>5. CASE CloseCache
  BY <1>1, <1>2, <1>5 DEF CloseCache
<1>6. CASE CloseStorage
  <2>1. open' \cap Clients = {redis'} \ {None}
    BY <1>2, <1>6 DEF CloseStorage
  <2> QED BY <1>1, <1>2, <1>6, <2>1 DEF CloseStorage
<1>7. CASE Dispose
  BY <1>1, <1>2, <1>7 DEF Dispose
<1> QED BY <1>3, <1>4, <1>5, <1>6, <1>7

\* A request calls Redis, or moves; it is served as long as it is under way.
LEMMA RequestLife ==
    ASSUME TypeOK, LifeInv, NEW q \in Requests,
           RequestStep(q) \/ AskForRedis(q) \/ EnterLock(q) \/ LeaveLock(q)
    PROVE  LifeInv'
<1> USE DEF LifeInv
<1>1. phase \in {"serving", "draining"} /\ UNCHANGED phase /\ "producer" \in open
  BY DEF RequestStep, AskForRedis, EnterLock, LeaveLock, lifeVars, CallsOK, UnderWay, OpenOK
<1>2. CASE RequestStep(q)
  <2>1. \A r \in Requests \ {q} : pc'[r] = pc[r]
    BY <1>2, MemberMoves, EventMoves, SubjectMoves, OtherMoves
       DEF RequestStep, Progress, Moves, TypeOK
  <2>2. CallsOK'
    BY <1>1, <1>2, <2>1 DEF RequestStep, lifeVars, CallsOK, UnderWay
  <2> QED BY <1>2, <2>2 DEF RequestStep, lifeVars, LifeTypeOK, OpenOK, ClientsAccounted
<1>3. CASE AskForRedis(q)
  <2>1. CallsOK'
    BY <1>1, <1>3 DEF AskForRedis, CallsOK, UnderWay, vars, LifeTypeOK
  <2>2. LifeTypeOK' /\ OpenOK'
    BY <1>1, <1>3 DEF AskForRedis, LifeTypeOK, OpenOK
  <2>3. ClientsAccounted'
    BY <1>1, <1>3 DEF AskForRedis, ClientsAccounted, LifeTypeOK
  <2> QED BY <2>1, <2>2, <2>3
<1>4. CASE EnterLock(q)
  <2>1. CallsOK'
    BY <1>1, <1>4 DEF EnterLock, StillNeeded, Unlocked, CallsOK, UnderWay, vars, LifeTypeOK
  <2>2. LifeTypeOK' /\ OpenOK'
    BY <1>1, <1>4 DEF EnterLock, LifeTypeOK, OpenOK, Clients
  <2>3. ClientsAccounted'
    BY <1>1, <1>4, MainAssumption DEF EnterLock, StillNeeded, Unlocked, ClientsAccounted, LifeTypeOK, Clients
  <2> QED BY <2>1, <2>2, <2>3
<1>5. CASE LeaveLock(q)
  <2>1. CallsOK'
    BY <1>1, <1>5 DEF LeaveLock, CallsOK, UnderWay, vars, LifeTypeOK
  <2>2. LifeTypeOK' /\ OpenOK'
    BY <1>1, <1>5, MainAssumption DEF LeaveLock, LifeTypeOK, OpenOK, Clients, Others
  <2>3. /\ call[q] = "pinging" /\ redis = None /\ None \notin Clients /\ q \in Clients
        /\ \A r \in Requests \ {q} : call[r] # "pinging"
    BY <1>5, MainAssumption DEF LeaveLock, CallsOK, Clients
  <2>4. {r \in Requests : call[r] = "pinging"} = {q}
    BY <2>3
  <2>5. {r \in Requests : call'[r] = "pinging"} = {}
    BY <2>3, <1>5 DEF LeaveLock, LifeTypeOK
  <2>6. open \cap Clients = {q}
    BY <2>3, <2>4 DEF ClientsAccounted
  <2>7. open' \cap Clients = {redis'} \ {None}
    BY <2>3, <2>6, <1>5 DEF LeaveLock
  <2>8. "relay" \in open' => "producer" \in open'
    BY <1>1, <1>5, MainAssumption DEF LeaveLock, Clients, Others
  <2>9. ClientsAccounted'
    BY <1>1, <2>5, <2>7, <2>8 DEF ClientsAccounted
  <2> QED BY <2>1, <2>2, <2>9
<1> QED BY <1>2, <1>3, <1>4, <1>5

\* No client is left behind, whatever fails on the way up or down.
THEOREM NoClientLeft == ServiceSpec => []ClientsAccounted
<1>1. LifeInv /\ TypeOK /\ [ServiceNext]_allVars => LifeInv'
  <2>1. CASE UNCHANGED allVars
    BY <2>1 DEF allVars, lifeVars, vars, LifeInv, LifeTypeOK, OpenOK, CallsOK,
                ClientsAccounted, UnderWay
  <2> QED BY <2>1, StartLife, DrainLife, CloseLife, RequestLife DEF ServiceNext
<1>2. ServiceSpec => []TypeOK
  BY ServiceImplementsClass, TypeCorrectness, PTL
<1>3. LifeInv => ClientsAccounted
  BY DEF LifeInv
<1> QED BY <1>1, <1>2, <1>3, InitLife, PTL DEF ServiceSpec
=============================================================================
