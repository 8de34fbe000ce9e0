---------------------------- MODULE ClassMembers ----------------------------
(***************************************************************************)
(* The members of one class: ClassMemberService (app/services/classes.py)  *)
(* and the access checks that read them (app/services/access.py).          *)
(*                                                                         *)
(* A request is one READ COMMITTED transaction, one step per statement.    *)
(* It reads its row without a lock; an UPDATE or DELETE locks the row, and *)
(* an INSERT enters the unique index of (class, person), each until the    *)
(* end of the transaction.                                                 *)
(***************************************************************************)
EXTENDS ClassValues

CONSTANTS
    Requests,   \* the requests that may reach the service, one transaction each
    Ids         \* identities of rows, those that will be generated included

ASSUME IdsAssumption == None \notin Ids

VARIABLES
    members,    \* members[i]: the committed row i
    known,      \* known[p]: the role of p as the events on class members tell it
    hollow,     \* history: of whom the last event is a removal that removed nothing
    pc,         \* pc[q]: where request q stands
    target,     \* target[q]: the id of the row q inserts or has read
    draft,      \* draft[q]: the version q inserts or writes, or the row it deletes
    actor       \* actor[q]: as whom q has been let through to edit, None before that

memberVars == <<members, known, hollow, target, draft>>

There(i) == members[i] # None
RowsOf(p) == {i \in Ids : There(i) /\ members[i].person = p}

\* Who is a member with which role, as a person has at most one row.
Roster ==
    [p \in People |->
        IF RowsOf(p) = {} THEN None ELSE members[CHOOSE i \in RowsOf(p) : TRUE].role]

IsEditor(p) == \E i \in RowsOf(p) : members[i].role = "editor"

MembersInit ==
    /\ members \in [Ids -> Memberships \cup {None}]
    /\ \A i, j \in Ids : There(i) /\ There(j) /\ members[i].person = members[j].person => i = j
    /\ known = Roster
    /\ hollow = {}
    /\ pc = [q \in Requests |-> "new"]
    /\ target = [q \in Requests |-> None]
    /\ draft = [q \in Requests |-> None]
    /\ actor = [q \in Requests |-> None]

Advance(q, step) == pc' = [pc EXCEPT ![q] = step]

\* What a request leaves of itself when its transaction ends.
End(q) ==
    /\ Advance(q, "done")
    /\ target' = [target EXCEPT ![q] = None]
    /\ draft' = [draft EXCEPT ![q] = None]
    /\ actor' = [actor EXCEPT ![q] = None]

-----------------------------------------------------------------------------
(* require_member, require_editor                                           *)

\* Mutation of MayEdit: membership is enough.
MayEditAsMember(p) == RowsOf(p) # {}

MayEdit(p) == IsEditor(p)

\* A request that needs the editor's role begins, and is let through.
Authorize(q) ==
    /\ pc[q] = "new"
    /\ \E p \in People \cup {Admin} :
         /\ p # Admin => MayEdit(p)
         /\ actor' = [actor EXCEPT ![q] = p]
    /\ Advance(q, "allowed")
    /\ UNCHANGED memberVars

-----------------------------------------------------------------------------
(* Locks and the unique index.                                              *)

\* An UPDATE or DELETE that found its row locks it until the end.
Holds(r, i) == pc[r] \in {"changed", "removed"} /\ target[r] = i /\ There(i)
Holders(q) == {r \in Requests \ {q} : Holds(r, target[q])}

\* Mutation of Claimants: the index shows committed rows only.
CommittedOnly(q) == {r \in Requests \ {q} : \E i \in RowsOf(draft[q].person) : Holds(r, i)}

\* Who has put a row of the same person into the index, or holds the one there.
Claimants(q) ==
    {r \in Requests \ {q} :
        \/ pc[r] = "added" /\ draft[r].person = draft[q].person
        \/ \E i \in RowsOf(draft[q].person) : Holds(r, i)}

-----------------------------------------------------------------------------
(* add                                                                      *)

\* A fresh uuid: nobody refers to it.
Unused(i) == ~ There(i) /\ \A r \in Requests : target[r] # i

\* The row is looked for, and is not there.
StartAdd(q) ==
    /\ pc[q] = "new"
    /\ \E i \in Ids, row \in Memberships :
         /\ Unused(i)
         /\ RowsOf(row.person) = {}
         /\ target' = [target EXCEPT ![q] = i]
         /\ draft' = [draft EXCEPT ![q] = row]
    /\ Advance(q, "adding")
    /\ UNCHANGED <<members, known, hollow, actor>>

InsertMember(q) ==
    /\ pc[q] = "adding"
    /\ Claimants(q) = {}
    /\ RowsOf(draft[q].person) = {}
    /\ Advance(q, "added")
    /\ UNCHANGED <<memberVars, actor>>

\* IntegrityError on uq_class_member_telegram: ClassMemberAlreadyExistsError.
AlreadyMember(q) ==
    /\ pc[q] = "adding"
    /\ Claimants(q) = {}
    /\ RowsOf(draft[q].person) # {}
    /\ End(q)
    /\ UNCHANGED <<members, known, hollow>>

-----------------------------------------------------------------------------
(* update and delete                                                        *)

\* The row is read without a lock, to be given another role or deleted.
ReadMember(q) ==
    /\ pc[q] = "new"
    /\ \E i \in Ids :
         /\ There(i)
         /\ target' = [target EXCEPT ![q] = i]
         /\ \/ /\ \E role \in Roles :
                    draft' = [draft EXCEPT ![q] = [members[i] EXCEPT !.role = role]]
               /\ Advance(q, "changing")
            \/ /\ draft' = [draft EXCEPT ![q] = members[i]]
               /\ Advance(q, "removing")
    /\ UNCHANGED <<members, known, hollow, actor>>

\* Mutation of ChangeRole: the UPDATE does not count its rows.
ChangeRoleUncounted(q) ==
    /\ pc[q] = "changing"
    /\ Holders(q) = {}
    /\ Advance(q, "changed")
    /\ UNCHANGED <<memberVars, actor>>

\* The UPDATE by id waits for the row, and must find it.
ChangeRole(q) ==
    /\ pc[q] = "changing"
    /\ Holders(q) = {}
    /\ There(target[q])
    /\ Advance(q, "changed")
    /\ UNCHANGED <<memberVars, actor>>

\* The row has gone: RuntimeError, and the transaction rolls back.
MemberGone(q) ==
    /\ pc[q] = "changing"
    /\ Holders(q) = {}
    /\ ~ There(target[q])
    /\ End(q)
    /\ UNCHANGED <<members, known, hollow>>

\* The DELETE by id waits for the row; it may have gone, and nobody looks.
RemoveMember(q) ==
    /\ pc[q] = "removing"
    /\ Holders(q) = {}
    /\ Advance(q, "removed")
    /\ UNCHANGED <<memberVars, actor>>

-----------------------------------------------------------------------------
\* The COMMIT, with the event of the change, flushed under its locks.  An
\* UPDATE or DELETE by the id of a row that has gone has written nothing.
CommitMember(q) ==
    /\ pc[q] \in {"added", "changed", "removed"}
    /\ LET row == IF pc[q] = "removed" THEN None ELSE draft[q]
           person == draft[q].person
       IN /\ members' = IF pc[q] = "added" \/ There(target[q])
                        THEN [members EXCEPT ![target[q]] = row] ELSE members
          /\ known' = [known EXCEPT ![person] = IF row = None THEN None ELSE row.role]
          /\ hollow' = IF row = None /\ ~ There(target[q]) THEN hollow \cup {person}
                       ELSE hollow \ {person}
    /\ End(q)

MemberStep(q) ==
    \/ StartAdd(q) \/ InsertMember(q) \/ AlreadyMember(q)
    \/ ReadMember(q) \/ ChangeRole(q) \/ MemberGone(q) \/ RemoveMember(q)
    \/ CommitMember(q)

-----------------------------------------------------------------------------
(***************************************************************************)
(* A person is a member of the class once, although add looks for the row  *)
(* without a lock: uq_class_member_telegram and what add makes of it.      *)
(***************************************************************************)
MembersUnique ==
    \A i, j \in Ids : There(i) /\ There(j) /\ members[i].person = members[j].person => i = j

(***************************************************************************)
(* A consumer that applies the events on class members in the order in     *)
(* which they were recorded knows who is a member and with which role,     *)
(* with one exception.  Two requests may delete the same row, and delete   *)
(* does not count: the event of the second may come after the person has   *)
(* joined anew, and tells a removal that did not happen.                   *)
(***************************************************************************)
MembersKnown ==
    \A p \in People \ hollow :
        /\ known[p] = None => RowsOf(p) = {}
        /\ known[p] # None => \E i \in RowsOf(p) : members[i].role = known[p]
==============================================================================
