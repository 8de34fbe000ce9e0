---------------------------- MODULE SchoolClass ----------------------------
(***************************************************************************)
(* A class under concurrent requests of any kind on its members, on a      *)
(* subject and on a school event: ClassMembers, Subjects and SchoolEvents  *)
(* over the same requests.  Who may write depends on the members at the    *)
(* time; a change of the members overlaps whatever is written.             *)
(***************************************************************************)
EXTENDS SchoolEvents, Subjects

vars == <<memberVars, actor, pc, eventVars, subjectVars>>

Init == MembersInit /\ EventsInit /\ SubjectsInit

\* A request that is refused at once: its role, or a row that is not there.
Reject(q) ==
    /\ pc[q] \in {"new", "allowed"}
    /\ EndEvent(q)
    /\ UNCHANGED <<life, event, announced, behind, subjectVars>>

\* An error, a cancellation or a crash before the COMMIT.
Rollback(q) ==
    /\ pc[q] \notin {"new", "allowed", "done"}
    /\ EndEvent(q)
    /\ UNCHANGED <<life, event, announced, behind, subjectVars>>

\* upload_attachment: the check is a transaction of its own.  The object is
\* stored after it, and the row inserted in a second one, without a check.
Upload(q) ==
    /\ \/ pc[q] = "allowed" /\ Advance(q, "uploading") /\ UNCHANGED <<actor, memberVars>>
       \/ pc[q] = "uploading" /\ End(q) /\ UNCHANGED <<members, known, hollow>>
    /\ UNCHANGED <<eventVars, subjectVars>>

Progress(q) ==
    \/ Authorize(q) /\ UNCHANGED <<eventVars, subjectVars>>
    \/ MemberStep(q) /\ UNCHANGED <<eventVars, subjectVars>>
    \/ EventStep(q) /\ UNCHANGED subjectVars
    \/ SubjectStep(q) /\ UNCHANGED eventVars
    \/ Upload(q)
    \/ Reject(q)

Finished == (\A q \in Requests : pc[q] = "done") /\ UNCHANGED vars

Next == (\E q \in Requests : Progress(q) \/ Rollback(q)) \/ Finished

Spec == Init /\ [][Next]_vars

Steps ==
    {"new", "allowed", "adding", "added", "changing", "changed", "removing", "removed",
     "editing", "edited", "erasing", "erased", "using", "used", "renaming", "renamed",
     "dropping", "dropped", "clearing", "uploading", "done"}

TypeOK ==
    /\ members \in [Ids -> Memberships \cup {None}]
    /\ known \in [People -> Roles \cup {None}]
    /\ hollow \in SUBSET People
    /\ pc \in [Requests -> Steps]
    /\ target \in [Requests -> Ids \cup {None}]
    /\ draft \in [Requests -> Memberships \cup {None}]
    /\ actor \in [Requests -> People \cup {Admin, None}]
    /\ life \in {"unborn", "live", "gone"}
    /\ event \in Spans \cup {None}
    /\ seen \in [Requests -> Spans \cup {None}]
    /\ change \in [Requests -> Changes \cup {None}]
    /\ announced \in Spans \cup {None}
    /\ behind \in BOOLEAN
    /\ subject \in {"unborn", "there", "gone"}
    /\ uses \in SUBSET Requests
    /\ told \in {"nothing", "there", "gone"}

-----------------------------------------------------------------------------
\* What q asks for, from its read to the end of its transaction.
Order(q) ==
    CASE pc[q] \in {"adding", "added"} -> {[what |-> "join", body |-> draft[q]]}
      [] pc[q] \in {"changing", "changed"} -> {[what |-> "change", body |-> draft[q]]}
      [] pc[q] \in {"removing", "removed"} -> {[what |-> "leave", body |-> draft[q].person]}
      [] pc[q] \in {"editing", "edited"} -> {[what |-> "replan", body |-> change[q]]}
      [] pc[q] \in {"erasing", "erased"} -> {[what |-> "cancel", body |-> None]}
      [] pc[q] \in {"using", "used"} -> {[what |-> "name", body |-> None]}
      [] pc[q] \in {"renaming", "renamed"} -> {[what |-> "rename", body |-> None]}
      [] pc[q] \in {"dropping", "dropped"} -> {[what |-> "drop", body |-> None]}
      [] OTHER -> {}

Asked == [q \in Requests |-> Order(q)]

(***************************************************************************)
(* However requests of any kind overlap, each takes effect at its commit,  *)
(* as it was asked for and with its event, or not at all: nobody takes     *)
(* over a membership or gives a role to one who has left, an update of a   *)
(* school event leaves the dates it does not name as they are at that      *)
(* moment, and a subject goes only while nothing names it.  School events  *)
(* and rows that name a subject are written by administrators, and by      *)
(* those only who were editors at some moment of that very request.        *)
(***************************************************************************)
Promise == INSTANCE ClassRegister WITH roster <- Roster, asked <- Asked
RegisterSpec == Promise!Spec

-----------------------------------------------------------------------------
(* The inductive invariant, by the state it is about.                       *)

MemberSteps == {"adding", "added", "changing", "changed", "removing", "removed"}

\* What a request on a member carries: a fresh id, or that of a row of its person.
CarriesOK(q) ==
    /\ pc[q] \in MemberSteps => target[q] \in Ids /\ draft[q] \in Memberships
    /\ pc[q] \notin MemberSteps => target[q] = None
    /\ pc[q] \in {"adding", "added"} =>
         ~ There(target[q]) /\ \A r \in Requests \ {q} : target[r] # target[q]
    /\ pc[q] \in MemberSteps \ {"adding", "added"} /\ There(target[q]) =>
         members[target[q]].person = draft[q].person

\* A changed row is there, a row has one holder, a person one row in the index.
HoldsOK(q) ==
    /\ pc[q] = "changed" => There(target[q])
    /\ pc[q] = "added" => RowsOf(draft[q].person) = {}
    /\ \A r \in Requests \ {q} :
         /\ pc[q] = "added" /\ pc[r] = "added" => draft[q].person # draft[r].person
         /\ ~ (Holds(q, target[q]) /\ Holds(r, target[q]))

MembersOK == MembersUnique /\ MembersKnown /\ \A q \in Requests : CarriesOK(q) /\ HoldsOK(q)

\* What q has read and validated, and that its lock excludes every other.
EventRequestOK(q) ==
    /\ pc[q] \in {"editing", "edited"} =>
         seen[q] \in Spans /\ change[q] \in Changes /\ InOrder(Merge(seen[q], change[q]))
    /\ pc[q] \in {"editing", "edited", "erasing", "erased"} => life # "unborn"
    /\ pc[q] = "edited" => Live /\ InOrder(Merge(event, change[q]))
    /\ Live /\ pc[q] \in {"edited", "erased"} =>
         \A r \in Requests \ {q} : pc[r] \notin {"edited", "erased"}

EventOK ==
    /\ Live => event \in Spans
    /\ EventInOrder /\ AnnouncedInOrder /\ AnnouncedIsStored
    /\ \A q \in Requests : EventRequestOK(q)

SubjectRequestOK(q) ==
    /\ pc[q] \in {"renaming", "renamed", "dropping", "dropped"} => subject # "unborn"
    /\ pc[q] \in {"renamed", "used"} => SubjectThere
    /\ SubjectThere /\ pc[q] = "dropped" =>
         uses = {} /\ \A r \in Requests \ {q} : pc[r] \notin {"renamed", "used", "dropped"}

SubjectOK ==
    /\ UsesHaveSubject /\ SubjectToldTrue
    /\ \A q \in Requests : SubjectRequestOK(q)

\* A request acts as somebody from the check to its end, and at no other time.
Acting == {"allowed", "uploading", "editing", "edited", "using", "used"}

ActorsOK == \A q \in Requests : actor[q] # None <=> pc[q] \in Acting

Inv == TypeOK /\ MembersOK /\ ActorsOK /\ EventOK /\ SubjectOK
=============================================================================
