----------------------------- MODULE HomeworkLife -----------------------------
(***************************************************************************)
(* What the requests on one homework amount to, however they overlap: each *)
(* takes effect at one moment, as it was asked for, or not at all.  An     *)
(* update sets its own fields, leaves the others as they are, and comes    *)
(* with its event and at most one revision; a deletion takes everything    *)
(* with it.  There are no reads, statements or locks here.                 *)
(***************************************************************************)
EXTENDS HomeworkValues, Sequences

CONSTANTS
    Requests,   \* those who change the homework
    Members     \* the members who mark it completed

VARIABLES
    life,           \* "unborn", "live" or "gone"
    homework,       \* the homework while it is live
    original,       \* the text it was created with
    revisions,      \* its history
    completions,    \* the members who have completed it
    events,         \* what is announced of it
    asked           \* asked[q]: what q asks for, one order, while it is under way

facts == <<life, homework, original, revisions, completions, events>>
vars == <<facts, asked>>

Orders ==
    [what : {"update"}, body : Changes]
        \cup [what : {"delete"}, body : {Unset}]
        \cup [what : {"mark", "unmark"}, body : Members]

\* The texts that the history accounts for.
Known == {original} \cup {rev.new : rev \in revisions}

Init ==
    /\ life = "unborn" /\ homework = Unset /\ original = Unset
    /\ revisions = {} /\ completions = {} /\ events = <<>>
    /\ asked = [q \in Requests |-> {}]

Announce(event) == events' = Append(events, event)

Create ==
    /\ life = "unborn" /\ life' = "live"
    /\ homework' \in Values /\ DatesInOrder(homework')
    /\ original' = homework'.text
    /\ Announce("created")
    /\ UNCHANGED <<revisions, completions, asked>>

\* TLC looks for the order in asked'[q] only, instead of trying them all.
Ask(q) ==
    /\ asked[q] = {}
    /\ life = "live"
    /\ UNCHANGED facts
    /\ \E order \in asked'[q] :
         order \in Orders /\ asked' = [asked EXCEPT ![q] = {order}]

\* The history goes on from a text it knows to the new one, or knows that already.
Record(c) ==
    \/ revisions' = revisions /\ (c.text # Unset => c.text \in Known)
    \/ \E rev \in revisions' :
         /\ revisions' = revisions \cup {rev}
         /\ rev.old \in Known
         /\ rev.new = c.text

Update(c) ==
    /\ life = "live"
    /\ homework' = Merge(homework, c)
    /\ DatesInOrder(homework')
    /\ Record(c)
    /\ Announce("updated")
    /\ UNCHANGED <<life, original, completions>>

\* A second deletion finds nothing and is announced all the same.
Delete ==
    /\ life # "unborn"
    /\ life' = "gone" /\ homework' = Unset
    /\ revisions' = {} /\ completions' = {}
    /\ Announce("deleted")
    /\ UNCHANGED original

Mark(m) ==
    /\ life = "live"
    /\ completions' = completions \cup {m}
    /\ UNCHANGED <<life, homework, original, revisions, events>>

Unmark(m) ==
    /\ completions' = completions \ {m}
    /\ UNCHANGED <<life, homework, original, revisions, events>>

\* The request has its answer.
Answer(q) ==
    /\ asked[q] # {}
    /\ asked'[q] = {}
    /\ asked' = [asked EXCEPT ![q] = {}]

Apply(q) ==
    /\ Answer(q)
    /\ \E order \in asked[q] :
         \/ order.what = "update" /\ Update(order.body)
         \/ order.what = "delete" /\ Delete
         \/ order.what = "mark" /\ Mark(order.body)
         \/ order.what = "unmark" /\ Unmark(order.body)

\* The request is refused, or fails.
Forget(q) == Answer(q) /\ UNCHANGED facts

Next == Create \/ \E q \in Requests : Ask(q) \/ Apply(q) \/ Forget(q)

Spec == Init /\ [][Next]_vars
=============================================================================
