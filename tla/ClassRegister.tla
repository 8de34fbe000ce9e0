---------------------------- MODULE ClassRegister ----------------------------
(***************************************************************************)
(* What the requests on a class amount to, however they overlap: who is a  *)
(* member with which role, one school event, one subject with the rows     *)
(* that name it, and what is announced of each.  A request takes effect at *)
(* one moment, as it was asked for and with its announcement, or not at    *)
(* all.  What needs the editor's role is asked for by those only whom the  *)
(* roster made editors when they were let through.  There are no rows,     *)
(* reads, locks or unique index here.                                      *)
(***************************************************************************)
EXTENDS ClassValues

CONSTANT Requests   \* those who change the class

VARIABLES
    roster,     \* roster[p]: the role of p in the class, None for a stranger
    known,      \* known[p]: what is announced of p
    life,       \* of the school event: "unborn", "live" or "gone"
    event,      \* its dates while it is live
    announced,  \* the dates announced, None if a deletion is
    subject,    \* of the subject: "unborn", "there" or "gone"
    uses,       \* the homework and lessons that name it, by their request
    told,       \* what is announced of it
    actor,      \* actor[q]: as whom q has been let through to edit, None before that
    asked       \* asked[q]: what q asks for, one order, while it is under way

people == <<roster, known>>
plan == <<life, event, announced>>
topic == <<subject, uses, told>>
vars == <<people, plan, topic, actor, asked>>

Orders ==
    [what : {"join", "change"}, body : Memberships]
        \cup [what : {"leave"}, body : People]
        \cup [what : {"replan"}, body : Changes]
        \cup [what : {"cancel", "name", "rename", "drop"}, body : {None}]

\* What an editor may ask for, and nobody else but an administrator.
Editing == {"replan", "name"}

Init ==
    /\ roster \in [People -> Roles \cup {None}]
    /\ known = roster
    /\ life = "unborn" /\ event = None /\ announced = None
    /\ subject = "unborn" /\ uses = {} /\ told = "nothing"
    /\ actor = [q \in Requests |-> None]
    /\ asked = [q \in Requests |-> {}]

-----------------------------------------------------------------------------
\* A request is let through for an administrator, or one who is an editor now.
Admit(q) ==
    /\ actor[q] = None /\ asked[q] = {}
    /\ \E p \in People \cup {Admin} :
         /\ p # Admin => roster[p] = "editor"
         /\ actor' = [actor EXCEPT ![q] = p]
    /\ UNCHANGED <<people, plan, topic, asked>>

\* TLC looks for the order in asked'[q] only, instead of trying them all.
Ask(q) ==
    /\ asked[q] = {}
    /\ \E order \in asked'[q] :
         /\ order \in Orders
         /\ order.what \in Editing => actor[q] # None
         /\ asked' = [asked EXCEPT ![q] = {order}]
    /\ UNCHANGED <<people, plan, topic, actor>>

\* The request has its answer, and acts for nobody any more.
Answer(q) ==
    /\ asked'[q] = {}
    /\ asked' = [asked EXCEPT ![q] = {}]
    /\ actor' = [actor EXCEPT ![q] = None]

-----------------------------------------------------------------------------
Say(p, role) == known' = [known EXCEPT ![p] = role]
Set(p, role) == roster' = [roster EXCEPT ![p] = role]

\* Only a stranger joins, so that a membership is never taken over.
Join(p, role) == roster[p] = None /\ Set(p, role) /\ Say(p, role)

\* Only a member gets another role.
Change(p, role) == roster[p] # None /\ Set(p, role) /\ Say(p, role)

\* A membership that has ended already is announced as ended once more.
Leave(p) == (Set(p, None) \/ UNCHANGED roster) /\ Say(p, None)

Plan(q) ==
    /\ actor[q] # None /\ Answer(q)
    /\ life = "unborn" /\ life' = "live"
    /\ event' \in Spans /\ InOrder(event')
    /\ announced' = event'
    /\ UNCHANGED <<people, topic>>

\* The dates asked for are set and the others stay.  Announced they may be
\* with others that have been overtaken, but never out of order.
Replan(c) ==
    /\ life = "live"
    /\ event' = Merge(event, c) /\ InOrder(event')
    /\ \E old \in Spans : announced' = Merge(old, c)
    /\ InOrder(announced')
    /\ UNCHANGED life

Cancel ==
    /\ life # "unborn" /\ life' = "gone"
    /\ event' = None /\ announced' = None

Found ==
    /\ subject = "unborn" /\ subject' = "there" /\ told' = "there"
    /\ UNCHANGED <<people, plan, uses, actor, asked>>

Name(q) == subject = "there" /\ uses' = uses \cup {q} /\ UNCHANGED <<subject, told>>

Unname(q) ==
    /\ actor[q] # None /\ Answer(q)
    /\ \E use \in uses : uses' = uses \ {use}
    /\ UNCHANGED <<people, plan, subject, told>>

Rename == subject = "there" /\ told' = "there" /\ UNCHANGED <<subject, uses>>

\* Nothing names the subject, nor will.
Drop ==
    /\ subject # "unborn" /\ uses = {}
    /\ subject' = "gone" /\ told' = "gone"
    /\ UNCHANGED uses

-----------------------------------------------------------------------------
OnPeople(order) ==
    /\ \/ order.what = "join" /\ Join(order.body.person, order.body.role)
       \/ order.what = "change" /\ Change(order.body.person, order.body.role)
       \/ order.what = "leave" /\ Leave(order.body)
    /\ UNCHANGED <<plan, topic>>

OnPlan(order) ==
    /\ \/ order.what = "replan" /\ Replan(order.body)
       \/ order.what = "cancel" /\ Cancel
    /\ UNCHANGED <<people, topic>>

OnTopic(q, order) ==
    /\ \/ order.what = "name" /\ Name(q)
       \/ order.what = "rename" /\ Rename
       \/ order.what = "drop" /\ Drop
    /\ UNCHANGED <<people, plan>>

Apply(q) ==
    /\ Answer(q)
    /\ \E order \in asked[q] : OnPeople(order) \/ OnPlan(order) \/ OnTopic(q, order)

\* The request is refused, or fails.
Forget(q) == Answer(q) /\ UNCHANGED <<people, plan, topic>>

Next ==
    \/ Found
    \/ \E q \in Requests :
         Admit(q) \/ Ask(q) \/ Plan(q) \/ Unname(q) \/ Apply(q) \/ Forget(q)

Spec == Init /\ [][Next]_vars
=============================================================================
