------------------------------ MODULE Timetable ------------------------------
(***************************************************************************)
(* What the requests on the schedule of a class amount to, however they    *)
(* overlap: each takes effect at one moment, as it was asked for, or not   *)
(* at all.  A new row comes into a free slot; an update sets its own       *)
(* columns and leaves all others as they are at that moment; what it       *)
(* leaves has its times in order and its slot to itself.  There are no     *)
(* reads and no locks here.                                                *)
(***************************************************************************)
EXTENDS SchedulePatches

CONSTANT Requests   \* those who change the schedule

VARIABLES
    rows,       \* rows[i]: the row i, None while there is none
    asked       \* asked[q]: what q asks for, one order, while it is under way

vars == <<rows, asked>>

Orders ==
    [what : {"add"}, id : Ids, body : Creates]
        \cup [what : {"change"}, id : Ids, body : Patches]
        \cup [what : {"remove"}, id : Ids, body : {None}]

Present(i) == rows[i] # None

\* No row but i is in the slot of `row`.
FreeFor(i, row) == \A j \in Ids \ {i} : Present(j) => ~ SameSlot(rows[j], row)

Init ==
    /\ rows \in [Ids -> Creates \cup {None}]
    /\ \A i \in Ids : Present(i) => FreeFor(i, rows[i])
    /\ asked = [q \in Requests |-> {}]

\* TLC looks for the order in asked'[q] only, instead of trying them all.
Ask(q) ==
    /\ asked[q] = {}
    /\ UNCHANGED rows
    /\ \E order \in asked'[q] :
         order \in Orders /\ asked' = [asked EXCEPT ![q] = {order}]

Put(i, row) == rows' = [rows EXCEPT ![i] = row]

Add(i, row) == ~ Present(i) /\ FreeFor(i, row) /\ Put(i, row)

\* The columns of c are set on the row as it is, which stays in its table.
Change(i, c) ==
    LET new == Merge(rows[i], c)
    IN Present(i) /\ Fits(c, rows[i]) /\ Ordered(new) /\ FreeFor(i, new) /\ Put(i, new)

\* Removing a row that has gone is no error.
Remove(i) == Put(i, None)

\* The request has its answer.
Answer(q) ==
    /\ asked[q] # {}
    /\ asked'[q] = {}
    /\ asked' = [asked EXCEPT ![q] = {}]

Apply(q) ==
    /\ Answer(q)
    /\ \E order \in asked[q] :
         \/ order.what = "add" /\ Add(order.id, order.body)
         \/ order.what = "change" /\ Change(order.id, order.body)
         \/ order.what = "remove" /\ Remove(order.id)

\* The request is refused, or fails.
Forget(q) == Answer(q) /\ UNCHANGED rows

Next == \E q \in Requests : Ask(q) \/ Apply(q) \/ Forget(q)

Spec == Init /\ [][Next]_vars
=============================================================================
