---------------------------- MODULE EventDelivery ----------------------------
(***************************************************************************)
(* What the transactional outbox promises to the consumers of the Kafka    *)
(* topic, with no table, lock, batch or clock in it: an event is owed once *)
(* the business change it describes is committed; only an owed event is    *)
(* sent, possibly several times (at-least-once); an owed event leaves the  *)
(* debt by being delivered, which takes at least one copy in the topic, or *)
(* by being abandoned; and what has left the debt never returns to it.     *)
(***************************************************************************)
EXTENDS Naturals

CONSTANT Events

VARIABLES
    stage,      \* stage[e]: where the promise about e stands
    copies      \* copies[e]: how many times the topic holds e

vars == <<stage, copies>>

Stages == {"none", "owed", "delivered", "abandoned"}

Init ==
    /\ stage = [e \in Events |-> "none"]
    /\ copies = [e \in Events |-> 0]

\* A business transaction commits together with its event.
Record(e) ==
    /\ stage[e] = "none"
    /\ stage' = [stage EXCEPT ![e] = "owed"]
    /\ UNCHANGED copies

\* The broker appends one copy of an owed event.
Send(e) ==
    /\ stage[e] = "owed"
    /\ copies' = [copies EXCEPT ![e] = @ + 1]
    /\ UNCHANGED stage

\* Owed events are settled together: D as delivered, A as abandoned.
Settle(D, A) ==
    /\ \A e \in D \cup A : stage[e] = "owed"
    /\ \A e \in D : copies[e] > 0
    /\ stage' = [e \in Events |-> IF e \in D THEN "delivered"
                                  ELSE IF e \in A THEN "abandoned"
                                  ELSE stage[e]]
    /\ UNCHANGED copies

Next ==
    \/ \E e \in Events : Record(e) \/ Send(e)
    \/ \E D, A \in SUBSET Events : Settle(D, A)

Spec == Init /\ [][Next]_vars
==============================================================================
