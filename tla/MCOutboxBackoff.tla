--------------------------- MODULE MCOutboxBackoff ---------------------------
(* A small instance of OutboxBackoff. *)
EXTENDS OutboxBackoff

CONSTANTS e1, e2, e3, lesson, homework, r1, r2

MCAggregateOf == [e \in Events |-> homework]
==============================================================================
