---------------------------- MODULE MCOutboxRelay ----------------------------
(* Small instances of OutboxRelay. *)
EXTENDS OutboxRelay, TLC

CONSTANTS e1, e2, e3, lesson, homework, r1, r2

\* Two changes of one aggregate and one of another.
MCAggregateOf ==
    [e \in Events |-> IF e = e3 THEN lesson ELSE homework]

RelaySymmetry == Permutations(Relays)
==============================================================================
