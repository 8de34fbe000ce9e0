-------------------------- MODULE MCHomeworkHistory --------------------------
(* Three requests of one member on one homework. *)
EXTENDS HomeworkHistory

CONSTANTS q1, q2, q3, m1, read, write
==============================================================================
