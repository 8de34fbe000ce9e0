-------------------------- MODULE MCHomeworkEditing --------------------------
(* Three requests of one member on one homework. *)
EXTENDS HomeworkEditing

CONSTANTS q1, q2, q3, m1, read, write
==============================================================================
