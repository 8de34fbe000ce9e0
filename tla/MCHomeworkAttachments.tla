------------------------ MODULE MCHomeworkAttachments ------------------------
(* A small instance of HomeworkAttachments. *)
EXTENDS HomeworkAttachments

CONSTANTS u1, u2, x1, d1, d2
==============================================================================
