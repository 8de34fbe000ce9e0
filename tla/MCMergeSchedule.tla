--------------------------- MODULE MCMergeSchedule ---------------------------
(* Two lesson numbers, every valid entry and override of each.              *)
EXTENDS MergeSchedule

CONSTANTS math, hall
=============================================================================
