----------------------------- MODULE MCJobsTask ------------------------------
(* Three pushes of one key, two of them by callers that wait, the third by a   *)
(* task that needs it.                                                         *)
EXTENDS JobsTask, TLC
CONSTANTS p, q, d
CallersV == {p, q, d}
==============================================================================
