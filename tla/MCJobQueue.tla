----------------------------- MODULE MCJobQueue -----------------------------
(* The backlog: two engines, one of them with a backend that may hang.     *)
EXTENDS JobQueue
=============================================================================
