---------------------------- MODULE MCSendWorker ----------------------------
(* SendWorker on a small set of jobs (MCSendWorker.cfg): with four of them three *)
(* can be submitted while one executes, so that adoption happens twice over, and *)
(* a stop can find in the slot a job that has absorbed others.                   *)
EXTENDS SendWorker
=============================================================================
