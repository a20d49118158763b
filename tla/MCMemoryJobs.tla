---------------------------- MODULE MCMemoryJobs ----------------------------
(* MemoryJobs on two lanes, as the worker starts them.                     *)
EXTENDS MemoryJobs
=============================================================================
