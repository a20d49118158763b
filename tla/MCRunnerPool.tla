---------------------------- MODULE MCRunnerPool ----------------------------
(* RunnerPool with room for one process.                                   *)
EXTENDS RunnerPool
=============================================================================
