----------------------------- MODULE MCRagJobs -----------------------------
(* Two RAG workers, one document with two versions. *)
EXTENDS RagGenerations
=============================================================================
