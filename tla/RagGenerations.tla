--------------------------- MODULE RagGenerations ---------------------------
(***************************************************************************)
(* Index generations beside the life of the document.  An operator         *)
(* (rag/src/mm_chat_rag/generation_operator.py) has a candidate built from *)
(* the current versions, verifies it, and makes it the active generation,  *)
(* abandons it, or returns to the generation it was built beside.  Each    *)
(* command is one transaction under the lock of the corpus head, whose     *)
(* revision it compares; documents go on changing between any two of them. *)
(* The corpus is the one document of RagJobs; a manifest is as good as the *)
(* materializations it is computed from and is left out.                   *)
(***************************************************************************)
EXTENDS RagJobs

rebuildFrame == <<doc, current, versions, worker, up, lock>>

\* knowledge_begin_structure_generation_rebuild: a job for the current version,
\* whatever else works on the document.  Like a replay it counts
\* as a fault: the runs bound both.
Begin ==
  LET g == Len(generations) + 1 IN
  /\ Fault /\ doc = "active" /\ Candidates = {}
  /\ generations' = Append(generations, [status |-> "building", source |-> Active, head |-> 0])
  /\ Allocate(current, g)
  /\ UNCHANGED rebuildFrame

\* The last job of stage for materialization m succeeded.
Succeeded(m, stage) ==
  \E j \in DOMAIN jobs :
    /\ jobs[j].mat = m /\ jobs[j].stage = stage /\ jobs[j].status = "succeeded"
    /\ \A i \in DOMAIN jobs : jobs[i].mat = m /\ jobs[i].stage = stage => i <= j

\* The coverage, jobs, heads and projection checks of
\* knowledge_verify_structure_generation.
Verifiable(g) ==
  /\ g \in Candidates /\ doc = "active" /\ Served(g) = current
  /\ \A m \in DOMAIN mats : mats[m].gen = g =>
       Whole(m) /\ Succeeded(m, "parse") /\ Succeeded(m, "embedding")

SetStatus(g, status) == [generations EXCEPT ![g].status = status]
commandFrame == <<mats, jobs, faults, rebuildFrame>>

Verify(g) ==
  /\ Verifiable(g) /\ generations' = SetStatus(g, "verified")
  /\ UNCHANGED commandFrame

\* The head moves from the active generation to g.
MoveHead(g) ==
  generations' = [generations EXCEPT ![Active].status = "retired", ![g].status = "active"]

\* Mutation: the verification is not repeated, as before migration 032.
PromoteVerified(g) == generations[g].status = "verified" /\ MoveHead(g)

\* knowledge_promote_index_generation: the candidate is verified again.
Promote(g) == generations[g].status = "verified" /\ Verifiable(g) /\ MoveHead(g)

\* knowledge_abandon_structure_generation_candidate.
AbandonCandidate(g) ==
  /\ generations[g].status = "verified" /\ generations' = SetStatus(g, "failed")
  /\ UNCHANGED commandFrame

\* knowledge_rollback_index_generation: only to the generation it was built beside.
Rollback(g) ==
  /\ generations[g].status = "retired" /\ g = generations[Active].source
  /\ doc = "active" /\ Served(g) = current /\ Whole(generations[g].head)
  /\ MoveHead(g)

\* knowledge_activate_structure_generation_candidate, or a rollback.
Cutover(g) == (Promote(g) \/ Rollback(g)) /\ UNCHANGED commandFrame

\* A parse job without a generation.
ParseUnbound(v) == jobs' = Append(jobs, Job("parse", v, 0, 0, FALSE))

\* An API statement that waits for the head while a cutover commits sees the new
\* head with the old generation's row, hence no active generation at all: the
\* job it makes is unbound, and no claim ever takes it.  The later purge jobs of
\* a deletion, each made by a statement of its own, see the new generation.  The
\* cutover saw nothing of the document's change.
CutoverUnderApi(g) ==
  /\ Promote(g) \/ Rollback(g)
  /\ \/ \E v \in 1..MaxVersions : (Replaces(v) \/ Reopens(v)) /\ ParseUnbound(v)
     \/ /\ Tombstone
        /\ \E first \in DOMAIN versions : jobs' = Cancelled \o [v \in DOMAIN versions |->
             IF v = first THEN Job("purge", v, 0, 0, FALSE)
             ELSE Job("purge", v, g, Scope(g, v), FALSE)]
  /\ UNCHANGED <<current, mats, apiFrame>>

RebuildNext ==
  \/ Next
  \/ Begin
  \/ \E g \in DOMAIN generations :
       Verify(g) \/ AbandonCandidate(g) \/ Cutover(g) \/ CutoverUnderApi(g)

RebuildSpec == Init /\ [][RebuildNext]_vars /\ Fairness

-----------------------------------------------------------------------------
\* A cutover never loses an answer: the generation that becomes active serves the
\* document's current version, whole, however the document changed since the
\* candidate was begun, verified or retired.
CutoverServes ==
  [][Active' # Active => Served(Active)' = current /\ Whole(generations[Active'].head)]_vars
=============================================================================
