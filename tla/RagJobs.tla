------------------------------ MODULE RagJobs ------------------------------
(***************************************************************************)
(* The life of one knowledge document: its versions, their                 *)
(* materializations in the index generations, and the parse, embedding and *)
(* purge jobs that carry them there and away again.  The API works for the *)
(* active generation; RagGenerations adds the operator who builds others.  *)
(*                                                                         *)
(* Postgres holds everything that lasts; every stored function and every   *)
(* API statement (backend/internal/knowledge, migrations 006 - 104) is one *)
(* transaction.  RAG workers (rag/src/mm_chat_rag) claim one job at a time *)
(* and run its handler in several such calls, under a lease they renew and *)
(* may lose.  One worker is admitted at a time by an advisory lock that    *)
(* nobody looks at again, so a dropped lock session leaves two running.    *)
(*                                                                         *)
(* A version is its source_version, a job and a materialization the number *)
(* of their creation.  A lease token is fresh with each claim, as is the   *)
(* attempt: the attempt stands for the token.  Nobody reads the attempts of *)
(* a job that ended: they are not kept.                                    *)
(***************************************************************************)
EXTENDS Integers, Sequences, FiniteSets

CONSTANTS
  Workers,      \* RAG worker processes
  Chunks,       \* child chunks a parse yields
  None,         \* in place of a worker
  MaxAttempts,  \* max_attempts of a job
  MaxVersions,  \* bound on the versions of the document
  MaxParses,    \* bound on the API's materializations in a generation
  MaxFaults     \* bound on replays and rebuilds, worker crashes and dropped lock sessions

ASSUME WorkersAssumption == None \notin Workers
ASSUME BoundsAssumption ==
  {MaxAttempts, MaxVersions, MaxParses} \subseteq Nat \ {0} /\ MaxFaults \in Nat

VARIABLES
  doc,       \* knowledge_documents.status, "none" before it exists
  current,   \* its current_version_id, 0 for none
  versions,  \* versions[v]: knowledge_document_versions.status
  generations, \* knowledge_index_generations: status, the generation each was
               \* built beside (0: none), and the document's projection head
               \* in it, a materialization (0: none)
  mats,      \* knowledge_document_materializations and their search rows
  jobs,      \* knowledge_processing_jobs
  worker,    \* worker[w]: the claim and the handler a process runs
  up,        \* running workers
  lock,      \* the session that holds the advisory lock
  faults     \* replays, crashes and dropped lock sessions so far

documentVars == <<doc, current, versions, generations>>
vars == <<documentVars, mats, jobs, worker, up, lock, faults>>

Idle == [step |-> "idle"]
Live == {"pending", "processing"}
Job(stage, v, g, m, replay) ==
  [stage |-> stage, version |-> v, gen |-> g, mat |-> m, replay |-> replay,
   status |-> "pending", attempts |-> 0, lease |-> FALSE]
Ended(job, status) == [job EXCEPT !.status = status, !.lease = FALSE, !.attempts = 0]
Materialization(v, g) ==
  [version |-> v, gen |-> g, status |-> "staging", rows |-> [c \in Chunks |-> "none"]]

Init ==
  /\ doc = "none" /\ current = 0 /\ versions = <<>> /\ mats = <<>> /\ jobs = <<>>
  /\ generations = <<[status |-> "active", source |-> 0, head |-> 0]>>
  /\ worker = [w \in Workers |-> Idle] /\ up = {} /\ lock = None
  /\ faults = 0

\* active_index_generation_id of the corpus head.
Active == CHOOSE g \in DOMAIN generations : generations[g].status = "active"

Fault == faults < MaxFaults /\ faults' = faults + 1

-----------------------------------------------------------------------------
(* The API.                                                                  *)

\* hasDocumentProcessingWork.
Working ==
  \/ \E v \in DOMAIN versions : versions[v] = "uploaded"
  \/ \E j \in DOMAIN jobs : jobs[j].status \in Live

apiFrame == <<worker, up, lock, faults>>

\* A materialization of version v in generation g and the job that parses it.
Allocate(v, g) ==
  /\ mats' = Append(mats, Materialization(v, g))
  /\ jobs' = Append(jobs, Job("parse", v, g, Len(mats) + 1, FALSE))

\* insertParseProcessingJob, for the active generation.
Parse(v) ==
  /\ Cardinality({m \in DOMAIN mats : mats[m].gen = Active}) < MaxParses
  /\ Allocate(v, Active)

\* CreateDocument.
CreateDocument ==
  /\ doc = "none" /\ doc' = "processing" /\ versions' = <<"uploaded">> /\ Parse(1)
  /\ UNCHANGED <<current, generations, apiFrame>>

\* CreateDocumentVersion: a replacement of an active document.
Replaces(v) ==
  /\ doc = "active" /\ ~Working /\ v = Len(versions) + 1 /\ v <= MaxVersions
  /\ versions' = Append(versions, "uploaded") /\ UNCHANGED doc
CreateVersion ==
  /\ \E v \in 1..MaxVersions : Replaces(v) /\ Parse(v)
  /\ UNCHANGED <<current, generations, apiFrame>>

Newest(S) == {v \in S : \A u \in S : u <= v}

\* The version that generation g serves, 0 for none.
Served(g) == IF generations[g].head = 0 THEN 0 ELSE mats[generations[g].head].version

\* The job has a generation: legacy_projection_unbound is false.
Bound(job) == job.gen # 0

\* resolveReprocessTarget: the newest failure after the current version, else the
\* current version if the active generation does not serve it.
Target ==
  LET failures == {v \in DOMAIN versions : v > current /\ versions[v] = "failed"}
  IN IF failures # {} THEN Newest(failures) ELSE {current} \ {0, Served(Active)}

\* ReprocessDocument.
Reopens(v) ==
  /\ doc \in {"processing", "active"} /\ ~Working /\ v \in Target
  /\ versions' = [versions EXCEPT ![v] = IF @ = "failed" THEN "uploaded" ELSE @]
  /\ UNCHANGED doc
Reprocess ==
  /\ \E v \in DOMAIN versions : Reopens(v) /\ Parse(v)
  /\ UNCHANGED <<current, generations, apiFrame>>

\* The jobs of a deleted document, cancelled.
Cancelled ==
  [j \in DOMAIN jobs |->
     IF jobs[j].status \in Live THEN Ended(jobs[j], "cancelled") ELSE jobs[j]]
Tombstone ==
  /\ doc \in {"processing", "active"}
  /\ doc' = "tombstoned" /\ versions' = [v \in DOMAIN versions |-> "tombstoned"]

\* knowledge_resolve_purge_projection_binding: in the active generation, the head
\* if it is of this version, else (0) every materialization of the version.
Scope(g, v) == IF Served(g) = v THEN generations[g].head ELSE 0

\* DeleteDocument: one purge job per version.
DeleteDocument ==
  /\ Tombstone
  /\ jobs' = Cancelled \o [v \in DOMAIN versions |-> Job("purge", v, Active, Scope(Active, v), FALSE)]
  /\ UNCHANGED <<current, generations, mats, apiFrame>>

\* DeleteCollection: its purge goes through the outbox.
DeleteCollection ==
  /\ Tombstone /\ jobs' = Cancelled
  /\ UNCHANGED <<current, generations, mats, apiFrame>>

\* knowledge_replay_processing_job, by an operator.  The successor of a purge
\* job violates the purge fence index.
Replay(j) ==
  /\ Fault
  /\ jobs[j].status = "failed" /\ jobs[j].stage # "purge"
  /\ jobs' = Append(jobs, Job(jobs[j].stage, jobs[j].version, jobs[j].gen, jobs[j].mat, TRUE))
  /\ UNCHANGED <<documentVars, mats, worker, up, lock>>

-----------------------------------------------------------------------------
(* The queue: claim, lease, finish (migration 104).                          *)

\* The version of a job that dead-letters, unless it is published or gone.
FailVersions(S) ==
  [v \in DOMAIN versions |-> IF v \in S /\ versions[v] = "uploaded" THEN "failed" ELSE versions[v]]

\* Processing jobs whose lease ran out on their last attempt.
Exhausted ==
  {j \in DOMAIN jobs : jobs[j].status = "processing" /\ ~jobs[j].lease /\ jobs[j].attempts >= MaxAttempts}
Swept ==
  [j \in DOMAIN jobs |-> IF j \in Exhausted THEN Ended(jobs[j], "failed") ELSE jobs[j]]
\* Their versions, where no other job of the version was live before the sweep.
Stranded ==
  {v \in DOMAIN versions : \E j \in Exhausted :
     /\ jobs[j].stage # "purge" /\ jobs[j].version = v
     /\ \A i \in DOMAIN jobs \ {j} : jobs[i].version = v => jobs[i].status \notin Live}

\* Mutation: the attempts are not looked at.
DueAlways(j) ==
  Bound(jobs[j]) /\ (jobs[j].status = "pending" \/ (jobs[j].status = "processing" /\ ~jobs[j].lease))

Due(j) ==
  /\ Bound(jobs[j]) /\ jobs[j].attempts < MaxAttempts
  /\ jobs[j].status = "pending" \/ (jobs[j].status = "processing" /\ ~jobs[j].lease)

\* Mutation: nobody sweeps.
ClaimUnswept(w) ==
  /\ w \in up /\ worker[w] = Idle
  /\ \E j \in DOMAIN jobs :
       /\ Due(j)
       /\ jobs' = [jobs EXCEPT ![j].status = "processing", ![j].attempts = @ + 1, ![j].lease = TRUE]
       /\ worker' = [worker EXCEPT ![w] =
            [step |-> "claimed", job |-> j, attempt |-> jobs[j].attempts + 1, todo |-> {}]]
  /\ UNCHANGED <<documentVars, mats, up, lock, faults>>

\* knowledge_claim_processing_job: sweep, then take a job that is due, if any.
Claim(w) ==
  /\ w \in up /\ worker[w] = Idle
  /\ versions' = FailVersions(Stranded)
  /\ \/ \E j \in DOMAIN jobs :
          /\ Due(j)
          /\ jobs' = [Swept EXCEPT ![j].status = "processing", ![j].attempts = @ + 1, ![j].lease = TRUE]
          /\ worker' = [worker EXCEPT ![w] =
               [step |-> "claimed", job |-> j, attempt |-> jobs[j].attempts + 1, todo |-> {}]]
     \/ /\ Exhausted # {} /\ \A j \in DOMAIN jobs : ~Due(j)
        /\ jobs' = Swept /\ UNCHANGED worker
  /\ UNCHANGED <<doc, current, generations, mats, up, lock, faults>>

Mine(w) == jobs[worker[w].job]

\* The fence of every stored function a handler calls.
Holds(w) == Mine(w).status = "processing" /\ Mine(w).lease /\ Mine(w).attempts = worker[w].attempt

Goto(w, step) == worker' = [worker EXCEPT ![w].step = step]
Release(w) == worker' = [worker EXCEPT ![w] = Idle]
End(w, status) == jobs' = [jobs EXCEPT ![worker[w].job] = Ended(@, status)]
Again(w) == jobs' = [jobs EXCEPT ![worker[w].job].status = "pending", ![worker[w].job].lease = FALSE]

\* retry_or_dlq and the function: a failure of the last attempt is final.
Final(outcome) == IF outcome = "retry" THEN "failed" ELSE outcome
Retries(w, outcome) == outcome = "retry" /\ Mine(w).attempts < MaxAttempts

\* Mutation: as before migration 104, the version keeps its status.
FinishQuietly(w, outcome) ==
  /\ Release(w) /\ UNCHANGED versions
  /\ IF ~Holds(w) THEN UNCHANGED jobs
     ELSE IF Retries(w, outcome) THEN Again(w) ELSE End(w, Final(outcome))

\* knowledge_finish_processing_job: a stale lease changes nothing.  It follows
\* the call that decides the outcome and reads nothing new, so the two are one
\* step; a lease that ends between them is Abandon.
Finish(w, outcome) ==
  /\ Release(w)
  /\ IF ~Holds(w) THEN UNCHANGED <<jobs, versions>>
     ELSE IF Retries(w, outcome) THEN Again(w) /\ UNCHANGED versions
     ELSE /\ End(w, Final(outcome))
          /\ versions' = IF Final(outcome) = "failed" /\ Mine(w).stage # "purge"
                         THEN FailVersions({Mine(w).version}) ELSE versions

-----------------------------------------------------------------------------
(* The handlers.  A call that is refused, a provider or a database that      *)
(* fails ends the handler; only some refusals are final (PermanentJobError). *)

At(w, stage, step) == worker[w] # Idle /\ worker[w].step = step /\ Mine(w).stage = stage
finishFrame  == <<doc, current, generations, mats>>
handlerFrame == <<up, lock, faults>>

\* The document still wants version v processed.
Wanted(v) == doc \in {"processing", "active"} /\ versions[v] \in {"uploaded", "active"}
Staging(w) == mats[Mine(w).mat].status = "staging"

\* Generations that embedding profiles are resolved for.
Candidates == {g \in DOMAIN generations : generations[g].status \in {"building", "verified"}}
Supported(g) == g \in Candidates \/ generations[g].status = "active"

\* resolve_generation_embedding_profile, then fetch_document_source.
Source(w) ==
  /\ At(w, "parse", "claimed")
  /\ LET resolved == Staging(w) /\ Supported(Mine(w).gen) IN
     IF Holds(w) /\ resolved /\ Wanted(Mine(w).version)
     THEN Goto(w, "parsed") /\ UNCHANGED <<jobs, versions>>
     ELSE Finish(w, IF resolved THEN "retry" ELSE "failed")
  /\ UNCHANGED <<finishFrame, handlerFrame>>

\* knowledge_stage_parse_projection: rows that exist stay.
StageRows(w) ==
  /\ At(w, "parse", "parsed")
  /\ IF Holds(w) /\ Staging(w)
     THEN /\ mats' = [mats EXCEPT ![Mine(w).mat].rows =
               [c \in Chunks |-> IF @[c] = "none" THEN "staging" ELSE @[c]]]
          /\ Goto(w, "staged") /\ UNCHANGED <<jobs, versions>>
     ELSE Finish(w, "failed") /\ UNCHANGED mats
  /\ UNCHANGED <<doc, current, generations, handlerFrame>>

\* No embedding job of the materialization but cancelled ones, and a row without
\* a vector.
Enqueueable(m) ==
  /\ \E c \in Chunks : mats[m].rows[c] = "staging"
  /\ \A i \in DOMAIN jobs : jobs[i].stage = "embedding" /\ jobs[i].mat = m => jobs[i].status = "cancelled"

\* knowledge_complete_parse_and_enqueue_embedding.
CompleteParse(w) ==
  /\ At(w, "parse", "staged")
  /\ IF Holds(w) /\ Staging(w) /\ Enqueueable(Mine(w).mat)
     THEN /\ jobs' = Append([jobs EXCEPT ![worker[w].job] = Ended(@, "succeeded")],
                            Job("embedding", Mine(w).version, Mine(w).gen, Mine(w).mat, Mine(w).replay))
          /\ Release(w) /\ UNCHANGED versions
     ELSE Finish(w, "retry")
  /\ UNCHANGED <<finishFrame, handlerFrame>>

\* Mutation: purged rows take vectors too.
OpenAny(row) == row # "none"

\* A search row that takes a vector.
Open(row) == row \in {"staging", "ready"}

\* fetch_passage_embedding_candidates and the provider.
FetchRows(w) ==
  /\ At(w, "embedding", "claimed")
  /\ IF Holds(w)
     THEN /\ worker' = [worker EXCEPT ![w].step = "embedded",
                          ![w].todo = {c \in Chunks : Open(mats[Mine(w).mat].rows[c])}]
          /\ UNCHANGED <<jobs, versions>>
     ELSE Finish(w, "retry")
  /\ UNCHANGED <<finishFrame, handlerFrame>>

\* knowledge_stage_passage_embedding, one row at a time.
StageVector(w) ==
  /\ At(w, "embedding", "embedded")
  /\ \E c \in worker[w].todo :
       IF Holds(w) /\ Open(mats[Mine(w).mat].rows[c])
       THEN /\ mats' = [mats EXCEPT ![Mine(w).mat].rows[c] = "ready"]
            /\ worker' = [worker EXCEPT ![w].todo = @ \ {c}]
            /\ UNCHANGED <<jobs, versions>>
       ELSE Finish(w, "retry") /\ UNCHANGED mats
  /\ UNCHANGED <<doc, current, generations, handlerFrame>>

\* Mutation: document and version are not looked at again.
PublishableAny(m) == mats[m].status = "staging" /\ \A c \in Chunks : mats[m].rows[c] = "ready"

\* The materialization is complete and its version still wanted.
Publishable(m) ==
  /\ mats[m].status = "staging" /\ \A c \in Chunks : mats[m].rows[c] = "ready"
  /\ Wanted(mats[m].version)

\* Mutation: the version it replaces stays active.
PublishBeside(w) ==
  /\ At(w, "embedding", "embedded") /\ worker[w].todo = {}
  /\ IF Holds(w) /\ Publishable(Mine(w).mat)
     THEN /\ versions' = [versions EXCEPT ![Mine(w).version] = "active"]
          /\ doc' = "active" /\ current' = Mine(w).version
          /\ generations' = [generations EXCEPT ![Mine(w).gen].head = Mine(w).mat]
          /\ mats' = [mats EXCEPT ![Mine(w).mat].status = "published"]
          /\ End(w, "succeeded") /\ Release(w)
     ELSE Finish(w, "retry") /\ UNCHANGED finishFrame
  /\ UNCHANGED handlerFrame

\* knowledge_assert_materialization_search_complete, then
\* knowledge_complete_embedding_and_publish.
Publish(w) ==
  LET m == Mine(w).mat  v == Mine(w).version IN
  /\ At(w, "embedding", "embedded") /\ worker[w].todo = {}
  /\ IF Holds(w) /\ Publishable(m)
     THEN /\ versions' = [u \in DOMAIN versions |->
               IF u = v THEN "active"
               ELSE IF u = current /\ versions[u] = "active" THEN "tombstoned" ELSE versions[u]]
          /\ doc' = "active" /\ current' = v
          /\ generations' = [generations EXCEPT ![Mine(w).gen].head = m]
          /\ mats' = [mats EXCEPT ![m].status = "published"]
          /\ End(w, "succeeded") /\ Release(w)
     ELSE Finish(w, "retry") /\ UNCHANGED finishFrame
  /\ UNCHANGED handlerFrame

\* The materializations a purge job covers.
Covered(job) ==
  {m \in DOMAIN mats :
     mats[m].version = job.version /\ mats[m].gen = job.gen /\ (job.mat = 0 \/ m = job.mat)}
NothingReady(job) == \A m \in Covered(job), c \in Chunks : mats[m].rows[c] # "ready"
Visible(job) == doc = "active" /\ current = job.version /\ generations[job.gen].head # 0

\* mark_purge_invisible, then purge_search_projection.
PurgeRows(w) ==
  /\ At(w, "purge", "claimed")
  /\ IF Holds(w) /\ ~Visible(Mine(w))
     THEN /\ mats' = [m \in DOMAIN mats |->
               IF m \notin Covered(Mine(w)) THEN mats[m]
               ELSE [mats[m] EXCEPT !.rows = [c \in Chunks |-> IF @[c] = "none" THEN "none" ELSE "purged"]]]
          /\ Goto(w, "purged") /\ UNCHANGED <<jobs, versions>>
     ELSE Finish(w, "failed") /\ UNCHANGED mats
  /\ UNCHANGED <<doc, current, generations, handlerFrame>>

\* assert_purge_complete, whose complaint is a database error and so a retry,
\* then the runner's finish.
AssertPurged(w) ==
  /\ At(w, "purge", "purged") /\ Finish(w, IF NothingReady(Mine(w)) THEN "succeeded" ELSE "retry")
  /\ UNCHANGED <<finishFrame, handlerFrame>>

\* A provider, the parser or a statement fails.
HandlerFails(w, outcome) ==
  /\ worker[w] # Idle /\ Finish(w, outcome)
  /\ outcome = "failed" => worker[w].step \in {"claimed", "parsed", "embedded"} /\ Mine(w).stage # "purge"
  /\ UNCHANGED <<finishFrame, handlerFrame>>

\* The heartbeat is refused or fails: the handler is cancelled and the job left
\* to its lease.
Abandon(w) ==
  /\ worker[w] # Idle /\ Release(w)
  /\ UNCHANGED <<documentVars, mats, jobs, handlerFrame>>

-----------------------------------------------------------------------------
(* Leases and processes.                                                     *)

\* The lease runs out, renewed too late or not at all.
Expire(j) ==
  /\ jobs[j].lease /\ jobs' = [jobs EXCEPT ![j].lease = FALSE]
  /\ UNCHANGED <<documentVars, mats, worker, up, lock, faults>>

Start(w) ==
  /\ w \notin up /\ lock = None /\ lock' = w /\ up' = up \union {w}
  /\ UNCHANGED <<documentVars, mats, jobs, worker, faults>>

\* The process dies, or stops because a claim or a finish failed.
Crash(w) ==
  /\ w \in up /\ Fault
  /\ up' = up \ {w} /\ Release(w) /\ lock' = IF lock = w THEN None ELSE lock
  /\ UNCHANGED <<documentVars, mats, jobs>>

\* Postgres ends the lock session; the worker does not notice.
DropLock ==
  /\ lock # None /\ Fault /\ lock' = None
  /\ UNCHANGED <<documentVars, mats, jobs, worker, up>>

-----------------------------------------------------------------------------
HandlerStep(w) ==
  \/ Source(w) \/ StageRows(w) \/ CompleteParse(w)
  \/ FetchRows(w) \/ StageVector(w) \/ Publish(w)
  \/ PurgeRows(w) \/ AssertPurged(w)

Next ==
  \/ CreateDocument \/ CreateVersion \/ Reprocess \/ DeleteDocument \/ DeleteCollection
  \/ \E j \in DOMAIN jobs : Replay(j) \/ Expire(j)
  \/ \E w \in Workers :
       \/ Claim(w) \/ HandlerStep(w) \/ Abandon(w) \/ Start(w) \/ Crash(w)
       \/ \E outcome \in {"retry", "failed"} : HandlerFails(w, outcome)
  \/ DropLock

Spec == Init /\ [][Next]_vars

\* Some worker is running or started again, polls and runs its handlers; the
\* lease of a job nobody runs runs out.
Held(j) == \E w \in Workers : worker[w] # Idle /\ worker[w].job = j
Fairness ==
  /\ \A w \in Workers : WF_vars(Claim(w)) /\ WF_vars(HandlerStep(w)) /\ WF_vars(Start(w))
  /\ WF_vars(\E j \in DOMAIN jobs : ~Held(j) /\ Expire(j))

FairSpec == Spec /\ Fairness

-----------------------------------------------------------------------------
Jobs == [stage : {"parse", "embedding", "purge"}, version : 1..MaxVersions, gen : 0..Len(generations),
         mat : 0..Len(mats), replay : BOOLEAN, status : Live \union {"succeeded", "failed", "cancelled"},
         attempts : 0..MaxAttempts, lease : BOOLEAN]
Claims == [step : {"claimed", "parsed", "staged", "embedded", "purged"},
           job : Nat \ {0}, attempt : 1..MaxAttempts, todo : SUBSET Chunks]

TypeOK ==
  /\ doc \in {"none", "processing", "active", "tombstoned"} /\ current \in 0..Len(versions)
  /\ versions \in Seq({"uploaded", "active", "failed", "tombstoned"})
  /\ generations \in Seq([status : {"building", "verified", "active", "retired", "failed"},
                          source : Nat, head : 0..Len(mats)])
  /\ Cardinality({g \in DOMAIN generations : generations[g].status = "active"}) = 1
  /\ Cardinality(Candidates) <= 1
  /\ mats \in Seq([version : 1..MaxVersions, gen : DOMAIN generations, status : {"staging", "published"},
                   rows : [Chunks -> {"none", "staging", "ready", "purged"}]])
  /\ jobs \in Seq(Jobs) /\ \A j \in DOMAIN jobs : jobs[j].lease => jobs[j].status = "processing"
  /\ worker \in [Workers -> Claims \union {Idle}]
  /\ \A w \in Workers : worker[w] # Idle => w \in up /\ worker[w].job \in DOMAIN jobs
  /\ up \subseteq Workers /\ lock \in up \union {None}
  /\ faults \in 0..MaxFaults

\* What an active document serves is whole: its current version was published
\* with a vector in every row in a generation that is or was active, and whatever
\* the active generation serves of it is so too; no other version is active.
Whole(m) == mats[m].status = "published" /\ \A c \in Chunks : mats[m].rows[c] = "ready"
ServesCurrent ==
  doc = "active" =>
    /\ \E g \in DOMAIN generations :
         generations[g].status \in {"active", "retired"} /\ Served(g) = current
    /\ \A g \in DOMAIN generations : Served(g) = current => Whole(generations[g].head)
    /\ \A v \in DOMAIN versions : versions[v] = "active" <=> v = current

\* A deleted document stays what it was when it was deleted: no worker that was
\* at it and no replay publishes or revives anything of it.
DeletedIsDead ==
  [][doc = "tombstoned" =>
       /\ UNCHANGED <<doc, current, versions>>
       /\ \A g \in DOMAIN generations : generations'[g].head = generations[g].head
       /\ \A m \in DOMAIN mats : mats'[m].status = mats[m].status]_vars

\* A purge that succeeded is final: no row it covers is searchable again.
PurgeIsFinal ==
  \A j \in DOMAIN jobs : jobs[j].stage = "purge" /\ jobs[j].status = "succeeded" => NothingReady(jobs[j])

\* Without an operator's replay, a version waits exactly as long as a job of it is
\* live: it is never stranded, nor failed under a job that still runs.  A version
\* that was published is worked on only for another generation.
VersionFollowsJobs ==
  \A v \in DOMAIN versions :
    LET own  == {j \in DOMAIN jobs : jobs[j].version = v /\ jobs[j].stage # "purge"}
        live == {j \in own : jobs[j].status \in Live}
    IN (\A j \in own : ~jobs[j].replay) =>
         /\ versions[v] = "uploaded" => live # {}
         /\ versions[v] = "failed" => live = {}
         /\ versions[v] \in {"active", "tombstoned"} =>
              \A j \in live : Bound(jobs[j]) => Served(jobs[j].gen) # v
         /\ \A i, j \in live : jobs[i].gen = jobs[j].gen => i = j

\* The queue empties again and again: every job that has a generation ends, also
\* those of workers that died, lost their lease or failed on their last attempt.
JobsSettle == []<>(\A j \in DOMAIN jobs : Bound(jobs[j]) => jobs[j].status \notin Live)
=============================================================================
