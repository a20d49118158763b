----------------------------- MODULE MemoryJobs -----------------------------
(***************************************************************************)
(* What the product learns from finished turns.  Finalizing an answer      *)
(* writes an outbox event and an "extract" job; the lanes of the memory    *)
(* worker lease jobs, ask the model, commit the proposal as a draft and    *)
(* promote the draft to a memory.  A draft left over is wiped by an        *)
(* "expire" job on the same event, a memory a person deletes by a "purge"  *)
(* job on an event of its own (memoryworker/worker.go, migrations          *)
(* 054-057, 069, 072).                                                     *)
(*                                                                         *)
(* The turns state one fact, each proposes at most one candidate for it,   *)
(* in the same words or in others.  A lease token is the job with the      *)
(* number of its claim.  A function of the database is one step, except    *)
(* the promotion, whose transaction checks for conflicts first and takes   *)
(* the lock it inserts under afterwards.  Superseding an older memory by   *)
(* a decision, scenes, personas and embeddings are left out.               *)
(***************************************************************************)
EXTENDS Integers, FiniteSets

CONSTANTS
  Lanes, Turns,
  NoLease,
  ExtractAttempts,  \* max_attempts of an extract job
  LongAttempts,     \* and of the clean-up jobs
  SameText,         \* the candidates of all turns have the same text
  MaxChanges,       \* bound on changes to sources and settings
  MaxFaults         \* bound on lost replies and stopped lanes

ASSUME AttemptsAssumption ==
  /\ ExtractAttempts \in Nat \ {0} /\ LongAttempts \in Nat
  /\ ExtractAttempts <= LongAttempts
ASSUME BoundsAssumption == MaxChanges \in Nat /\ MaxFaults \in Nat

VARIABLES
  job,      \* memory_jobs: status, attempt_count, whether the lease is unexpired
  outbox,   \* memory_outbox: status, lease, attempt_count, max_attempts
  lane,     \* the lanes: their step, the claim they work on, a final error
  draft,    \* the turn's batch and the status of its candidate
  memory,   \* the memory made of it
  overdue,  \* turns whose draft is past its 30 days
  source,   \* what has become of the turn's messages and provider
  learn,    \* the settings of the person
  changes, faults

store == <<job, outbox, draft, memory>>
world == <<overdue, source, learn, changes>>
vars == <<store, world, lane, faults>>

Stages == {"extract", "expire", "purge"}
Jobs   == Stages \X Turns
Events == {"turn", "deleted"} \X Turns
EventOf(j) == <<IF j[1] = "purge" THEN "deleted" ELSE "turn", j[2]>>
MaxAttempts(j) == IF j[1] = "extract" THEN ExtractAttempts ELSE LongAttempts
Leases == Jobs \X (1..LongAttempts)

ASSUME NoLeaseAssumption == NoLease \notin Leases

\* The lease a row of memory_jobs carries.
Lease(j) == IF job[j].status = "processing" THEN <<j, job[j].attempts>> ELSE NoLease

Idle == [step |-> "idle", lease |-> NoLease, terminal |-> FALSE]
JobOf(l) == lane[l].lease[1]
TurnOf(l) == JobOf(l)[2]
AtStep(l, step) == lane[l].step = step
AtStage(l, stage) == AtStep(l, "claimed") /\ JobOf(l)[1] = stage

Init ==
  /\ job = [j \in Jobs |-> [status |-> "none", attempts |-> 0, live |-> FALSE]]
  /\ outbox = [e \in Events |-> [status |-> "none", lease |-> NoLease,
                                 attempts |-> 0, cap |-> LongAttempts]]
  /\ lane = [l \in Lanes |-> Idle]
  /\ draft = [t \in Turns |-> "none"] /\ memory = [t \in Turns |-> "none"]
  /\ source = [t \in Turns |-> "current"] /\ learn = "on" /\ overdue = {}
  /\ changes = 0 /\ faults = 0

(* ------------------------- events and their jobs ----------------------- *)

\* A job is written with its event, or for an event that exists.
Enqueue(j, cap) ==
  /\ job' = [job EXCEPT ![j].status = "pending"]
  /\ outbox' = [outbox EXCEPT
       ![EventOf(j)].status = IF @ = "none" THEN "pending" ELSE @,
       ![EventOf(j)].cap = cap]

\* memory_append_turn_completed_event, in the transaction that finalizes the
\* answer.  A second call for the answer finds the rows and writes nothing.
Capture(t) ==
  /\ job[<<"extract", t>>].status = "none"
  /\ source[t] = "current" /\ learn # "off"
  /\ Enqueue(<<"extract", t>>, ExtractAttempts)
  /\ UNCHANGED <<draft, memory, world, lane, faults>>

\* A person deletes the memory: revision, tombstone, manifest, event and job.
DeleteMemory(t) ==
  /\ memory[t] = "active" /\ memory' = [memory EXCEPT ![t] = "deleted"]
  /\ Enqueue(<<"purge", t>>, LongAttempts)
  /\ UNCHANGED <<draft, world, lane, faults>>

(* --------------------------- claim and settle -------------------------- *)

\* Mutation: nobody buries the job of a lane that died on its last attempt.
SpentNever(j) == FALSE

\* A job whose last claim has run out of time is beyond reclaiming.
Spent(j) == /\ job[j].status = "processing" /\ ~job[j].live
            /\ job[j].attempts >= MaxAttempts(j)

SweptJobs == [j \in Jobs |-> IF Spent(j)
  THEN [job[j] EXCEPT !.status = "dead_letter"] ELSE job[j]]

\* Mutation: its event is forgotten.
SweptOutboxKept == outbox

SweptOutbox == [e \in Events |->
  IF /\ outbox[e].status = "processing"
     /\ \E j \in Jobs : Spent(j) /\ EventOf(j) = e /\ outbox[e].lease = Lease(j)
  THEN [outbox[e] EXCEPT !.status = "dead_letter", !.lease = NoLease] ELSE outbox[e]]

Available(j) == j[1] = "expire" => j[2] \in overdue

\* Mutation: a job is claimed however often that was done before.
ClaimableForever(j) ==
  \/ job[j].status = "pending" /\ Available(j)
  \/ job[j].status = "processing" /\ ~job[j].live

Claimable(j) ==
  /\ job[j].attempts < MaxAttempts(j)
  /\ \/ job[j].status = "pending" /\ Available(j)
     \/ job[j].status = "processing" /\ ~job[j].live

\* memory_worker_claim_job buries the spent jobs and leases one other.
Claim(l) ==
  /\ AtStep(l, "idle")
  /\ \E j \in Jobs :
       LET n == job[j].attempts + 1 e == EventOf(j) IN
       /\ Claimable(j)
       /\ job' = [SweptJobs EXCEPT ![j] =
                   [status |-> "processing", attempts |-> n, live |-> TRUE]]
       /\ outbox' = [SweptOutbox EXCEPT ![e] =
                   [@ EXCEPT !.status = "processing", !.lease = <<j, n>>, !.attempts = n]]
       /\ lane' = [lane EXCEPT ![l] =
                   [step |-> "claimed", lease |-> <<j, n>>, terminal |-> FALSE]]
  /\ UNCHANGED <<draft, memory, world, faults>>

\* Or finds nothing to lease and only buries.
Sweep(l) ==
  /\ AtStep(l, "idle") /\ \A j \in Jobs : ~Claimable(j)
  /\ job' = SweptJobs /\ outbox' = SweptOutbox /\ job' # job
  /\ UNCHANGED <<draft, memory, world, lane, faults>>

\* The lease_* conditions of the worker's functions, on the two rows.
HoldsJob(l) == job[JobOf(l)].live /\ Lease(JobOf(l)) = lane[l].lease
HoldsEvent(l) == LET e == EventOf(JobOf(l)) IN
  outbox[e].status = "processing" /\ outbox[e].lease = lane[l].lease
Holds(l) == HoldsJob(l) /\ HoldsEvent(l)

\* Both rows leave the lease together, or the function raises.
Settle(l, status) ==
  LET j == JobOf(l) IN
  /\ IF Holds(l)
     THEN /\ job' = [job EXCEPT ![j].status = status, ![j].live = FALSE]
          /\ outbox' = [outbox EXCEPT ![EventOf(j)].status = status,
                                      ![EventOf(j)].lease = NoLease]
     ELSE UNCHANGED <<job, outbox>>
  /\ lane' = [lane EXCEPT ![l] = Idle]
  /\ UNCHANGED <<draft, memory, world, faults>>

Complete(l) == AtStep(l, "complete") /\ Settle(l, "completed")

Retry(l) ==
  /\ AtStep(l, "retry")
  /\ Settle(l, IF lane[l].terminal \/ job[JobOf(l)].attempts >= MaxAttempts(JobOf(l))
               THEN "dead_letter" ELSE "pending")

(* ------------------------------ processing ----------------------------- *)

Go(l, step) == lane' = [lane EXCEPT ![l].step = step]
Fail(l, terminal) ==
  lane' = [lane EXCEPT ![l].step = "retry", ![l].terminal = terminal]

\* A committed step whose reply is lost is an error that can be retried.
Reply(l, step) ==
  \/ Go(l, step) /\ UNCHANGED faults
  \/ faults < MaxFaults /\ faults' = faults + 1 /\ Fail(l, FALSE)

\* The hydrate checks of what the job was captured from; the tombstone of a
\* deleted memory names the message it was made of.
Authority(t) ==
  IF source[t] \in {"changed", "deleted"} \/ learn = "off"
     \/ memory[t] \in {"deleted", "purged"} THEN "drifted"
  ELSE IF source[t] = "reprofiled" THEN "reprofiled" ELSE "granted"

\* What the checks at the head of a function say to a lane.
Verdict(l) == IF Holds(l) THEN Authority(TurnOf(l)) ELSE "lost"

Hydrate(l) ==
  /\ AtStage(l, "extract")
  /\ IF Verdict(l) = "granted"
     THEN Go(l, IF draft[TurnOf(l)] = "none" THEN "ask" ELSE "promote")
     ELSE Fail(l, Verdict(l) # "lost")
  /\ UNCHANGED <<store, world, faults>>

\* The provider cannot be built (final), fails, runs into its time limit, or
\* answers what cannot be used, which is final from the third attempt on.
ProviderFails(l) ==
  /\ AtStep(l, "ask")
  /\ \E terminal \in BOOLEAN : Fail(l, terminal)
  /\ UNCHANGED <<store, world, faults>>

\* A tombstone carries the hash of the deleted text and no fact key, so that
\* the same fact in other words is not held back.
Tombstoned == SameText /\ \E t \in Turns : memory[t] \in {"deleted", "purged"}
Active     == \E t \in Turns : memory[t] = "active"

\* What becomes of the answer: no candidate, one that is rejected, one that
\* waits for a person, one that is recorded only, one for promotion.
Proposals ==
  {"empty", "rejected"} \union
  (IF Tombstoned THEN {}
   ELSE IF Active THEN {"pending", "recorded"} ELSE {"pending", "shadow"})

\* The batch, its candidate and the job that will wipe it, in one transaction.
Propose(l) ==
  /\ AtStep(l, "ask")
  /\ LET t == TurnOf(l) IN
     IF Verdict(l) = "granted" /\ draft[t] = "none"
     THEN /\ \E p \in Proposals :
               /\ draft' = [draft EXCEPT ![t] = p]
               /\ IF p = "empty" THEN UNCHANGED <<job, outbox>>
                  ELSE Enqueue(<<"expire", t>>, LongAttempts)
          /\ Reply(l, "promote") /\ UNCHANGED memory
     ELSE /\ Fail(l, Verdict(l) = "drifted")
          /\ UNCHANGED <<store, faults>>
  /\ UNCHANGED world

\* Mutation: the candidate is read without its row lock.
LockedNever(t) == FALSE

\* A promotion holds the row of its candidate to the end of its transaction.
Locked(t) == \E l \in Lanes : AtStep(l, "insert") /\ TurnOf(l) = t

\* The head of memory_worker_promote_capture_candidates: without the setting
\* nothing is promoted; a candidate in conflict, or of a kind a person must
\* see, is left to review.
PromoteCheck(l) ==
  /\ AtStep(l, "promote") /\ ~Locked(TurnOf(l))
  /\ LET t == TurnOf(l) IN
     \/ /\ Verdict(l) # "granted" /\ Fail(l, Verdict(l) # "lost")
        /\ UNCHANGED <<draft, faults>>
     \/ /\ Verdict(l) = "granted" /\ (learn # "on" \/ draft[t] # "shadow")
        /\ Go(l, "complete") /\ UNCHANGED <<draft, faults>>
     \/ /\ Verdict(l) = "granted" /\ learn = "on" /\ draft[t] = "shadow"
        /\ \/ draft' = [draft EXCEPT ![t] = "pending"] /\ Reply(l, "complete")
           \/ /\ ~Tombstoned /\ ~Active
              /\ Go(l, "insert") /\ UNCHANGED <<draft, faults>>
  /\ UNCHANGED <<job, outbox, memory, world>>

\* Mutation: the message is not looked up again.
AcceptableUnseen(t) == t \notin overdue /\ (SameText => ~Active)

\* memory_governance_decide_review serializes on the person's state row, then
\* refuses an overdue draft, a deleted source and text a memory already has;
\* it may refuse a changed one, whose scope has moved.  The message is read
\* without a lock: one deleted after that is deleted after the decision.
Acceptable(t) ==
  /\ t \notin overdue /\ source[t] # "deleted"
  /\ SameText => ~Active

Accept(t) ==
  /\ draft' = [draft EXCEPT ![t] = "accepted"]
  /\ memory' = [memory EXCEPT ![t] = "active"]

PromoteInsert(l) ==
  /\ AtStep(l, "insert")
  /\ \/ /\ Acceptable(TurnOf(l))
        /\ Accept(TurnOf(l)) /\ Reply(l, "complete")
     \/ /\ ~Acceptable(TurnOf(l)) \/ source[TurnOf(l)] = "changed"
        /\ Fail(l, FALSE) /\ UNCHANGED <<draft, memory, faults>>
  /\ UNCHANGED <<job, outbox, world>>

\* Mutation: the wiping takes every draft of the batch.
UndecidedAny == {"shadow", "recorded", "pending", "accepted", "rejected"}

Undecided == {"shadow", "recorded", "pending"}

\* memory_worker_expire_capture_reviews wipes what nobody decided on.
Expire(l) ==
  /\ AtStage(l, "expire") /\ ~Locked(TurnOf(l))
  /\ LET t == TurnOf(l) IN
     IF Holds(l)
     THEN /\ draft' = [draft EXCEPT ![t] =
                                IF @ \in Undecided THEN "expired" ELSE @]
          /\ Reply(l, "complete")
     ELSE Fail(l, FALSE) /\ UNCHANGED <<draft, faults>>
  /\ UNCHANGED <<job, outbox, memory, world>>

\* memory_worker_purge_memory wipes the text of a deleted memory.
Purge(l) ==
  /\ AtStage(l, "purge")
  /\ IF Holds(l)
     THEN memory' = [memory EXCEPT ![TurnOf(l)] = "purged"] /\ Reply(l, "complete")
     ELSE Fail(l, FALSE) /\ UNCHANGED <<memory, faults>>
  /\ UNCHANGED <<job, outbox, draft, world>>

(* ------------------------- the rest of the world ----------------------- *)

LeaseExpires(j) ==
  /\ job[j].status = "processing" /\ job[j].live
  /\ job' = [job EXCEPT ![j].live = FALSE]
  /\ UNCHANGED <<outbox, draft, memory, world, lane, faults>>

\* A lane stops, or cannot reach the database to settle its job; an open
\* transaction is rolled back.  Its lease is left to expire.
Abandon(l) ==
  /\ ~AtStep(l, "idle") /\ faults < MaxFaults /\ faults' = faults + 1
  /\ lane' = [lane EXCEPT ![l] = Idle]
  /\ UNCHANGED <<store, world>>

\* A person decides on a draft that waits for a review.
Decide(t) ==
  /\ draft[t] = "pending" /\ t \notin overdue
  /\ \/ draft' = [draft EXCEPT ![t] = "rejected"] /\ UNCHANGED memory
     \/ Acceptable(t) /\ Accept(t)
  /\ UNCHANGED <<job, outbox, world, lane, faults>>

\* 30 days pass over a draft.
FallDue(t) ==
  /\ job[<<"expire", t>>].status # "none" /\ t \notin overdue
  /\ overdue' = overdue \union {t}
  /\ UNCHANGED <<store, source, learn, changes, lane, faults>>

\* A person deletes or edits the messages of the turn, changes its scope, or
\* changes the provider configuration it was captured with.
Drift(t) ==
  /\ changes < MaxChanges /\ changes' = changes + 1
  /\ source[t] = "current" /\ job[<<"extract", t>>].status # "none"
  /\ \E s \in {"changed", "deleted", "reprofiled"} : source' = [source EXCEPT ![t] = s]
  /\ UNCHANGED <<store, overdue, learn, lane, faults>>

\* Settings: learn; keep capturing but promote nothing; stop.
SetLearn(v) ==
  /\ changes < MaxChanges /\ changes' = changes + 1
  /\ v # learn /\ learn' = v
  /\ UNCHANGED <<store, overdue, source, lane, faults>>

LaneStep(l) ==
  \/ Claim(l) \/ Sweep(l) \/ Hydrate(l) \/ Propose(l) \/ ProviderFails(l)
  \/ PromoteCheck(l) \/ PromoteInsert(l) \/ Expire(l) \/ Purge(l)
  \/ Complete(l) \/ Retry(l)

Next ==
  \/ \E l \in Lanes : LaneStep(l) \/ Abandon(l)
  \/ \E j \in Jobs : LeaseExpires(j)
  \/ \E t \in Turns : Capture(t) \/ DeleteMemory(t) \/ Decide(t) \/ FallDue(t) \/ Drift(t)
  \/ \E v \in {"on", "rollback", "off"} : SetLearn(v)

Spec == Init /\ [][Next]_vars

\* Lanes poll and never stay away for good, leases and drafts run out of time.
FairSpec ==
  /\ Spec
  /\ \A l \in Lanes : WF_vars(LaneStep(l))
  /\ \A j \in Jobs : WF_vars(LeaseExpires(j))
  /\ \A t \in Turns : WF_vars(FallDue(t))

(* ------------------------------ properties ----------------------------- *)

\* Types, with what the CHECK constraints of the two tables say: attempts
\* within their limits, a lease exactly while processing.
TypeOK ==
  /\ job \in [Jobs -> [status: {"none", "pending", "processing", "completed", "dead_letter"},
                        attempts: 0..LongAttempts, live: BOOLEAN]]
  /\ outbox \in [Events -> [status: {"none", "pending", "processing", "completed", "dead_letter"},
                             lease: Leases \union {NoLease},
                             attempts: 0..LongAttempts, cap: 0..LongAttempts]]
  /\ lane \in [Lanes -> [step: {"idle", "claimed", "ask", "promote", "insert", "complete", "retry"},
                          lease: Leases \union {NoLease}, terminal: BOOLEAN]]
  /\ draft \in [Turns -> {"none", "empty", "shadow", "recorded", "pending",
                           "accepted", "rejected", "expired"}]
  /\ memory \in [Turns -> {"none", "active", "deleted", "purged"}]
  /\ source \in [Turns -> {"current", "changed", "deleted", "reprofiled"}]
  /\ learn \in {"on", "rollback", "off"} /\ overdue \subseteq Turns
  /\ changes \in 0..MaxChanges /\ faults \in 0..MaxFaults
  /\ \A j \in Jobs : job[j].attempts <= MaxAttempts(j)
  /\ \A e \in Events : /\ outbox[e].attempts <= outbox[e].cap
                       /\ (outbox[e].lease # NoLease) <=> (outbox[e].status = "processing")

JobsOf(e) == {j \in Jobs : EventOf(j) = e}

\* An event row is never left behind by its jobs, although the extraction and
\* the wiping of a turn share one: it is leased only for a job that is being
\* processed under that lease, waits only while a job waits, and an event
\* with one job has the status of that job.
QueueAgrees ==
  /\ \A e \in Events :
       /\ outbox[e].status = "processing" =>
            \E j \in JobsOf(e) : Lease(j) = outbox[e].lease
       /\ outbox[e].status = "pending" => \E j \in JobsOf(e) : job[j].status = "pending"
  /\ \A t \in Turns : job[<<"purge", t>>].status = outbox[<<"deleted", t>>].status

\* However often a turn is claimed, redone or answered twice, it makes at most
\* one memory, from the candidate that was accepted.
MemoryOfDraft == \A t \in Turns : (memory[t] # "none") <=> (draft[t] = "accepted")

\* What is decided stays decided, an answer that came first stays, and a
\* deleted memory never comes back: a redone job changes none of them.
Final == {"empty", "accepted", "rejected", "expired"}
DecidedIsFinal ==
  [][\A t \in Turns :
       /\ draft[t] \in Final => draft'[t] = draft[t]
       /\ draft'[t] = "none" => draft[t] = "none"
       /\ memory[t] = "deleted" => memory'[t] \in {"deleted", "purged"}
       /\ memory[t] = "purged" => memory'[t] = "purged"]_vars

\* A memory is made only of a message that still exists, also when it goes
\* while the model is asked or while the promotion runs.
SourceExists ==
  [][\A t \in Turns :
       memory[t] = "none" /\ memory'[t] = "active" => source[t] # "deleted"]_vars

\* The queue drains: every job is finished or given up, whatever fails.
Drained == \A j \in Jobs : job[j].status \in {"none", "completed", "dead_letter"}
JobsSettle == []<>Drained

\* The worker promotes a fact only while no memory in use holds it
\* (memoryworker/DESIGN.md: "without tombstone, target, exact, or fact
\* conflict").
PromotedWithoutConflict ==
  [][\A t \in Turns :
       draft[t] = "shadow" /\ draft'[t] = "accepted" => ~Active]_vars
=============================================================================
