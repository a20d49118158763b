# NeoBot: TLA+ models of its protocols

TLA+ modules, TLC configurations and TLAPS proofs for the NeoBot service in
`src/mm-chat`. Paths below are relative to that directory; `chat/` stands for
`backend/internal/chat/`, a bare number for a migration of `backend/migrations`.
`PROJECT.json` maps every definition that models code to its lines and lists
runs, mutants, hazards, findings and theorems.

Modelled: the delivery of a run's frames, the life of a run, the approvals its
tools wait for, the event log and the goal of its turns, the jobs that learn from
finished turns, the jobs that index knowledge documents and the generations of
that index, and the pool of MCP child processes.

## 1. The system

A Next.js frontend talks HTTP and server-sent events to a Go API. Postgres holds
all durable state, and much of the control logic is in stored procedures of
`backend/migrations`. Redis holds flags, wake-ups, rate windows and a session
cache; losing it loses no data. A Go memory worker and a Python RAG worker take
jobs from Postgres. An MCP runner manages child processes and an agent host
runs commands. The single-server deployment runs one API process; some code
(Redis cancellation, admission per process) is written for several.

### Components

| component | state | operations | correct when |
|---|---|---|---|
| run stream: `chat/active_run_stream.go`, `stream_delivery.go`, `frontend/src/services/api/server/chatApi.ts` | ring of encoded frames, `latestSequence`, `droppedThrough`, subscribers; client cursor and attempts | publish, subscribe, resume, close, forget; resume loop | a resumed stream is the exact suffix after its cursor or says what it skipped; the browser's call returns |
| chat runs: `chat/handler.go`, `active_runs.go`, `run_cancellation.go`, `repository_postgres.go` | message row, turn row, registry entry, stream context, Redis flag | admit, stream, finalize, cancel, recover | one run per conversation; one terminal status, told truthfully; a cancel stops the run; a crash leaves nothing open |
| tool approvals: `chat/chat_agent_approvals.go`, migration 100, tool loops | approval row, conversation grants, waiter map, card | request, publish, wait, decide, expire, deny at startup | nothing acts without the user's word; the first decision wins and reaches everyone |
| agent event log: migrations 096, 099, 101, `chat/chat_agent_event_recorder.go` | per-turn sequence, events, open steps | start turn, append, replay, recover | gapless, append-only, nothing after `turn.ended` |
| goals: `chat/chat_agent_goal.go`, `goal_tool_loop.go`, migration 097 | status, revision, rounds started, limit | create, edit, pause, resume, start round, complete, block | bounded rounds; a human decision beats the automatic loop |
| tool loop and scheduler: `chat/web_tool_loop.go`, `chat_tool_scheduler.go` | pending calls, retrieval budget | group parallel reads, run mutations in order | results in call order; the budget is spent once |
| memory outbox and jobs: `backend/internal/memoryworker`, migrations 054, 055 | outbox rows, jobs, leases, attempts | claim, hydrate, propose, retry, dead-letter, complete, delete | each event handled once or dead-lettered; deleted text is never remembered |
| scene, persona, embedding memory | job tables of the same shape | refresh, embed | as above |
| memory recall and governance: `backend/internal/usermemory` | memories, revisions | recall, edit, export, delete | a timeout yields an answer without memory |
| RAG ingestion: `rag/src/mm_chat_rag` | jobs, leases, dead letters, projections | claim, heartbeat, finish, retry, replay | a lost lease changes nothing; replay is idempotent |
| RAG index generations: migrations 028, 031–033, 044, 046 | generation status, head revision, verification | begin, verify, promote, abandon, roll back | one active generation, promoted only as verified |
| knowledge and consent: `backend/internal/knowledge` | documents, versions, consents | upload, reprocess, delete, expire consent | nothing is parsed without consent in force |
| MCP runner: `backend/internal/mcprunner/manager.go` | session map, use counts, workdirs | acquire, release, invalidate, reap, close | a call never runs in a closed instance; the pool keeps its limit |
| teams and invitation mail: `backend/internal/teams` | invitations, mail outbox, lease | invite, accept, revoke, send | at least one mail per live invitation, none after revocation is seen |
| sessions and recovery: `backend/internal/auth` | sessions, recovery tokens, cache | log in, resolve, revoke | a revoked session is refused at once |
| rate limits: `backend/internal/redisstate`, `ratelimit` | counter per window | allow | at most the limit per window |
| voice, image, code jobs, files, storage | artifacts, cache entries, audit rows | request, store, fetch | the row never names a missing object |
| skills, resources, MCP client | installations, revisions | install, configure, activate | an installation is applied whole |
| provider and runtime configuration | settings, secrets, revisions | read, replace | a stale edit is refused |
| web search, agents, host workspace, agent host | none between requests | one request each | – |
| memory evaluation and authoring | datasets | offline commands | – |
| browser application | stores | render | – |

### How they interact

* `POST stream` reserves the conversation in the process, creates the assistant
  row and the turn, attaches a stream context and calls the provider. Frames go
  to the ring, and from there to the primary socket and to resumed connections.
* The handler's own context is `context.WithoutCancel(r.Context())`
  (`handler.go:1610`): a browser that goes away never ends a run, and delivery
  never reports a write error. Only a cancel request, the stream deadline of
  runs with MCP or local Skills, or a failing store ends a run early.
* `POST cancel` writes the row, then cancels the registry entry, then sets a
  Redis flag. The serving process polls the flag.
* A tool call that needs a person's consent inserts an approval row, registers a
  waiter, publishes a card and waits. The decision endpoint writes the row and
  resolves the waiter; the timer and the end of the run decide it too.
* Completed messages leave outbox rows, from which the memory worker makes jobs.
* At startup, before serving, the API denies pending approvals and closes the
  turns of dead runs (`cmd/api/main.go:205-243`).

### What is hard to test

Two-transaction ends (message row, then turn); commits whose reply is lost;
cancels that race completion or come before the run is attached; frames evicted
between a disconnect and the resume; slow subscribers; decisions by two tabs, a
timer and a cancelled run at once; a restart between any two steps; leases that
expire during a provider call. `PROJECT.json` lists each at its line, under
`hazards`, with the property that covers it or the module that will.

## 2. Modules

| module | models | checked by | proofs |
|---|---|---|---|
| `RunStream` | one run's ring, its resume handlers and the browser | `MCRunStream` | `RunStream_proofs` |
| `RunDelivery` | what the three promise together: an ordered feed | refined by `RunStream` | `RunDelivery_proofs` |
| `ChatRun` | runs, API processes, cancel requests, recovery | `MCChatRun` | `ChatRun_proofs` |
| `Approvals` | approval rows, waiters, tool calls, tabs, restart | `MCApprovals` | `Approvals_proofs` |
| `AgentGoals` | the goal row, the logs of its turns, tool loops, recovery | `MCAgentGoals` | `AgentGoals_proofs` |
| `MemoryJobs` | outbox, jobs and lanes of the memory worker, reviews | `MCMemoryJobs` | `MemoryJobs_proofs` |
| `RagJobs` | a document, its versions and materializations, RAG jobs and workers | `MCRagJobs` | `RagJobs_proofs` |
| `RagGenerations` | extends `RagJobs` with the operator's index generations | `MCRagJobs` | `RagJobs_proofs` |
| `RunnerPool` | requests, child processes, reaper, shutdown of the MCP runner | `MCRunnerPool` | `RunnerPool_proofs` |

The modules meet at narrow interfaces and are not composed: `RunStream` starts
when a run is attached and sees only that the row became final (`Persist`);
`ChatRun` abstracts delivery to the terminal frame that was sent, and the log of
a turn to its status; `AgentGoals` has that log and sees a run only as a handler
that ends it; `Approvals` sees its run only as "cancelled or out of time"
(`EndRun`), which `ChatRun` decides; `MemoryJobs` starts from the outbox event
that a finished answer writes.

Operators just before an action, such as `FinishQuietly` before `Finish`, are
faulty variants of it: a plausible bug. Each checked property is violated by one
of them (`mutants` in `PROJECT.json`), so none of them holds by shape alone.

### RunStream

`frames`, `size`, `latest`, `droppedThrough`, `closed` are the fields of
`activeRunStream`; `subscribers` is its channel map; `listed` says whether the
registry still finds the stream. A frame is its sequence number and its encoded
size. `replay` and `queue` are the subscription's `Replay` and `Updates`, sets
that are read from the smallest number, because frames are published in
increasing order. `published`, `written`, `seen` and `noticed` are histories.

| action | code |
|---|---|
| `Publish` | `publishFrame`: retain, evict by count and bytes, broadcast, drop a slow subscriber; the same frame goes to the primary socket |
| `Finish`, `Forget` | `close` and the 30-second retention of the registry |
| `Resume` | the browser's next attempt meets `resumeRunEvents` and `subscribe` |
| `WriteGap`, `WriteReplay`, `WriteUpdate`, `Return` | the resume handler's writes, in its order, and its deferred unsubscribe |
| `ServeAbandoned`, `ConnLost`, `PrimaryLost` | connections lost before either side notices |
| `GiveUp`, `Recover` | the client's bounded loop and its final read of the message |

### ChatRun

`msg` and `turn` are Postgres rows, `flags` the Redis keys; the rest is process
memory. `pc` is the handler's position, one label per database call or context
check. Each database call ends *done*, *refused* (error, nothing written) or
*unanswered* (error, yet committed); the last two spend one of `MaxFaults`.

| actions | code |
|---|---|
| `Reserve`, `Reject` | `activeRuns.reserve`, 409 |
| `CreateMessage`, `StartTurn`, `Inject`, `Attach`, `FailUntracked` | the run up to its stream context |
| `ProviderStarts` … `PersistFails`, `Complete` | the provider's outcomes: refused, failed, timed out, stopped, not stored, completed |
| `FinalizeTracked`, `FinishTurn`, `Respond`, `DeferredFinish`, `Release` | the final row, the recorder's `finish`, the terminal frame, the deferred steps |
| `ImageDone`, `ImageFails`, `FinalizeImage` | `streamImageGeneration`, which has no turn |
| `Poll` | the watch of the Redis flag |
| `CancelCommit`, `CancelSignal`, `CancelMark` | the cancel request: row, registry, Redis, in that order |
| `Crash`, `Restart`, `RecoverTurn`, `Serve` | a process dies; startup recovery before serving |

### Approvals

`decision`, `grants` and `deleted` are Postgres; `waiters` and `channel` are the
waiter map; `pc` is the tool call; `req` is a tab's decision request. `chosen`
records the consent a user gave in time and exists only for `ApprovedOnly`.

| actions | code |
|---|---|
| `Install`, `Create`, `Register`, `Publish`, `PublishFails` | row, waiter and card, in the order of `local_skill_tool_loop.go`; an install the message asked for runs its first phase without a card (`resource_tool.go`) |
| `Receive`, `Timeout`, `Abandon` | the three arms of the wait; any ready arm may win |
| `Act`, `Refrain` | the tool takes effect or not; a configuration handoff asks a second time under the same execution id |
| `Choose`, `Commit`, `Resolve` | the tab stamps its request, the transaction decides the row, the handler resolves the waiter |
| `EndRun`, `Elapse`, `Delete`, `Crash`, `Restart` | run cancelled, five minutes pass, conversation deleted, process restarted with the startup denial |

Abstractions: each call is in its own turn, because execution ids are unique
within a run (the handoff, which reuses one, is modelled); calls of one
conversation are serial; the revision comparison is left out, since a pending
row has revision 1 and leaves that revision exactly when it is decided; one API
process, as deployed.

### RunDelivery

Two variables of the run (`published`, `terminal`) and the reader's cursor, the
frames it saw, those a notice admitted to be lost, and its outcome. A reader
takes the next frame, is told of a loss that reaches no further than what is
published, or stops with the persisted message or a failure; nothing else.
`RunStream` shows with `Feed == INSTANCE RunDelivery WITH ...` that ring,
connections, subscriptions and the browser's loop implement it.

### AgentGoals

`goal`, `status` and `log` are Postgres; `loop`, `current`, `armed`,
`directHuman` and `currentRound` belong to `chatAgentGoalToolRuntime`, whose
goroutine may outlive the `handler`. The model (the AI) calls any goal tool with
the id and revision of the row at any step; refused calls change nothing.

| actions | code |
|---|---|
| `StartTurn` | `chat_agent_start_turn`, the runtime and its loop |
| `GetGoal`, `CreateGoal`, `UpdateGoal`, `CancelGoal` | the goal tools and the statements of 097: expected revision, phase, row and event in one transaction |
| `NextRound`, `BlockAtLimit`, `LoopEnds` | `beginNextRound` between two steps; the limit, with its tool-free wrap-up |
| `FinishTurn` | the recorder's `finish`, done, refused or unanswered, and its retry |
| `Crash`, `RecoverTurn`, `Serve` | a process dies; the starting one ends every turn it found running, also those another process serves |

### MemoryJobs

`job` and `outbox` are the two queue tables, `draft` a turn's batch with its
candidate, `memory` what was made of it; `source`, `learn` and `overdue` change
under the worker. A lease token is the job with the number of its claim.

| actions | code |
|---|---|
| `Capture`, `DeleteMemory` | the events that start an extraction or a wiping (055, 057) |
| `Claim`, `Sweep` | `memory_worker_claim_job`: sweep both tables, then lease job and event |
| `Hydrate`, `ProviderFails`, `Propose`, `PromoteCheck`, `PromoteInsert` | `Worker.process`, one step per transaction; the promotion checks before it locks |
| `Expire`, `Purge`, `Complete`, `Retry` | the clean-up jobs and the two ends of a claim |
| `LeaseExpires`, `Abandon` | a clock; a lane that stops or loses a reply |
| `Decide`, `FallDue`, `Drift`, `SetLearn` | the person reviews, a draft turns 30 days old, messages, provider or settings change |

### RagJobs

`doc`, `current` and `versions` are the document's rows, `generations` the index
generations with the document's projection head in each, `mats` its
materializations with their search rows, `jobs` the job table; `worker` is a
Python worker's handler, one step per stored function it calls. A job and a
materialization belong to a generation; the API always works for the active one.

| actions | code |
|---|---|
| `CreateDocument`, `CreateVersion`, `Reprocess`, `DeleteDocument`, `DeleteCollection` | `backend/internal/knowledge`, one transaction each |
| `Replay` | `knowledge_replay_processing_job` by an operator |
| `Claim` | 104: sweep exhausted jobs and their versions, lease what is due |
| `Source`, `StageRows`, `CompleteParse` | the parse handler |
| `FetchRows`, `StageVector`, `Publish` | the embedding handler, row by row |
| `PurgeRows`, `AssertPurged` | the purge handler |
| `HandlerFails`, `Abandon`, `Expire` | a failing call, a refused heartbeat, a lease that runs out |
| `Start`, `Crash`, `DropLock` | one worker is admitted by an advisory lock; a process dies; the lock's session ends unnoticed |

Abstractions: one document; consent, governance and collection revisions stay in
force; the document's `processing` version status is
never written by this code and is left out; the replay of a purge job is left
out because its insert violates the purge fence index (006, line 364).

### RagGenerations

The same variables and every action of `RagJobs`, and those of the operator,
each one transaction under the lock of the corpus head.

| actions | code |
|---|---|
| `Begin` | a candidate with a materialization and a parse job of the current version (049) |
| `Verify` | coverage, last jobs, heads and rows of the candidate, as they are now (049) |
| `Cutover` | `Promote`, which verifies again (032, 044), or `Rollback` to the generation the active one was built beside (049) |
| `CutoverUnderApi` | a cutover that commits while an API statement waits for the head's lock (039; section 5) |
| `AbandonCandidate` | a verified candidate is marked failed (032, 046) |

Abstractions: the corpus is the one document, so coverage is whether the
candidate serves it; the manifest hash is a function of the materializations
that `Verifiable` looks at; the head's revision, which every command compares, is
left out: a command that finds it changed is refused, and tried again on the new
state.

### RunnerPool

`mutex` is `Manager.mu`, `pool` its session map, `session` every process ever
made with its users and its closer, `workdir` the directory of an instance,
`runner` the runner's own process. An error of `os.RemoveAll` is ignored by the
code, so a directory that is removed may stay (`Removed`).

| actions | code |
|---|---|
| `Acquire`, `MakeRoom`, `Prepare`, `Connect` | `acquire` and `startLocked`, the mutex held from one step to the next |
| `Answer`, `Fails`, `Release`, `Invalidate`, `Forced` | a request's call and the two ways it gives the process back |
| `Reap` | the reaper takes aged and idle processes out of the map |
| `ReaperCloses`, `MainCloses`, `Exit` | `Manager.Close`, called by the reaper's goroutine and by `main` on its way out; the second caller returns at once, and the runner ends with `main` (`cmd/mcp-runner/main.go`) |
| `Kill`, `Remove` | whoever took a process out ends the child, then removes the directory |
| `Age`, `Dies` | the lifetime; the child's own end |

## 3. Runs

| run | question | bounds |
|---|---|---|
| `run_stream` | is a frame ever lost silently, does the browser's call return, is it the feed of `RunDelivery`? | 2 connections, sizes 1, 2, 4 against a ring of 2 frames or 3 bytes, queue 1, 1 subscriber, 2 attempts, 3 sequence numbers with holes |
| `chat_run` | do rows, turns and terminal frames agree? | 1 process, 2 text runs in their own conversations, 1 fault that may have committed, 1 crash |
| `chat_run_processes` | admission and cancellation across processes | 2 processes, a text run with a deadline and an image run in one conversation, no fault, Redis configured |
| `approvals` | one decision, told to everyone, and nothing without consent | either 1 explicit install with a configuration card, 2 tabs, 1 fault, 1 crash; or 2 grantable calls of one tool in one conversation, 1 tab |
| `agent_goals` | who may start a round, change a goal, write to a log? | 2 turns in 2 processes, 2 goals, limit 2, revisions up to 3, 1 fault, 1 crash |
| `memory_jobs` | does the queue settle, with one memory per fact? | 2 lanes, 1 turn, 2 attempts, 1 change of source or settings, 1 fault |
| `rag_jobs` | is what is served whole, what is deleted gone, and does a cutover lose an answer? | 2 workers, 2 versions, 2 materializations per generation, of 1 chunk, 2 attempts, 1 replay, rebuild, crash or dropped lock |
| `runner_pool` | is a child forgotten or taken from its user? | 2 requests, 2 instances, room for 1 process, 2 starts |
| `image_run_owner`, `approvals_handoff`, `memory_conflict`, `runner_shutdown` | four statements of the docs, each violated (section 5) | the smallest instance that shows it |

Why the bounds are enough to be interesting. In `run_stream` every retention
case happens: eviction by count, by bytes, a frame larger than the ring, a hole
left by an oversize frame, a full queue, a full subscriber table, two
overlapping connections of which one is abandoned. In the chat runs one fault is
the most the two-transaction design claims to survive (two break it, see the
observations in section 5), and one crash at every program point covers startup
recovery; a second run in another process or conversation is what admission,
cancellation and the registry can confuse. In the approvals two tabs are needed
for conflicting decisions and two calls for a grant; `ScenarioSpec` explores the
two families side by side, because their product adds no interaction a
serial conversation could have. Two turns are needed for a goal that another turn
or a recovery changes under a loop. Two lanes, or two workers, and two attempts
are needed for a lease that is lost, taken over and exhausted; one turn, or one
document, is what they compete for. With one rebuild and two versions a
candidate is overtaken by a replacement before, between and after verification
and cutover, catches up by a reprocess, and is rolled back or refused. Room for one process makes every acquisition
of the other instance an eviction. The thinnest
instance is that of `rag_jobs`, where a rebuild, a crash, a replay and a dropped
lock share one bound: its safety properties are proved for every bound, and
`JobsSettle` is known for this instance only. The mutants confirm that these instances are
large enough to see the bugs they stand for.

What the properties say:

* `NoSilentSkip`: a resumed connection without a gap notice gets the exact
  suffix. `ClientEnds`. `ImplementsFeed`: every step is one of `RunDelivery`;
  with the theorems about it, whatever the browser did not see up to its cursor
  a notice told it, the cursor never goes back, and a notice never claims what is
  still to come.
* `CancelTruth`, `CompletedTruth`: whoever is told "cancelled" or "completed"
  was told the truth, and it stays true. `CancelledIsFinal`, `TerminalIsFinal`
  (text runs): no race undoes a terminal status. `TurnAgrees`: the event log
  never contradicts the row. `NoOrphanTurn`: after recovery nothing is open.
  `OneRunPerConversation`, per process. `CancelStops`.
* `ApprovedOnly`: nothing takes effect without consent given in time.
  `FirstDecisionWins`, `OneAnswer`, `AnswerDelivered`: one decision per card;
  tabs, waiter and call all learn that one. `CallEnds`.
* `RoundsOwned`: a round belongs to the turn whose person created, resumed or
  edited the goal last. `LogSealed`: a log starts once, ends once and takes
  nothing after its end. `GoalHistory`: the logs together count revisions and
  rounds without a gap and up to the limit. `ConclusionFinal`: a loop that
  concluded touches no goal again. `PersonDecides`: a loop that works by itself
  takes no decision of a person's.
* `QueueAgrees`: job and event row tell the same, although two kinds of job share
  an event. `MemoryOfDraft`, `DecidedIsFinal`: one memory per accepted candidate,
  and no redone job undoes a decision. `SourceExists`: nothing is learnt from a
  deleted message. `JobsSettle`: the queue drains.
* `ServesCurrent`: an active document has one active version, published whole in a
  generation that serves or served; whatever a generation serves of it is whole.
  `CutoverServes`: the generation that becomes active, by cutover or rollback,
  serves that version. `DeletedIsDead`, `PurgeIsFinal`: no late worker and no
  replay revives a deleted document or a purged row. `VersionFollowsJobs`:
  without replays, a version waits exactly while a job works for it, one in each
  generation. `JobsSettle`, of the jobs that have a generation (section 5).
* `NoForgottenChild`, `NotIdleInUse`, `DirectoryHandedOver`: a running child is
  known to somebody, not taken from its user as idle, and its directory is free
  of its predecessor's removal within an acquisition. `CallReturns`, unless the
  runner ends first. `ShutdownSeals`: once the manager is closed nothing is in the
  map and no acquisition that could add to it is under way; a child that outlives
  the runner is one whose closer `main` does not wait for.

Type invariants: every module's `TypeOK` is proved for every instance.
`RunnerPool`'s also bounds the pool (`WithinLimit`), which `Manager.Health` tests.

Deadlock is checked in `run_stream`. The other specifications stop where the
system does (all runs, calls or jobs have ended and the bounds on faults, changes
and replays are spent), so their configurations turn it off.

### Fairness

Weak fairness on steps the runtime or a polling loop must take once they can:
handlers, the cancel request, the watch, startup recovery, the resume loop, the
tool call, its five-minute timer, the restart of a dead process; the lanes of the
memory worker and the RAG workers, which poll; leases and drafts, which run out
of time. Strong fairness only in `RunnerPool`, for the steps that wait for the
mutex: Go hands a mutex over to a goroutine that has waited for a millisecond.
All of it ends with the runner's process: nothing obliges a goroutine to finish
closing a process before `main` returns.
A provider whose context has ended returns; one whose context is live may take
for ever, so `CancelStops` cannot lean on it. Nothing obliges a connection to
break, a user to answer, a fault or a crash to happen. `CancelStops` assumes
Redis configured and answering: the poll is the only path when the cancel arrives
before the attach or in another process. `RagJobs` assumes that a lease whose
job nobody runs runs out, and that a worker is started again.

## 4. Proofs

TLAPS proves the following for every value of the constants, from the named
assumptions on them (`ServersAssumption`, `RunsAssumption`, `BoundsAssumption`
and their like, next to the CONSTANTS they are about). They say that the bounds are
numbers, that a placeholder is no member of the set it stands beside, and that
what is counted is finite (`Conns` of `RunStream`, `Calls` of `RunnerPool`). Two
theorems of `ChatRun_proofs` have a hypothesis of their own, named below.

An invariant is proved as: it holds initially, every action preserves it (one
step per action, one below it per conjunct that the action disturbs), it implies
the property. An action property is proved of one step from a state that
satisfies the inductive invariant.

* `RunDelivery_proofs`: `FeedIsComplete`, `FeedGoesForward`, for a run of every
  length. `FeedInv` ties what was seen and noticed to the cursor, and the cursor of a
  completed reader to the last frame.
* `RunStream_proofs`: `TypeCorrect`, `DeliveryCorrect`, `SuffixDelivered`.
  `NoSilentSkip` speaks of what was written; it is not inductive, because what a
  connection will write depends on what the ring kept when it subscribed.
  `DeliveryInv` adds that: `RingInv` says which frames the ring may miss,
  `ConnInv` what is still in the pipe of each connection. One lemma per action
  that moves frames; every other action leaves the two alone.
  `FeedImplemented` is the refinement of `RunDelivery`: on top of `DeliveryInv` it
  needs `ClientInv`, where the browser stands: the notice it is about to read starts
  at its cursor and ends before what is still to come. Each action is then a step
  of the feed or a stutter. `BrowserLosesNothing` and
  `BrowserGoesForward` carry the feed's promises over to the browser.
* `ChatRun_proofs`: `TypeCorrect`, `CancellationFinal`, `CancellationTrue`,
  `CompletionTrue`, `ExclusiveRun`, `OrphansRecovered`, `TerminalFinal`,
  `TurnsAgree`, `MessageBeforeTurn`. `RowsKept` is the one lemma about every
  step that the action properties need; `Told` and `CancelInv` relate what
  was acknowledged to the row, `CompletedInv` the same for completion, and
  `RegistryInv` the registry to the handlers' positions. `HostInv` says whose turn
  an open one is: its handler's, or that of a process which still has to recover.
  `TerminalFinal` supposes one API process (`OneProcess`): with two, one
  that starts recovers turns that the other still works on, and the row is written
  twice. `OpenRow` then says that a handler that has not ended its answer finds the
  row open or cancelled.
  `TurnsAgree` supposes that at most one call fails (`OneFault`):
  `TurnInv` says that a handler which preset its turn's status has spent that
  call. With two it is false (section 5). `MessageBeforeTurn` says, under the same
  hypothesis, that the documented order, message before turn, holds for every
  number of runs, processes and crashes.
* `Approvals_proofs`: `TypeCorrect`, `FirstDecision`, `OneAnswerForAll`,
  `ActsOnTheUsersWord`, `AnswersArrive`, `ExplicitInstallsWait`. `TypeInv` follows each call's position; `WordInv` carries
  the user's word from the tab through the row and the channel to the tool.
  `DeliveryInv` says that no tab sees a card before its call listens, and that
  whoever stops listening has decided the row or read it decided.
  `ExplicitInstallsWait` says how far the finding `MCApprovalsHandoff` goes: where
  every install that needs a configuration was asked for in the user's message
  (`Handoff = Explicit`) and no terminal call has the installer's tool name
  (`ToolsApart`; only terminal calls can leave a grant), `ConfigurationAwaited`
  holds. `ConfigInv` follows such an install from its first phase, which leaves no
  row, to the one card it waits on.
* `AgentGoals_proofs`: `GoalsTypeCorrect`, `LogsSealed`, `ArmedByItself`,
  `RoundsAreOwned`, `ConclusionsAreFinal`, `ThePersonDecides`,
  `HistoryIsComplete`. The inductive
  invariant is `TypeOK` with `RowInv` (what the goal row's columns say of each
  other), `CurrentInv` (a loop's copy is an earlier state of the row), `LogIds` and
  `LoopLog` (what a turn's log tells about its loop). `Steps` abstracts the many
  actions to what they do to the row and the
  logs, so that the action properties are proved on it once. `GoalHistory` counts
  events over all logs: `HistoryStep` says what one statement appends, and
  `History(id)` that the events of goal `id` are finitely many, numbered without
  gap from one, and that the row holds the last numbers.
* `MemoryJobs_proofs`: `JobsCorrect`, `TypeCorrect`, `QueuesAgree`, `OneMemory`,
  `DecisionsStand`, `NothingOfDeleted`. `JobsInv` is `JobsTypes` with `QueueInv`
  (what an event's row says of its two jobs, and the attempts they have left), `DraftInv` (a
  candidate, its expiry, its decision and its memory) and `LaneInv` (what a lane
  that holds a lease knows is still so). `CandidateMoves` is all that a step may do to
  a turn's candidate.
* `RunnerPool_proofs`: `PoolCorrect`, `TypeCorrect`, `ChildrenAccounted`,
  `LimitHolds`, `UsedIsNotIdle`, `DirectoryHandover`, `ShutdownIsFinal`. `PoolIInv` gives each process one owner
  (the registry, the request that starts it or the closer that took it out) and
  makes the count of its users exact, which is what `NotIdleInUse` needs and
  no property says. `LimitHolds` adds `LimitInv`: a request that has made room
  still has it when it registers its process, because it holds the mutex and
  everybody else only takes processes out of the map. `ShutdownIsFinal` adds
  `SealInv`: whoever holds the mutex found the manager open, and the runner is gone
  only after `main` has killed what it took out itself.

* `RagJobs_proofs`, about `RebuildSpec`, whose steps are those of `RagJobs` and
  the operator's: `RagInvariant`, `TypeCorrect`, `DocumentServed`, `PurgeLasts`,
  `VersionsFollow`, `DeletionLasts`, `CutoverKeepsAnswers`. `Kinds` sorts the steps by
  what they do, and one lemma for each table (`DocMoves`, `GensMoves`, `MatsMoves`,
  `JobsMoves`, `WorkersMoves`) says all that a step may do to its rows; the parts
  of `RagInv` follow from these five. `ServesCurrent` needs two of them that no
  property says: a candidate is only ever built for a version that has been active
  (`MatInv`), so that a publication into it never moves the document to a version
  that the active generation lacks; and a head is a published materialization of its
  generation (`HeadInv`). `PurgeIsFinal` needs that a parse which is past its source
  has lost its job once the document is deleted (`ClaimInv`): its lease alone keeps
  it from putting rows back. `VersionFollowsJobs` is strengthened to `FollowInv`: a
  waiting version has exactly one live job. With two, a sweep of both would leave
  it waiting for none.

Every safety and action property that a passing run checks is proved. Only model-checked: the
liveness properties, and whatever needs ENABLED, which are beyond this prover.

## 5. Findings

Four runs violate a statement of the repository. `PROJECT.json` quotes it.

* `image_run_owner`: `streamImageGeneration` finalizes with
  `context.Background()` (`handler.go:3921`), hence as the development user;
  for any other user the row stays `streaming`, and an image run has no turn to
  recover it. The failure path at `handler.go:1956` (the turn cannot be started)
  finalizes with the same context and leaves the same row behind; `FailUntracked`
  models it.
* `approvals_handoff`: the configuration card of an install the agent proposed
  is never shown, because its request returns the row the install approval
  already allowed (`resource_tool.go:699`, migration 100 line 147).
* `memory_conflict`: a promotion looks for memories of the same fact before it
  takes the lock it inserts under (069, line 249), so two lanes, or a lane and a
  person, make two memories of one fact in different words.
* `runner_shutdown`: on a signal the reaper's goroutine calls `Manager.Close`;
  the deferred `Close` of `run` (`cmd/mcp-runner/main.go:56`) finds the manager
  closed, returns at once, and the runner ends while children are still to be
  killed and directories to be removed. `internal/mcprunner/DESIGN.md:45-46`
  promises both. In the container of `compose.single-server.yml` the children end
  with the container and the directories are on a tmpfs, which confines the effect.
  `ShutdownSeals` states, and `ShutdownIsFinal` proves, the part that holds.

Observations made while modelling, without a run of their own:

* Chat. Two failing calls end the turn while its message is still streaming,
  because the turn's status was preset before the row was finalized
  (`handler.go:2304`), and recovery skips a turn that has ended:
  `docs/contracts/chat-stream-api.md:173-176` puts the message first. TLC finds
  `TurnAfterMessage` violated once `MaxFaults` is 2. `message.cancelled` is sent
  without looking at what the finalization returned (`handler.go:3514-3530`);
  `CancelTruth` leans on the comment at `web_tool_loop.go:1358`, that a tool
  reports itself cancelled only when its context has ended, which `Stop` has as
  its guard. A reasoning or narration event that cannot be stored makes the message
  `cancelled` although nobody cancelled (`handler.go:2143`;
  `docs/contracts/chat-stream-api.md:259`). A card that cannot be published
  leaves its row pending until the next start (`PublishFails`), although
  `docs/contracts/chat-tool-loop.md:608` lets pending rows expire after five
  minutes. The counter of blocked attempts is not reset when a turn takes up
  another goal (`docs/contracts/chat-tool-loop.md:340`).
* MCP runner. The reaper and `invalidate` close a session after they released the
  mutex (`manager.go:485`, `:468`), so its directory can be removed under a
  successor; the comment at `manager.go:236` guards the replacement only, which
  is what `DirectoryHandedOver` states.
* Memory. Deleting a memory tombstones its text, not its fact, so the fact in
  other words is learnt again (`internal/memoryworker/DESIGN.md:70`; 055:898,
  057:571). The comment at `extraction_tool_round.go:227` gives
  protocol errors a budget of their own; the code counts every attempt of the job.
* RAG. The purge of a deleted document covers the materialization of its head;
  rows of an earlier, failed one survive it, and the replay of an embedding job
  can still give them vectors (nothing serves them). Since 104 a replayed parse
  or embedding job of a failed version is refused until it is exhausted, unless a
  reprocess reopened the version; `rag/README.md:378-388` documents replay as the
  recovery. `knowledge_finish_processing_job` fails a version without asking for
  other live jobs, as the claim does, so a replayed old job can fail the version
  under a healthy reprocess; two jobs of a version that exhaust in one claim each
  see the other as live and leave it `uploaded`, which blocks reprocessing. All
  three need a replay: `VersionFollowsJobs` is about versions without one.
* RAG generations. An API statement that waits for the head while a cutover
  commits (039, lines 81-92 and 200-217) re-reads the new head row but keeps the
  old generation's row of its snapshot, so the join is empty and the function
  answers "no active generation": the job is `legacy_projection_unbound`, which no
  claim takes (104, line 107), although
  `docs/tracking/g7-rag-citation-process.md:597-598` keeps that for the time before
  the first generation. An upload or reprocess then waits for ever and blocks the
  next one; of a deletion the first version's purge job is lost that way, the others
  are bound to the new generation. `CutoverUnderApi` models it. A replacement
  that is in work at a cutover publishes into the retired generation: the document
  is active and unsearchable until somebody reprocesses it, and a rollback is
  refused once the retired generation is behind. A candidate whose corpus changed
  while it was `building` can neither be verified nor abandoned (032 and 046 ask
  for `verified`), and blocks every later rebuild. The purge of a deleted document covers the active generation only.

## 6. Not modelled

* In the modelled parts: the content of frames, prompts, tools, cards, memories
  and chunks; deletion of a conversation while a run answers in it;
  idempotency-key conflicts; refusals of a cancel request that changes nothing;
  Redis errors when a flag is cleared; a crash in a deployment of two processes
  that serve runs, where the starting process would recover the live turns of
  the other one (`AgentGoals` has that case for the log). In `MemoryJobs`,
  the supersession of an older memory and the heartbeat. In `RagJobs`, the
  outbox consumer, the purge of a collection and revoked consent.
* Scene, persona and embedding memory: the lease protocol of `MemoryJobs` on
  other tables; what is their own is data.
* Tool loop and scheduler: serial inside one run except for parallel reads; the
  serial order is used by `Approvals`, the round boundaries by `AgentGoals`.
* The other components of section 1 without a module are request-scoped I/O, or
  configuration and offline tools; `PROJECT.json` gives the reason for each.

## 7. Plan

* The outbox consumer and the purge of a collection in `RagJobs`; consent that is
  revoked or expires under a job.
* `ChatRun`: deletion of a conversation under a run.
* The invitation mail worker (one lease per mail, held over an SMTP call), the
  voice cache's cleanup queue, the rate window's bound of twice the limit.
