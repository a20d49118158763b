------------------------------ MODULE ChatRun ------------------------------
(***************************************************************************)
(* The life of chat runs: admission to the process-local registry of       *)
(* backend/internal/chat/active_runs.go, the handler that streams one      *)
(* answer (Handler.streamAssistantMessage and streamImageGeneration in     *)
(* handler.go), cancellation through Postgres, the registry and Redis, and *)
(* the recovery of cmd/api/main.go after a crash.                          *)
(*                                                                         *)
(* msg and turn are rows of Postgres, flags are keys of Redis; they        *)
(* survive a crash.  Everything else lives in an API process.  A database  *)
(* call ends "done", "refused" (error, nothing written) or "unanswered"    *)
(* (error, but the commit took effect); the last two spend a fault.        *)
(***************************************************************************)
EXTENDS Integers

CONSTANTS
  Runs,
  Servers,           \* API processes
  NoServer,
  Conversation,      \* Conversation[r]: where run r answers
  ImageRuns,         \* runs of streamImageGeneration, which have no Turn
  TimedRuns,         \* runs with a stream deadline (MCP, local Skills)
  DevelopmentActor,  \* the user is the built-in development user
  Redis,             \* a cancellation store is configured
  LostReplies,       \* a failed call may have committed
  MaxFaults,         \* bound on failing database and Redis calls
  MaxCrashes         \* bound on crashes

ASSUME ServersAssumption == NoServer \notin Servers
ASSUME RunsAssumption == ImageRuns \subseteq Runs /\ TimedRuns \subseteq Runs \ ImageRuns
ASSUME FlagsAssumption ==
  DevelopmentActor \in BOOLEAN /\ Redis \in BOOLEAN /\ LostReplies \in BOOLEAN
ASSUME BoundsAssumption == MaxFaults \in Nat /\ MaxCrashes \in Nat

VARIABLES
  msg,        \* messages.status of the run's assistant row, "none" before it
  turn,       \* chat_agent_turns.status, "none" before it
  flags,      \* runs whose Redis cancellation key is set
  server,     \* "serving", "recovering" or "down"
  pending,    \* incomplete turns the recovering server has read
  pc,         \* where the run's handler is
  host,       \* the server it runs on
  entry,      \* activeRunEntry: "none", "reserved" or "attached"
  ctx,        \* streamCtx: "none", "live", "cancelled" or "expired"
  turnFinal,  \* turnFinalStatus
  target,     \* the status the handler is about to store
  reply,      \* the terminal frame it will send if that succeeds
  frame,      \* the terminal frame it has sent
  cancel,     \* the run's cancel request
  canceller,  \* the server that serves it
  faults, crashes

rowVars    == <<msg, turn>>
serverVars == <<server, pending, crashes>>
planVars   == <<turnFinal, target, reply, frame>>
cancelVars == <<cancel, canceller>>
vars == <<rowVars, flags, serverVars, pc, host, entry, ctx, planVars, cancelVars, faults>>

Terminal    == {"completed", "failed", "cancelled"}
MsgStatus   == Terminal \union {"none", "streaming"}
TurnStatus  == Terminal \union {"none", "running", "interrupted"}
Ended       == {"idle", "done", "dead"}
Active      == {"reserved", "created", "untracked", "tracked", "prepared", "attached",
                "streaming", "completing", "finalizing", "finishing", "responding", "ending", "releasing"}
Frames      == {"none", "completed", "cancelled", "error"}
CancelSteps == {"none", "committed", "signalled", "acknowledged", "lost"}

Outcomes == {"done", "refused"} \union IF LostReplies THEN {"unanswered"} ELSE {}
Applied(o) == o # "refused"

\* One database or Redis call with outcome o.
Call(o) ==
  \/ o = "done" /\ UNCHANGED faults
  \/ o # "done" /\ faults < MaxFaults /\ faults' = faults + 1

Goto(r, label) == pc' = [pc EXCEPT ![r] = label]
Tracked(r) == r \notin ImageRuns

Init ==
  /\ msg = [r \in Runs |-> "none"] /\ turn = [r \in Runs |-> "none"] /\ flags = {}
  /\ server = [s \in Servers |-> "serving"] /\ pending = [s \in Servers |-> {}]
  /\ pc = [r \in Runs |-> "idle"] /\ host = [r \in Runs |-> NoServer]
  /\ entry = [r \in Runs |-> "none"] /\ ctx = [r \in Runs |-> "none"]
  /\ turnFinal = [r \in Runs |-> "interrupted"] /\ target = [r \in Runs |-> "none"]
  /\ reply = [r \in Runs |-> "none"] /\ frame = [r \in Runs |-> "none"]
  /\ cancel = [r \in Runs |-> "none"] /\ canceller = [r \in Runs |-> NoServer]
  /\ faults = 0 /\ crashes = 0

-----------------------------------------------------------------------------
(* Statements of Postgres.                                                   *)

\* Mutation: the finalize statement without its guard on cancelled rows.
Overwrites(r, status) == msg[r] # "none"

\* assistantMessageFinalizeSQL finds the row unless it is cancelled and the new
\* status is not.
Finalizable(r, status) ==
  msg[r] # "none" /\ (msg[r] = "cancelled" => status = "cancelled")

\* FinalizeAssistantMessage first locks the conversation of the user in the
\* context; a context without a user stands for the development user.
FinalizeRow(r, status, o) ==
  msg' = IF Applied(o) /\ Finalizable(r, status)
         THEN [msg EXCEPT ![r] = status] ELSE msg

\* normalizeChatAgentTurnStatus
Normalize(status) == IF status \in Terminal THEN status ELSE "interrupted"

\* Mutation: an interrupted turn fails its message whatever its status.
EndTurnRowFailing(r, status, o) ==
  LET applies == Applied(o) /\ turn[r] = "running" IN
  /\ turn' = IF applies THEN [turn EXCEPT ![r] = status] ELSE turn
  /\ msg' = IF applies /\ status = "interrupted" THEN [msg EXCEPT ![r] = "failed"] ELSE msg

\* chat_agent_append_event with a turn.ended event: refused with
\* CHAT_AGENT_TURN_TERMINAL unless the turn runs; an interrupted turn fails a
\* message that is still streaming.
EndTurnRow(r, status, o) ==
  LET applies == Applied(o) /\ turn[r] = "running" IN
  /\ turn' = IF applies THEN [turn EXCEPT ![r] = status] ELSE turn
  /\ msg' = IF applies /\ status = "interrupted" /\ msg[r] = "streaming"
            THEN [msg EXCEPT ![r] = "failed"] ELSE msg

-----------------------------------------------------------------------------
(* Admission.                                                                *)

\* Mutation: the registry admits every run.
ReserveAny(r, s) ==
  /\ pc[r] = "idle" /\ server[s] = "serving"
  /\ Goto(r, "reserved") /\ host' = [host EXCEPT ![r] = s]
  /\ entry' = [entry EXCEPT ![r] = "reserved"]
  /\ UNCHANGED <<rowVars, flags, serverVars, ctx, planVars, cancelVars, faults>>

Busy(s, k) == \E q \in Runs : host[q] = s /\ Conversation[q] = k /\ entry[q] # "none"

\* activeRunRegistry.reserve; a busy conversation answers 409 and nothing changes.
Reserve(r, s) ==
  /\ pc[r] = "idle" /\ server[s] = "serving" /\ ~Busy(s, Conversation[r])
  /\ Goto(r, "reserved") /\ host' = [host EXCEPT ![r] = s]
  /\ entry' = [entry EXCEPT ![r] = "reserved"]
  /\ UNCHANGED <<rowVars, flags, serverVars, ctx, planVars, cancelVars, faults>>

\* An early return of the admission (MCP, workspace, Skills) before any row.
Reject(r) ==
  /\ pc[r] = "reserved" /\ Tracked(r)
  /\ Goto(r, "releasing") /\ frame' = [frame EXCEPT ![r] = "error"]
  /\ UNCHANGED <<rowVars, flags, serverVars, host, entry, ctx, turnFinal, target, reply,
                 cancelVars, faults>>

CreateMessage(r, o) ==
  /\ pc[r] = "reserved" /\ Call(o)
  /\ msg' = IF Applied(o) THEN [msg EXCEPT ![r] = "streaming"] ELSE msg
  /\ IF o = "done" THEN Goto(r, "created") /\ UNCHANGED frame
     ELSE Goto(r, "releasing") /\ frame' = [frame EXCEPT ![r] = "error"]
  /\ UNCHANGED <<turn, flags, serverVars, host, entry, ctx, turnFinal, target, reply, cancelVars>>

\* startChatAgentEventRecorder
StartTurn(r, o) ==
  /\ pc[r] = "created" /\ Tracked(r) /\ Call(o)
  /\ turn' = IF Applied(o) THEN [turn EXCEPT ![r] = "running"] ELSE turn
  /\ Goto(r, IF o = "done" THEN "tracked" ELSE "untracked")
  /\ UNCHANGED <<msg, flags, serverVars, host, entry, ctx, planVars, cancelVars>>

\* Its error path finalizes with context.Background(), so for the development
\* user, and answers an error whatever that returned.
FailUntracked(r, o) ==
  /\ pc[r] = "untracked" /\ Call(o)
  /\ IF DevelopmentActor THEN FinalizeRow(r, "failed", o) ELSE UNCHANGED msg
  /\ Goto(r, "releasing") /\ frame' = [frame EXCEPT ![r] = "error"]
  /\ UNCHANGED <<turn, flags, serverVars, host, entry, ctx, turnFinal, target, reply, cancelVars>>

\* recordContextInjection; failContextInjection presets the turn's status and
\* stores a failed message.
Inject(r, o) ==
  /\ pc[r] = "tracked" /\ Call(o)
  /\ IF o = "done" /\ turn[r] = "running"
     THEN Goto(r, "prepared") /\ UNCHANGED <<turnFinal, target, reply>>
     ELSE /\ Goto(r, "finalizing") /\ turnFinal' = [turnFinal EXCEPT ![r] = "failed"]
          /\ target' = [target EXCEPT ![r] = "failed"] /\ reply' = [reply EXCEPT ![r] = "error"]
  /\ UNCHANGED <<rowVars, flags, serverVars, host, entry, ctx, frame, cancelVars>>

\* activeRunRegistry.attach and watchRunCancellation; attach finds the entry
\* this run reserved, so its refusal (409) never happens.
Attach(r) ==
  /\ pc[r] = IF Tracked(r) THEN "prepared" ELSE "created"
  /\ entry[r] = "reserved" /\ entry' = [entry EXCEPT ![r] = "attached"]
  /\ ctx' = [ctx EXCEPT ![r] = "live"]
  /\ Goto(r, IF Tracked(r) THEN "attached" ELSE "streaming")
  /\ UNCHANGED <<rowVars, flags, serverVars, host, planVars, cancelVars, faults>>

-----------------------------------------------------------------------------
(* The stream.                                                               *)

Decide(r, status, frameType) ==
  /\ Goto(r, "finalizing")
  /\ target' = [target EXCEPT ![r] = status] /\ reply' = [reply EXCEPT ![r] = frameType]

streamFrame == <<rowVars, flags, serverVars, host, entry, frame, cancelVars>>

ProviderStarts(r) ==
  /\ pc[r] = "attached" /\ Goto(r, "streaming")
  /\ UNCHANGED <<streamFrame, ctx, turnFinal, target, reply, faults>>

\* StreamChat returns an error before the first SSE frame; a cancelled run then
\* sends nothing at all.
ProviderRefuses(r) ==
  /\ pc[r] = "attached"
  /\ IF ctx[r] = "cancelled" THEN Decide(r, "cancelled", "none") ELSE Decide(r, "failed", "error")
  /\ UNCHANGED <<streamFrame, ctx, turnFinal, faults>>

\* streamTimeout
Expire(r) ==
  /\ r \in TimedRuns /\ ctx[r] = "live" /\ ctx' = [ctx EXCEPT ![r] = "expired"]
  /\ UNCHANGED <<rowVars, flags, serverVars, pc, host, entry, planVars, cancelVars, faults>>

\* watchRunCancellation; an error of Redis is ignored until the next tick.
Poll(r) ==
  /\ ctx[r] = "live" /\ r \in flags /\ ctx' = [ctx EXCEPT ![r] = "cancelled"]
  /\ UNCHANGED <<rowVars, flags, serverVars, pc, host, entry, planVars, cancelVars, faults>>

\* The last process steps are appended; emitProcessStep presets a failed turn
\* when that fails, and here the error is dropped.
WindDown(r, o) ==
  /\ Call(o)
  /\ turnFinal' = IF o = "done" /\ turn[r] = "running" THEN turnFinal
                  ELSE [turnFinal EXCEPT ![r] = "failed"]

\* An error event of the provider.
ProviderFails(r, o) ==
  /\ pc[r] = "streaming" /\ Tracked(r) /\ WindDown(r, o)
  /\ IF ctx[r] = "cancelled" THEN Decide(r, "cancelled", "cancelled") ELSE Decide(r, "failed", "error")
  /\ UNCHANGED <<streamFrame, ctx>>

\* The provider's channel closed after the deadline.
Overrun(r, o) ==
  /\ pc[r] = "streaming" /\ ctx[r] = "expired" /\ WindDown(r, o) /\ Decide(r, "failed", "error")
  /\ UNCHANGED <<streamFrame, ctx>>

\* The channel closed and the run is cancelled, here or by another process.  A
\* tool that reports itself cancelled, which counts as well, does so because
\* this context is (the comment at web_tool_loop.go:1358).
Stop(r, o) ==
  /\ pc[r] = "streaming" /\ Tracked(r)
  /\ ctx[r] = "cancelled" \/ (ctx[r] = "live" /\ r \in flags)
  /\ ctx' = [ctx EXCEPT ![r] = "cancelled"]
  /\ WindDown(r, o) /\ Decide(r, "cancelled", "cancelled")
  /\ UNCHANGED streamFrame

\* The channel closed; the last process steps come before the final write.
Complete(r) ==
  /\ pc[r] = "streaming" /\ Tracked(r) /\ ctx[r] = "live" /\ r \notin flags
  /\ Goto(r, "completing")
  /\ target' = [target EXCEPT ![r] = "completed"] /\ reply' = [reply EXCEPT ![r] = "completed"]
  /\ UNCHANGED <<streamFrame, ctx, turnFinal, faults>>

\* An event could not be stored: cancelTrackedAfterWriteError.  A tool or
\* process step presets a failed turn; reasoning and narration do not, and the
\* message is stored as cancelled.  No terminal frame is sent.
PersistFails(r, o, preset) ==
  /\ pc[r] \in {"streaming", "completing"} /\ Tracked(r)
  /\ Call(o) /\ ~(o = "done" /\ turn[r] = "running")
  /\ turnFinal' = [turnFinal EXCEPT ![r] = preset]
  /\ Decide(r, preset, "none")
  /\ UNCHANGED <<streamFrame, ctx>>

ImageDone(r) ==
  /\ pc[r] = "streaming" /\ ~Tracked(r) /\ Decide(r, "completed", "completed")
  /\ UNCHANGED <<streamFrame, ctx, turnFinal, faults>>

\* Any failure: the provider's, or the browser goes away, whose request the
\* context of an image run derives from.
ImageFails(r) ==
  /\ pc[r] = "streaming" /\ ~Tracked(r)
  /\ IF ctx[r] = "cancelled" THEN Decide(r, "cancelled", "cancelled") ELSE Decide(r, "failed", "error")
  /\ UNCHANGED <<streamFrame, ctx, turnFinal, faults>>

-----------------------------------------------------------------------------
(* The end of a run.                                                         *)

endFrame == <<flags, serverVars, host, entry, ctx, frame, cancelVars>>
Retract(r) == reply' = [reply EXCEPT ![r] = IF @ = "completed" THEN "error" ELSE @]

\* Mutation: the turn takes the status the handler wanted, stored or not.
FinalizeTrackedPreset(r, o) ==
  /\ pc[r] \in {"completing", "finalizing"} /\ Tracked(r) /\ Call(o)
  /\ FinalizeRow(r, target[r], o)
  /\ turnFinal' = [turnFinal EXCEPT ![r] = target[r]]
  /\ IF o = "done" /\ Finalizable(r, target[r]) THEN Goto(r, "finishing") /\ UNCHANGED reply
     ELSE Goto(r, "responding") /\ Retract(r)
  /\ UNCHANGED <<turn, target, endFrame>>

\* Mutation: success is reported without looking at the error.
FinalizeTrackedUnchecked(r, o) ==
  /\ pc[r] \in {"completing", "finalizing"} /\ Tracked(r) /\ Call(o)
  /\ FinalizeRow(r, target[r], o) /\ Goto(r, "responding")
  /\ UNCHANGED <<turn, turnFinal, target, reply, endFrame>>

\* finalizeTracked, first half: the row.
FinalizeTracked(r, o) ==
  /\ pc[r] \in {"completing", "finalizing"} /\ Tracked(r) /\ Call(o)
  /\ FinalizeRow(r, target[r], o)
  /\ IF o = "done" /\ Finalizable(r, target[r])
     THEN /\ Goto(r, "finishing") /\ turnFinal' = [turnFinal EXCEPT ![r] = target[r]]
          /\ UNCHANGED reply
     ELSE Goto(r, "responding") /\ Retract(r) /\ UNCHANGED turnFinal
  /\ UNCHANGED <<turn, target, endFrame>>

\* finalizeTracked, second half: recorder.finish appends assistant.message
\* (noted) and turn.ended; an error of either turns success into message.error.
FinishTurn(r, noted, o) ==
  LET failures == (IF noted THEN 0 ELSE 1) + (IF o = "done" THEN 0 ELSE 1) IN
  /\ pc[r] = "finishing" /\ Goto(r, "responding")
  /\ faults' = faults + failures /\ faults' <= MaxFaults
  /\ EndTurnRow(r, turnFinal[r], o)
  /\ IF failures = 0 /\ turn[r] = "running" THEN UNCHANGED reply ELSE Retract(r)
  /\ UNCHANGED <<turnFinal, target, endFrame>>

\* streamImageGeneration writes the row without the run's user; when storing
\* the image fails it stores a failure instead.
FinalizeImage(r, o) ==
  /\ pc[r] = "finalizing" /\ ~Tracked(r) /\ Call(o)
  /\ IF DevelopmentActor THEN FinalizeRow(r, target[r], o) ELSE UNCHANGED msg
  /\ IF target[r] = "completed" /\ ~(DevelopmentActor /\ o = "done" /\ Finalizable(r, "completed"))
     THEN /\ target' = [target EXCEPT ![r] = "failed"] /\ reply' = [reply EXCEPT ![r] = "error"]
          /\ UNCHANGED pc
     ELSE Goto(r, "responding") /\ UNCHANGED <<target, reply>>
  /\ UNCHANGED <<turn, turnFinal, endFrame>>

\* The terminal frame, then the deferred streamCancel, stopCancellationWatch
\* and clearRunCancelled of an attached run.
Respond(r) ==
  /\ pc[r] = "responding" /\ Goto(r, IF Tracked(r) THEN "ending" ELSE "releasing")
  /\ frame' = [frame EXCEPT ![r] = reply[r]]
  /\ ctx' = [ctx EXCEPT ![r] = "none"]
  /\ flags' = IF entry[r] = "attached" THEN flags \ {r} ELSE flags
  /\ UNCHANGED <<rowVars, serverVars, host, entry, turnFinal, target, reply, cancelVars, faults>>

\* The deferred recorder.finish, a no-op once the turn has ended.
DeferredFinish(r, o) ==
  /\ pc[r] = "ending" /\ Goto(r, "releasing")
  /\ IF turn[r] = "running" THEN Call(o) ELSE o = "done" /\ UNCHANGED faults
  /\ EndTurnRow(r, turnFinal[r], o)
  /\ UNCHANGED <<flags, serverVars, host, entry, ctx, planVars, cancelVars>>

\* releaseRun
Release(r) ==
  /\ pc[r] = "releasing" /\ Goto(r, "done") /\ entry' = [entry EXCEPT ![r] = "none"]
  /\ UNCHANGED <<rowVars, flags, serverVars, host, ctx, planVars, cancelVars, faults>>

-----------------------------------------------------------------------------
(* Handler.cancelRun: the row, then the registry, then Redis.                *)

cancelFrame == <<turn, serverVars, pc, host, entry, planVars>>

\* CancelRun cancels a streaming row and succeeds again on a cancelled one; it
\* finds no row of a run not yet created and refuses a completed or failed one.
CancelCommit(r, s, o) ==
  /\ server[s] = "serving" /\ cancel[r] \in {"none", "acknowledged", "lost"}
  /\ msg[r] \in {"streaming", "cancelled"} /\ Call(o)
  /\ msg' = IF Applied(o) THEN [msg EXCEPT ![r] = "cancelled"] ELSE msg
  /\ cancel' = IF o = "done" THEN [cancel EXCEPT ![r] = "committed"]
               ELSE IF Applied(o) THEN [cancel EXCEPT ![r] = "lost"] ELSE cancel
  /\ canceller' = IF o = "done" THEN [canceller EXCEPT ![r] = s] ELSE canceller
  /\ UNCHANGED <<cancelFrame, flags, ctx>>

\* activeRunRegistry.cancel reaches only a run attached in the same process.
CancelSignal(r) ==
  /\ cancel[r] = "committed" /\ cancel' = [cancel EXCEPT ![r] = "signalled"]
  /\ ctx' = IF canceller[r] = host[r] /\ entry[r] = "attached" /\ ctx[r] = "live"
            THEN [ctx EXCEPT ![r] = "cancelled"] ELSE ctx
  /\ UNCHANGED <<cancelFrame, msg, flags, canceller, faults>>

\* Mutation: the cancellation key is not written.
CancelMarkNothing(r, o) ==
  /\ cancel[r] = "signalled" /\ cancel' = [cancel EXCEPT ![r] = "acknowledged"] /\ Call(o)
  /\ UNCHANGED <<cancelFrame, msg, flags, ctx, canceller>>

\* markRunCancelled drops errors; then the request is answered.
CancelMark(r, o) ==
  /\ cancel[r] = "signalled" /\ cancel' = [cancel EXCEPT ![r] = "acknowledged"]
  /\ IF Redis THEN Call(o) ELSE o = "done" /\ UNCHANGED faults
  /\ flags' = IF Redis /\ Applied(o) THEN flags \union {r} ELSE flags
  /\ UNCHANGED <<cancelFrame, msg, ctx, canceller>>

-----------------------------------------------------------------------------
(* Crash and recovery.                                                       *)

Crash(s) ==
  LET hosted == {r \in Runs : host[r] = s /\ pc[r] \in Active} IN
  /\ server[s] # "down" /\ crashes < MaxCrashes /\ crashes' = crashes + 1
  /\ server' = [server EXCEPT ![s] = "down"] /\ pending' = [pending EXCEPT ![s] = {}]
  /\ pc' = [r \in Runs |-> IF r \in hosted THEN "dead" ELSE pc[r]]
  /\ entry' = [r \in Runs |-> IF r \in hosted THEN "none" ELSE entry[r]]
  /\ ctx' = [r \in Runs |-> IF r \in hosted THEN "none" ELSE ctx[r]]
  /\ cancel' = [r \in Runs |-> IF cancel[r] \in {"committed", "signalled"} /\ canceller[r] = s
                               THEN "lost" ELSE cancel[r]]
  /\ UNCHANGED <<rowVars, flags, host, planVars, canceller, faults>>

recoveryFrame == <<flags, crashes, pc, host, entry, ctx, planVars, cancelVars>>

\* RecoverIncompleteChatAgentTurns reads the running turns and their messages.
Restart(s) ==
  /\ server[s] = "down" /\ server' = [server EXCEPT ![s] = "recovering"]
  /\ pending' = [pending EXCEPT ![s] = {[run |-> r, status |-> msg[r]] :
                                         r \in {q \in Runs : turn[q] = "running"}}]
  /\ UNCHANGED <<rowVars, recoveryFrame, faults>>

\* It ends them one by one; a turn that has ended meanwhile is skipped, any
\* other error ends the process.
RecoverTurn(s, p, o) ==
  /\ server[s] = "recovering" /\ p \in pending[s] /\ Call(o)
  /\ EndTurnRow(p.run, Normalize(p.status), o)
  /\ IF o = "done" THEN pending' = [pending EXCEPT ![s] = @ \ {p}] /\ UNCHANGED server
     ELSE pending' = [pending EXCEPT ![s] = {}] /\ server' = [server EXCEPT ![s] = "down"]
  /\ UNCHANGED recoveryFrame

\* Mutation: requests are served while recovery still runs.
ServeEarly(s) ==
  /\ server[s] = "recovering" /\ server' = [server EXCEPT ![s] = "serving"]
  /\ UNCHANGED <<rowVars, pending, recoveryFrame, faults>>

Serve(s) ==
  /\ server[s] = "recovering" /\ pending[s] = {} /\ server' = [server EXCEPT ![s] = "serving"]
  /\ UNCHANGED <<rowVars, pending, recoveryFrame, faults>>

-----------------------------------------------------------------------------
\* What the handler does of itself.
HandlerStep(r) ==
  \/ Reject(r) \/ Attach(r) \/ Respond(r) \/ Release(r)
  \/ \E o \in Outcomes :
       \/ CreateMessage(r, o) \/ StartTurn(r, o) \/ FailUntracked(r, o) \/ Inject(r, o)
       \/ FinalizeTracked(r, o) \/ FinalizeImage(r, o) \/ DeferredFinish(r, o)
       \/ \E noted \in BOOLEAN : FinishTurn(r, noted, o)

\* What the provider, the deadline and the store of events decide.
StreamStep(r) ==
  \/ ProviderStarts(r) \/ ProviderRefuses(r) \/ Expire(r) \/ Complete(r)
  \/ ImageDone(r) \/ ImageFails(r)
  \/ \E o \in Outcomes :
       \/ ProviderFails(r, o) \/ Overrun(r, o) \/ Stop(r, o)
       \/ PersistFails(r, o, "failed") \/ PersistFails(r, o, "cancelled")

CancelStep(r) == CancelSignal(r) \/ \E o \in Outcomes : CancelMark(r, o)

RecoveryStep(s) ==
  Restart(s) \/ Serve(s) \/ \E p \in pending[s], o \in Outcomes : RecoverTurn(s, p, o)

Next ==
  \/ \E r \in Runs : HandlerStep(r) \/ StreamStep(r) \/ CancelStep(r) \/ Poll(r)
  \/ \E r \in Runs, s \in Servers : Reserve(r, s)
  \/ \E r \in Runs, s \in Servers, o \in Outcomes : CancelCommit(r, s, o)
  \/ \E s \in Servers : Crash(s) \/ RecoveryStep(s)

Spec == Init /\ [][Next]_vars

\* The handlers, the watch and the recovery are scheduled; a provider whose
\* context has ended returns, a live one may take for ever.
Fairness ==
  /\ \A r \in Runs :
       /\ WF_vars(HandlerStep(r)) /\ WF_vars(CancelStep(r)) /\ WF_vars(Poll(r))
       /\ WF_vars(ctx[r] \in {"cancelled", "expired"} /\ StreamStep(r))
  /\ \A s \in Servers : WF_vars(RecoveryStep(s))

FairSpec == Spec /\ Fairness

-----------------------------------------------------------------------------
TypeOK ==
  /\ msg \in [Runs -> MsgStatus] /\ turn \in [Runs -> TurnStatus] /\ flags \subseteq Runs
  /\ server \in [Servers -> {"serving", "recovering", "down"}]
  /\ pending \in [Servers -> SUBSET [run : Runs, status : MsgStatus]]
  /\ pc \in [Runs -> Ended \union Active] /\ host \in [Runs -> Servers \union {NoServer}]
  /\ entry \in [Runs -> {"none", "reserved", "attached"}]
  /\ ctx \in [Runs -> {"none", "live", "cancelled", "expired"}]
  /\ turnFinal \in [Runs -> Terminal \union {"interrupted"}]
  /\ target \in [Runs -> Terminal \union {"none"}]
  /\ \A r \in Runs : pc[r] \in {"completing", "finalizing"} => target[r] # "none"
  /\ reply \in [Runs -> Frames] /\ frame \in [Runs -> Frames]
  /\ cancel \in [Runs -> CancelSteps] /\ canceller \in [Runs -> Servers \union {NoServer}]
  /\ faults \in 0..MaxFaults /\ crashes \in 0..MaxCrashes

\* An API process answers at most one request of a conversation at a time
\* (CONVERSATION_RUN_ACTIVE), from the reservation to the deferred release.
OneRunPerConversation ==
  \A q, r \in Runs :
    pc[q] \in Active /\ pc[r] \in Active /\ host[q] = host[r]
      /\ Conversation[q] = Conversation[r] => q = r

\* A cancelled message stays cancelled: no finalization, late completion or
\* recovery that races the cancel request brings the run back.
CancelledIsFinal == [][\A r \in Runs : msg[r] = "cancelled" => msg'[r] = "cancelled"]_vars

\* Whoever learns that a run was cancelled, from the cancel request or from the
\* stream, finds the row cancelled; so does every process that obeys a flag.
CancelTruth ==
  \A r \in Runs :
    cancel[r] = "acknowledged" \/ frame[r] = "cancelled" \/ r \in flags => msg[r] = "cancelled"

\* The row of a text run keeps its terminal status, whatever errors, retries,
\* cancellations and recoveries follow (one API process).
TerminalIsFinal ==
  [][\A r \in Runs : Tracked(r) /\ msg[r] \in Terminal => msg'[r] = msg[r]]_vars

\* message.completed is sent for a completed row only.
CompletedTruth == \A r \in Runs : frame[r] = "completed" => msg[r] = "completed"

\* The event log never contradicts the row: a turn that has ended leaves no
\* message streaming and claims success or cancellation only with the row.
TurnAgrees ==
  \A r \in Runs :
    /\ turn[r] \in {"completed", "cancelled"} => msg[r] = turn[r]
    /\ turn[r] = "failed" => msg[r] \in {"failed", "cancelled"}
    /\ turn[r] = "interrupted" => msg[r] \in Terminal

\* Once a restarted process serves requests, no turn of a run that died with
\* it is still open.
NoOrphanTurn ==
  \A r \in Runs : pc[r] = "dead" /\ server[host[r]] = "serving" => turn[r] # "running"

\* After an acknowledged cancel the run ends and the conversation is free again,
\* whichever process took the request and however early it came.
CancelStops == \A r \in Runs : cancel[r] = "acknowledged" ~> pc[r] \in Ended

\* Documented, and refuted: an accepted run whose handler has returned has a
\* terminal row, or a turn from which the next start recovers it.
EndedRunIsDurable ==
  \A r \in Runs : pc[r] = "done" /\ msg[r] = "streaming" => turn[r] = "running"

\* The documented order, which two failing calls break: the message is stored
\* as terminal before its turn ends, so no ended turn leaves it streaming.
TurnAfterMessage ==
  \A r \in Runs : turn[r] \in Terminal \union {"interrupted"} => msg[r] \in Terminal
=============================================================================
