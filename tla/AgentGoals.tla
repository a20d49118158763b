----------------------------- MODULE AgentGoals -----------------------------
(***************************************************************************)
(* The event log of an agent's turns and the goal that keeps a turn going. *)
(*                                                                         *)
(* Postgres (migrations 097, 101): one goal row per conversation, changed  *)
(* under an expected revision, and one append-only log per turn; a goal    *)
(* statement changes the row and appends to the log in one transaction     *)
(* that holds the turn's row.  An API process: the handler, which records  *)
(* and ends the turn (chat_agent_event_recorder.go), and the tool loop in  *)
(* a goroutine of its own (web_tool_loop.go, goal_tool_loop.go), which may *)
(* outlive the handler.                                                    *)
(*                                                                         *)
(* The turns are those of one conversation.  What the model says is left   *)
(* out: at every step it may call any goal tool with the id and revision   *)
(* of the row, or end the step.  A call the statement refuses changes      *)
(* nothing.  An event's number is its index in the log.                    *)
(***************************************************************************)
EXTENDS Integers, Sequences, FiniteSets

CONSTANTS
  Turns,
  Hosts,         \* API processes
  Host,          \* Host[t]: the process that serves turn t
  Goals,         \* goal ids
  NoId,          \* in place of a goal id
  Limits,        \* values of max_goal_rounds
  BlockedAfter,  \* chatAgentGoalBlockedAfterRounds
  MaxRevision,   \* bound on the revisions of a goal
  MaxFaults,     \* bound on failing database calls
  MaxCrashes     \* bound on crashes

ASSUME HostAssumption == Host \in [Turns -> Hosts]
ASSUME GoalsAssumption == NoId \notin Goals
ASSUME LimitsAssumption ==
  BlockedAfter \in Nat /\ Limits \subseteq Nat /\ \A n \in Limits : n > 0 /\ n >= BlockedAfter
ASSUME BoundsAssumption ==
  MaxRevision \in Nat /\ MaxFaults \in Nat /\ MaxCrashes \in Nat

VARIABLES
  \* Postgres
  goal,         \* the chat_agent_goals row, NoGoal without one
  status,       \* of the turn: "none", "running" or "ended" (ChatRun tells the ends apart)
  log,          \* chat_agent_events of the turn
  \* chatAgentGoalToolRuntime and its loop
  loop,         \* "none", "step", "wrapup" (tool-free) or "over"
  current, armed, directHuman, currentRound,
  \* the rest of the process
  handler,      \* "none", "open", "retrying" or "over"
  up,           \* processes that serve
  pending,      \* turns the starting process has yet to recover
  faults, crashes

rowVars     == <<goal, status, log>>
runtimeVars == <<current, armed, directHuman, currentRound>>
hostVars    == <<up, pending, crashes>>
vars == <<rowVars, loop, runtimeVars, handler, hostVars, faults>>

NoGoal == [id |-> NoId, revision |-> 0, phase |-> "complete", rounds |-> 0, limit |-> 0]

HumanOps      == {"create", "edit", "pause", "resume", "cancel"}
ConcludingOps == {"pause", "complete", "blocked", "cancel"}
Changes       == {"edit", "pause", "resume", "complete", "blocked"}

\* An event of the log; a goal event carries the goal as it is after it.
Event(type, g) == [type |-> type, id |-> g.id, revision |-> g.revision, round |-> g.rounds]
Plain(type)    == Event(type, NoGoal)
GoalEvents     == HumanOps \union Changes \union {"round"}

Outcomes   == {"done", "refused", "unanswered"}
Applied(o) == o # "refused"
Call(o) ==
  \/ o = "done" /\ UNCHANGED faults
  \/ o # "done" /\ faults < MaxFaults /\ faults' = faults + 1

Init ==
  /\ goal = NoGoal /\ status = [t \in Turns |-> "none"] /\ log = [t \in Turns |-> <<>>]
  /\ loop = [t \in Turns |-> "none"] /\ current = [t \in Turns |-> NoGoal]
  /\ armed = [t \in Turns |-> FALSE] /\ directHuman = [t \in Turns |-> TRUE]
  /\ currentRound = [t \in Turns |-> 0]
  /\ handler = [t \in Turns |-> "none"]
  /\ up = Hosts /\ pending = [h \in Hosts |-> {}] /\ faults = 0 /\ crashes = 0

-----------------------------------------------------------------------------
(* The statements.                                                           *)

\* Mutation: an event is appended to a turn that has ended.
AppendAlways(t, e) == log' = [log EXCEPT ![t] = Append(@, e)]

\* chat_agent_append_event refuses a turn that is not running.
AppendEvent(t, e) ==
  log' = IF status[t] = "running" THEN [log EXCEPT ![t] = Append(@, e)] ELSE log

\* A statement that puts g in place of the row and logs it, with outcome o.
WriteGoal(t, op, g, o) ==
  IF Applied(o) THEN goal' = g /\ AppendEvent(t, Event(op, g))
                ELSE UNCHANGED <<goal, log>>

\* chat_agent_start_turn
StartTurnRow(t) ==
  /\ status' = [status EXCEPT ![t] = "running"]
  /\ log' = [log EXCEPT ![t] = <<Plain("turn.started")>>]

\* turn.ended also sets the turn's status.
EndTurnRow(t) ==
  /\ AppendEvent(t, Plain("turn.ended"))
  /\ status' = IF status[t] = "running" THEN [status EXCEPT ![t] = "ended"] ELSE status

Revised(phase) == [goal EXCEPT !.revision = goal.revision + 1, !.phase = phase]

\* The row chat_agent_change_goal writes for an action, among those it allows.
Changed(op) ==
  CASE op = "edit" ->
         {[Revised(goal.phase) EXCEPT !.limit = n] :
            n \in {goal.limit} \union {m \in Limits : m >= goal.rounds}}
    [] op = "pause" -> IF goal.phase = "active" THEN {Revised("paused")} ELSE {}
    [] op = "resume" ->
         IF goal.phase # "complete" /\ goal.rounds < goal.limit THEN {Revised("active")} ELSE {}
    [] op = "complete" -> IF goal.phase # "complete" THEN {Revised("complete")} ELSE {}
    [] op = "blocked" -> IF goal.phase = "active" THEN {Revised("blocked")} ELSE {}

\* The expected id and revision of a statement are those of the row.
Same(g) == g.id = goal.id /\ g.revision = goal.revision

-----------------------------------------------------------------------------
(* The goal tools.                                                           *)

\* The turn of an admitted run (one per conversation and process) and its loop.
StartTurn(t) ==
  /\ status[t] = "none" /\ Host[t] \in up
  /\ \A u \in Turns : Host[u] = Host[t] => handler[u] \in {"none", "over"}
  /\ StartTurnRow(t)
  /\ loop' = [loop EXCEPT ![t] = "step"] /\ handler' = [handler EXCEPT ![t] = "open"]
  /\ UNCHANGED <<goal, runtimeVars, hostVars, faults>>

toolFrame == <<status, handler, hostVars>>

\* The loop returns; what its runtime knew is gone with it.
Leave(T) ==
  /\ loop' = [t \in Turns |-> IF t \in T /\ loop[t] # "none" THEN "over" ELSE loop[t]]
  /\ current' = [t \in Turns |-> IF t \in T THEN NoGoal ELSE current[t]]
  /\ armed' = [t \in Turns |-> armed[t] /\ t \notin T]
  /\ directHuman' = [t \in Turns |-> directHuman[t] \/ t \in T]
  /\ currentRound' = [t \in Turns |-> IF t \in T THEN 0 ELSE currentRound[t]]

\* get_goal: a row that is not the one the loop knows disarms it.
GetGoal(t) ==
  /\ loop[t] = "step"
  /\ armed' = [armed EXCEPT ![t] = @ /\ (current[t] = NoGoal \/ Same(current[t]))]
  /\ current' = [current EXCEPT ![t] = goal]
  /\ UNCHANGED <<toolFrame, goal, log, loop, directHuman, currentRound, faults>>

\* What the runtime keeps of a change that succeeded.
Keep(t, op, g) ==
  /\ current' = [current EXCEPT ![t] = g]
  /\ armed' = [armed EXCEPT ![t] =
                 IF op \in {"create", "resume"} THEN TRUE
                 ELSE IF op \in ConcludingOps THEN FALSE ELSE @]

\* Mutation: the turn goes on with its tools after a conclusion.
ToolResultOpen(t, op, g, o) ==
  /\ Call(o)
  /\ IF o = "done" THEN Keep(t, op, g) /\ UNCHANGED <<loop, directHuman, currentRound>>
                   ELSE Leave({t})

\* A change concludes the turn, or the run goes on; a call that fails without
\* an answer of the statement ends it (AGENT_GOAL_PERSISTENCE_FAILED).
ToolResult(t, op, g, o) ==
  /\ Call(o)
  /\ IF o = "done"
     THEN /\ Keep(t, op, g)
          /\ loop' = [loop EXCEPT ![t] = IF op \in ConcludingOps THEN "wrapup" ELSE @]
          /\ UNCHANGED <<directHuman, currentRound>>
     ELSE Leave({t})

\* create_goal, allowed when there is no goal or a complete one.
CreateGoal(t, id, limit, o) ==
  LET g == [id |-> id, revision |-> 1, phase |-> "active", rounds |-> 0, limit |-> limit] IN
  /\ loop[t] = "step" /\ directHuman[t] /\ status[t] = "running"
  /\ goal.phase = "complete"
  /\ \A u \in Turns : \A i \in DOMAIN log[u] : log[u][i].id # id
  /\ WriteGoal(t, "create", g, o) /\ ToolResult(t, "create", g, o)
  /\ UNCHANGED toolFrame

\* Mutation: the model may block, edit or pause on its own at any time.
MayAlways(t, op) == TRUE

\* Only a person edits, pauses, resumes and cancels; by itself the loop may
\* call itself blocked from its third round on.
May(t, op) ==
  /\ op \in HumanOps => directHuman[t]
  /\ op = "blocked" /\ ~directHuman[t] =>
       current[t] # NoGoal /\ currentRound[t] >= BlockedAfter

\* update_goal with another action than cancel
UpdateGoal(t, op, o) ==
  /\ loop[t] = "step" /\ May(t, op) /\ status[t] = "running"
  /\ goal # NoGoal /\ goal.revision < MaxRevision
  /\ \E g \in Changed(op) : WriteGoal(t, op, g, o) /\ ToolResult(t, op, g, o)
  /\ UNCHANGED toolFrame

\* update_goal with action cancel: the row is deleted.
CancelGoal(t, o) ==
  /\ loop[t] = "step" /\ May(t, "cancel") /\ status[t] = "running"
  /\ goal # NoGoal
  /\ IF Applied(o) THEN goal' = NoGoal /\ AppendEvent(t, Event("cancel", Revised("complete")))
                   ELSE UNCHANGED <<goal, log>>
  /\ ToolResult(t, "cancel", NoGoal, o)
  /\ UNCHANGED toolFrame

-----------------------------------------------------------------------------
(* The end of a step without a tool call: beginNextRound.                    *)

Work(t) == armed[t] /\ current[t].phase = "active"

\* The loop returns: the provider failed, its context ended, or nothing is left.
LoopEnds(t) ==
  /\ loop[t] \in {"step", "wrapup"} /\ Leave({t})
  /\ UNCHANGED <<rowVars, handler, hostVars, faults>>

\* Mutation: the expected revision is not compared.
RoundValidAny(t) ==
  status[t] = "running" /\ goal.phase = "active" /\ goal.rounds < goal.limit

\* chat_agent_start_goal_round
RoundValid(t) ==
  /\ status[t] = "running" /\ goal # NoGoal /\ Same(current[t])
  /\ goal.phase = "active" /\ goal.rounds = current[t].rounds /\ goal.rounds < goal.limit

\* Mutation: the round is announced but not counted.
NextRoundUncounted(t, o) ==
  LET g == [goal EXCEPT !.rounds = goal.rounds + 1] IN
  /\ loop[t] = "step" /\ Work(t) /\ current[t].rounds < current[t].limit
  /\ RoundValid(t) /\ Call(o)
  /\ UNCHANGED goal
  /\ IF Applied(o) THEN AppendEvent(t, Event("round", g)) ELSE UNCHANGED log
  /\ IF o = "done"
     THEN /\ current' = [current EXCEPT ![t] = goal]
          /\ directHuman' = [directHuman EXCEPT ![t] = FALSE]
          /\ currentRound' = [currentRound EXCEPT ![t] = g.rounds]
          /\ UNCHANGED <<loop, armed>>
     ELSE Leave({t})
  /\ UNCHANGED toolFrame

\* Another round is started, from here on without a person.
NextRound(t, o) ==
  LET g == [goal EXCEPT !.rounds = goal.rounds + 1] IN
  /\ loop[t] = "step" /\ Work(t) /\ current[t].rounds < current[t].limit
  /\ RoundValid(t) /\ Call(o)
  /\ WriteGoal(t, "round", g, o)
  /\ IF o = "done"
     THEN /\ current' = [current EXCEPT ![t] = g]
          /\ directHuman' = [directHuman EXCEPT ![t] = FALSE]
          /\ currentRound' = [currentRound EXCEPT ![t] = g.rounds]
          /\ UNCHANGED <<loop, armed>>
     ELSE Leave({t})
  /\ UNCHANGED toolFrame

\* The rounds are used up: the loop blocks the goal and wraps up.
BlockAtLimit(t, o) ==
  LET g == Revised("blocked") IN
  /\ loop[t] = "step" /\ Work(t) /\ current[t].rounds >= current[t].limit
  /\ status[t] = "running" /\ goal # NoGoal /\ Same(current[t]) /\ goal.phase = "active"
  /\ goal.revision < MaxRevision /\ Call(o)
  /\ WriteGoal(t, "blocked", g, o)
  /\ IF o = "done"
     THEN /\ current' = [current EXCEPT ![t] = g] /\ armed' = [armed EXCEPT ![t] = FALSE]
          /\ directHuman' = [directHuman EXCEPT ![t] = FALSE]
          /\ loop' = [loop EXCEPT ![t] = "wrapup"] /\ UNCHANGED currentRound
     ELSE Leave({t})
  /\ UNCHANGED toolFrame

-----------------------------------------------------------------------------
(* The handler.                                                              *)

handlerFrame == <<goal, loop, runtimeVars, hostVars>>

\* recorder.finish, when the loop has returned or before: turn.ended.  A failure
\* leaves it to the deferred finish, and after that to the next start of a
\* process.  The events it records meanwhile are left out.
FinishTurn(t, o) ==
  /\ handler[t] \in {"open", "retrying"} /\ Call(o)
  /\ IF Applied(o) THEN EndTurnRow(t) ELSE UNCHANGED <<log, status>>
  /\ handler' = [handler EXCEPT ![t] =
       IF (o = "done" /\ status[t] = "running") \/ @ = "retrying" THEN "over" ELSE "retrying"]
  /\ UNCHANGED <<goal, loop, runtimeVars, hostVars>>

-----------------------------------------------------------------------------
(* Crash and recovery.                                                       *)

Crash(h) ==
  LET here == {t \in Turns : Host[t] = h} IN
  /\ crashes < MaxCrashes /\ crashes' = crashes + 1 /\ h \in up
  /\ up' = up \ {h}
  /\ pending' = [pending EXCEPT ![h] = {t \in Turns : status[t] = "running"}]
  /\ Leave(here)
  /\ handler' = [t \in Turns |-> IF t \in here /\ handler[t] # "none" THEN "over" ELSE handler[t]]
  /\ UNCHANGED <<rowVars, faults>>

\* RecoverIncompleteChatAgentTurns ends every turn it found running, also one
\* that another process still serves.
RecoverTurn(h, t) ==
  /\ t \in pending[h] /\ pending' = [pending EXCEPT ![h] = @ \ {t}]
  /\ EndTurnRow(t)
  /\ UNCHANGED <<goal, loop, runtimeVars, handler, up, crashes, faults>>

Serve(h) ==
  /\ h \notin up /\ pending[h] = {} /\ up' = up \union {h}
  /\ UNCHANGED <<rowVars, loop, runtimeVars, handler, pending, crashes, faults>>

-----------------------------------------------------------------------------
GoalStep(t) ==
  \/ GetGoal(t) \/ LoopEnds(t)
  \/ \E o \in Outcomes :
       \/ \E id \in Goals, n \in Limits : CreateGoal(t, id, n, o)
       \/ \E op \in Changes : UpdateGoal(t, op, o)
       \/ CancelGoal(t, o) \/ NextRound(t, o) \/ BlockAtLimit(t, o)

Next ==
  \/ \E t \in Turns : StartTurn(t) \/ GoalStep(t) \/ \E o \in Outcomes : FinishTurn(t, o)
  \/ \E h \in Hosts : Crash(h) \/ Serve(h) \/ \E t \in Turns : RecoverTurn(h, t)

Spec == Init /\ [][Next]_vars

-----------------------------------------------------------------------------
Phases == {"active", "paused", "blocked", "complete"}
GoalRow == [id : Goals \union {NoId}, revision : Nat, phase : Phases, rounds : Nat, limit : Nat]
Events == [type : {"turn.started", "turn.ended"} \union GoalEvents,
           id : Goals \union {NoId}, revision : Nat, round : Nat]

TypeOK ==
  /\ goal \in GoalRow /\ status \in [Turns -> {"none", "running", "ended"}]
  /\ log \in [Turns -> Seq(Events)]
  /\ loop \in [Turns -> {"none", "step", "wrapup", "over"}]
  /\ current \in [Turns -> GoalRow] /\ armed \in [Turns -> BOOLEAN]
  /\ directHuman \in [Turns -> BOOLEAN] /\ currentRound \in [Turns -> Nat]
  /\ handler \in [Turns -> {"none", "open", "retrying", "over"}]
  /\ \A t \in Turns : armed[t] => loop[t] = "step"
  /\ up \subseteq Hosts /\ pending \in [Hosts -> SUBSET Turns]
  /\ faults \in 0..MaxFaults /\ crashes \in 0..MaxCrashes

\* Event e is turn t's own writing of the goal revision that g has.
OwnWrite(e, g) ==
  e.type \in {"create", "edit", "resume"} /\ e.id = g.id /\ e.revision = g.revision

\* A round is started only by the turn whose person created, resumed or edited
\* the goal last: never after another turn, process or restart touched it
\* (goal_tool_loop.go get_goal, migration 097 expected revision and header).
RoundsOwned ==
  \A t \in Turns : \A j \in DOMAIN log[t] :
    log[t][j].type = "round" => \E i \in 1..(j - 1) : OwnWrite(log[t][i], log[t][j])

\* The loop is armed only for the revision its own turn wrote.
ArmedOwn ==
  \A t \in Turns : armed[t] =>
    \E i \in DOMAIN log[t] : OwnWrite(log[t][i], current[t])

\* The log of a turn starts with turn.started and is sealed by turn.ended, also
\* against a loop that outlives its handler and a recovery that ends the turn
\* of a process that still serves it.
LogSealed ==
  \A t \in Turns :
    /\ status[t] = "none" <=> log[t] = <<>>
    /\ \A i \in DOMAIN log[t] :
         /\ log[t][i].type = "turn.started" <=> i = 1
         /\ log[t][i].type = "turn.ended" <=> i = Len(log[t]) /\ status[t] = "ended"

At(p) == log[p[1]][p[2]]
Written(id, types) ==
  {p \in UNION {{u} \X DOMAIN log[u] : u \in Turns} : At(p).id = id /\ At(p).type \in types}

\* The logs together tell the history of a goal: each revision and each round
\* once, rounds counted from one up to the limit, and the row is the last of it.
GoalHistory ==
  \A id \in Goals :
    LET writes == Written(id, GoalEvents \ {"round"})
        rounds == Written(id, {"round"})
    IN /\ {At(p).revision : p \in writes} = 1..Cardinality(writes)
       /\ {At(p).round : p \in rounds} = 1..Cardinality(rounds)
       /\ goal.id = id => /\ goal.revision = Cardinality(writes)
                          /\ goal.rounds = Cardinality(rounds)
                          /\ goal.rounds <= goal.limit

\* After pause, complete, blocked or cancel the turn only wraps up: it touches
\* no goal again, whatever the model still calls (web_tool_loop.go wrap-up).
ConclusionFinal ==
  \A t \in Turns : \A i, j \in DOMAIN log[t] :
    i < j /\ log[t][i].type \in ConcludingOps => log[t][j].type \notin GoalEvents

\* Once a turn works by itself it takes no decision that is a person's, and
\* calls a goal blocked only in round BlockedAfter of that goal or later, or
\* after it has itself worked such a round.
PersonDecides ==
  \A t \in Turns : \A i, j \in DOMAIN log[t] :
    i < j /\ log[t][i].type = "round" =>
      /\ log[t][j].type \notin HumanOps
      /\ log[t][j].type = "blocked" =>
           \E k \in 1..j : log[t][k].type \in {"round", "blocked"} /\ log[t][k].round >= BlockedAfter
=============================================================================
