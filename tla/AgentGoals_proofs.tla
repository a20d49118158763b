------------------------- MODULE AgentGoals_proofs -------------------------
(***************************************************************************)
(* Safety of AgentGoals for any number of turns, processes and goals.      *)
(***************************************************************************)
EXTENDS AgentGoals, FiniteSetTheorems, TLAPS

-----------------------------------------------------------------------------
(* Types.                                                                    *)

LEMMA NoGoalType == NoGoal \in GoalRow
BY DEF NoGoal, GoalRow, Phases

LEMMA RowFields ==
  ASSUME NEW g \in GoalRow
  PROVE  /\ g = [id |-> g.id, revision |-> g.revision, phase |-> g.phase,
                rounds |-> g.rounds, limit |-> g.limit]
         /\ g.id \in Goals \union {NoId} /\ g.revision \in Nat /\ g.phase \in Phases
         /\ g.rounds \in Nat /\ g.limit \in Nat
BY DEF GoalRow

LEMMA RevisedType ==
  ASSUME TypeOK, NEW p \in Phases
  PROVE  Revised(p) \in GoalRow /\ Revised(p).id = goal.id
         /\ Revised(p).revision = goal.revision + 1 /\ Revised(p).rounds = goal.rounds
         /\ Revised(p).limit = goal.limit /\ Revised(p).phase = p
<1>1. goal \in GoalRow
  BY DEF TypeOK
<1> DEFINE r == goal.revision + 1
<1>2. r \in Nat
  BY <1>1, RowFields
<1>3. Revised(p) = [id |-> goal.id, revision |-> r, phase |-> p,
                    rounds |-> goal.rounds, limit |-> goal.limit]
  <2> DEFINE a == [goal EXCEPT !.revision = r]
  <2>1. a = [id |-> goal.id, revision |-> r, phase |-> goal.phase,
             rounds |-> goal.rounds, limit |-> goal.limit]
    BY <1>1, RowFields
  <2> HIDE DEF a, r
  <2>2. [a EXCEPT !.phase = p] = [id |-> goal.id, revision |-> r, phase |-> p,
                                  rounds |-> goal.rounds, limit |-> goal.limit]
    BY <2>1
  <2> QED
    BY <2>2 DEF Revised, a, r
<1> HIDE DEF r
<1>4. [id |-> goal.id, revision |-> r, phase |-> p,
       rounds |-> goal.rounds, limit |-> goal.limit] \in GoalRow
  BY <1>1, <1>2, RowFields DEF GoalRow
<1> QED
  BY <1>3, <1>4 DEF r

LEMMA ChangedType ==
  ASSUME TypeOK, NEW op \in Changes, NEW g \in Changed(op)
  PROVE  /\ g \in GoalRow /\ g.id = goal.id
         /\ g.revision = goal.revision + 1 /\ g.rounds = goal.rounds
         /\ g.limit = goal.limit \/ (g.limit \in Limits /\ g.limit >= goal.rounds)
<1>0. goal.phase \in Phases /\ {"paused", "active", "complete", "blocked"} \subseteq Phases
  BY DEF TypeOK, GoalRow, Phases
<1>1. CASE op = "edit"
  <2>1. PICK n \in {goal.limit} \union {m \in Limits : m >= goal.rounds} :
          g = [Revised(goal.phase) EXCEPT !.limit = n]
    BY <1>1 DEF Changed
  <2>2. n \in Nat
    BY LimitsAssumption DEF TypeOK, GoalRow
  <2>3. Revised(goal.phase) \in GoalRow /\ Revised(goal.phase).id = goal.id
         /\ Revised(goal.phase).revision = goal.revision + 1
         /\ Revised(goal.phase).rounds = goal.rounds
    BY RevisedType, <1>0
  <2> QED
    BY <2>1, <2>2, <2>3 DEF GoalRow
<1>2. CASE op # "edit"
  <2>1. \E p \in Phases : g = Revised(p)
    BY <1>0, <1>2 DEF Changed, Changes
  <2> QED
    BY <2>1, RevisedType
<1> QED
  BY <1>1, <1>2

LEMMA RoundType ==
  ASSUME NEW g \in GoalRow
  PROVE  LET r == [g EXCEPT !.rounds = g.rounds + 1] IN
         /\ r \in GoalRow /\ r.id = g.id /\ r.revision = g.revision
         /\ r.rounds = g.rounds + 1 /\ r.rounds \in Nat /\ r.limit = g.limit
<1> DEFINE n == g.rounds + 1
<1>1. n \in Nat
  BY RowFields
<1> HIDE DEF n
<1>2. [g EXCEPT !.rounds = n] = [id |-> g.id, revision |-> g.revision, phase |-> g.phase,
                                 rounds |-> n, limit |-> g.limit]
  BY RowFields
<1>3. [id |-> g.id, revision |-> g.revision, phase |-> g.phase,
       rounds |-> n, limit |-> g.limit] \in GoalRow
  BY <1>1, RowFields DEF GoalRow
<1> QED
  BY <1>1, <1>2, <1>3 DEF n

LEMMA EventType ==
  ASSUME NEW g \in GoalRow, NEW op \in {"turn.started", "turn.ended"} \union GoalEvents
  PROVE  /\ Event(op, g) \in Events /\ Event(op, g).type = op /\ Event(op, g).id = g.id
         /\ Event(op, g).revision = g.revision /\ Event(op, g).round = g.rounds
BY DEF Event, Events, GoalRow

LEMMA PlainType ==
  ASSUME NEW op \in {"turn.started", "turn.ended"}
  PROVE  Plain(op) \in Events /\ Plain(op).type = op
BY EventType, NoGoalType DEF Plain

LEMMA AppendType ==
  ASSUME TypeOK, NEW t \in Turns, NEW e \in Events, AppendEvent(t, e)
  PROVE  log' \in [Turns -> Seq(Events)]
BY DEF TypeOK, AppendEvent

RuntimeTypes ==
  /\ loop \in [Turns -> {"none", "step", "wrapup", "over"}]
  /\ current \in [Turns -> GoalRow] /\ armed \in [Turns -> BOOLEAN]
  /\ directHuman \in [Turns -> BOOLEAN] /\ currentRound \in [Turns -> Nat]
  /\ \A t \in Turns : armed[t] => loop[t] = "step"

LEMMA LeaveType ==
  ASSUME TypeOK, NEW T, Leave(T)
  PROVE  RuntimeTypes'
BY NoGoalType DEF TypeOK, Leave, RuntimeTypes

LEMMA ToolResultType ==
  ASSUME TypeOK, NEW t \in Turns, loop[t] = "step", NEW op, NEW g \in GoalRow, NEW o,
         ToolResult(t, op, g, o)
  PROVE  RuntimeTypes' /\ faults' \in 0..MaxFaults
<1>1. faults' \in 0..MaxFaults
  BY BoundsAssumption DEF TypeOK, ToolResult, Call
<1>2. CASE o = "done"
  <2>1. Keep(t, op, g) /\ UNCHANGED <<directHuman, currentRound>>
        /\ loop' = [loop EXCEPT ![t] = IF op \in ConcludingOps THEN "wrapup" ELSE @]
    BY <1>2 DEF ToolResult
  <2>2. current' \in [Turns -> GoalRow] /\ armed' \in [Turns -> BOOLEAN]
    BY <2>1 DEF Keep, TypeOK
  <2>3. loop' \in [Turns -> {"none", "step", "wrapup", "over"}]
    BY <2>1 DEF TypeOK
  <2>4. ASSUME NEW u \in Turns, armed'[u] PROVE loop'[u] = "step"
    <3>1. CASE u = t
      BY <2>1, <2>4, <3>1 DEF Keep, TypeOK, ConcludingOps
    <3>2. CASE u # t
      BY <2>1, <2>4, <3>2 DEF Keep, TypeOK
    <3> QED BY <3>1, <3>2
  <2> QED
    BY <1>1, <2>1, <2>2, <2>3, <2>4 DEF RuntimeTypes, TypeOK
<1>3. CASE o # "done"
  BY <1>1, <1>3, LeaveType DEF ToolResult
<1> QED
  BY <1>2, <1>3

-----------------------------------------------------------------------------
LEMMA InitType == Init => TypeOK
BY NoGoalType, BoundsAssumption DEF Init, TypeOK

LEMMA NextType == TypeOK /\ [Next]_vars => TypeOK'
<1> SUFFICES ASSUME TypeOK, [Next]_vars PROVE TypeOK'
  OBVIOUS
<1> USE BoundsAssumption
<1>1. ASSUME NEW t \in Turns, StartTurn(t) PROVE TypeOK'
  <2>1. Plain("turn.started") \in Events
    BY PlainType
  <2>2. log' \in [Turns -> Seq(Events)]
    BY <1>1, <2>1 DEF TypeOK, StartTurn, StartTurnRow
  <2> QED
    BY <1>1, <2>2
    DEF TypeOK, StartTurn, StartTurnRow, runtimeVars, hostVars
<1>2. ASSUME NEW t \in Turns, GetGoal(t) PROVE TypeOK'
  BY <1>2 DEF TypeOK, GetGoal, toolFrame, hostVars
<1>3. ASSUME NEW t \in Turns, LoopEnds(t) PROVE TypeOK'
  <2>1. RuntimeTypes'
    BY <1>3, LeaveType DEF LoopEnds
  <2> QED
    BY <1>3, <2>1 DEF TypeOK, RuntimeTypes, LoopEnds, rowVars, hostVars
<1>4. ASSUME NEW t \in Turns, NEW o \in Outcomes, NEW id \in Goals, NEW n \in Limits,
             CreateGoal(t, id, n, o)
      PROVE TypeOK'
  <2> DEFINE g == [id |-> id, revision |-> 1, phase |-> "active", rounds |-> 0, limit |-> n]
  <2>1. g \in GoalRow
    BY LimitsAssumption DEF GoalRow, Phases
  <2>2. Event("create", g) \in Events
    BY <2>1, EventType DEF GoalEvents, HumanOps
  <2>3. loop[t] = "step" /\ WriteGoal(t, "create", g, o) /\ ToolResult(t, "create", g, o)
        /\ UNCHANGED toolFrame
    BY <1>4 DEF CreateGoal
  <2> HIDE DEF g
  <2>4. goal' \in GoalRow /\ log' \in [Turns -> Seq(Events)]
    BY <2>1, <2>2, <2>3, AppendType DEF WriteGoal, TypeOK
  <2>5. RuntimeTypes' /\ faults' \in 0..MaxFaults
    BY <2>1, <2>3, ToolResultType
  <2> QED
    BY <2>3, <2>4, <2>5 DEF TypeOK, RuntimeTypes, toolFrame, hostVars
<1>5. ASSUME NEW t \in Turns, NEW o \in Outcomes, NEW op \in Changes, UpdateGoal(t, op, o)
      PROVE TypeOK'
  <2>1. PICK g \in Changed(op) : WriteGoal(t, op, g, o) /\ ToolResult(t, op, g, o)
    BY <1>5 DEF UpdateGoal
  <2>2. g \in GoalRow
    BY ChangedType
  <2>3. Event(op, g) \in Events
    BY <2>2, EventType DEF GoalEvents
  <2>4. goal' \in GoalRow /\ log' \in [Turns -> Seq(Events)]
    BY <2>1, <2>2, <2>3, AppendType DEF WriteGoal, TypeOK
  <2>5. RuntimeTypes' /\ faults' \in 0..MaxFaults
    BY <1>5, <2>1, <2>2, ToolResultType DEF UpdateGoal
  <2> QED
    BY <1>5, <2>4, <2>5 DEF TypeOK, RuntimeTypes, UpdateGoal, toolFrame, hostVars
<1>6. ASSUME NEW t \in Turns, NEW o \in Outcomes, CancelGoal(t, o) PROVE TypeOK'
  <2>1. Revised("complete") \in GoalRow
    BY RevisedType DEF Phases
  <2>2. Event("cancel", Revised("complete")) \in Events
    BY <2>1, EventType DEF GoalEvents, HumanOps
  <2>3. goal' \in GoalRow /\ log' \in [Turns -> Seq(Events)]
    BY <1>6, <2>2, AppendType, NoGoalType DEF CancelGoal, TypeOK
  <2>4. RuntimeTypes' /\ faults' \in 0..MaxFaults
    BY <1>6, NoGoalType, ToolResultType DEF CancelGoal
  <2> QED
    BY <1>6, <2>3, <2>4 DEF TypeOK, RuntimeTypes, CancelGoal, toolFrame, hostVars
<1>7. ASSUME NEW t \in Turns, NEW o \in Outcomes, NextRound(t, o) PROVE TypeOK'
  <2> DEFINE g == [goal EXCEPT !.rounds = goal.rounds + 1]
  <2>1. g \in GoalRow /\ g.rounds \in Nat
    BY RoundType DEF TypeOK
  <2>2. Event("round", g) \in Events
    BY <2>1, EventType DEF GoalEvents
  <2>3. goal' \in GoalRow /\ log' \in [Turns -> Seq(Events)]
    <3>1. WriteGoal(t, "round", g, o)
      BY <1>7 DEF NextRound
    <3> QED
      BY <2>1, <2>2, <3>1, AppendType DEF WriteGoal, TypeOK
  <2>4. RuntimeTypes'
    <3>1. CASE o = "done"
      <4>1. current' = [current EXCEPT ![t] = g]
            /\ directHuman' = [directHuman EXCEPT ![t] = FALSE]
            /\ currentRound' = [currentRound EXCEPT ![t] = g.rounds]
            /\ UNCHANGED <<loop, armed>>
        BY <1>7, <3>1 DEF NextRound
      <4> HIDE DEF g
      <4> QED
        BY <2>1, <4>1 DEF TypeOK, RuntimeTypes
    <3>2. CASE o # "done"
      BY <1>7, <3>2, LeaveType DEF NextRound
    <3> QED
      BY <3>1, <3>2
  <2>5. faults' \in 0..MaxFaults
    BY <1>7 DEF NextRound, Call, TypeOK
  <2> QED
    BY <1>7, <2>3, <2>4, <2>5 DEF TypeOK, RuntimeTypes, NextRound, toolFrame, hostVars
<1>8. ASSUME NEW t \in Turns, NEW o \in Outcomes, BlockAtLimit(t, o) PROVE TypeOK'
  <2> DEFINE g == Revised("blocked")
  <2>1. g \in GoalRow
    BY RevisedType DEF Phases
  <2>2. Event("blocked", g) \in Events
    BY <2>1, EventType DEF GoalEvents, Changes
  <2>3. goal' \in GoalRow /\ log' \in [Turns -> Seq(Events)]
    <3>1. WriteGoal(t, "blocked", g, o)
      BY <1>8 DEF BlockAtLimit
    <3> QED
      BY <2>1, <2>2, <3>1, AppendType DEF WriteGoal, TypeOK
  <2>4. RuntimeTypes'
    <3>1. CASE o = "done"
      <4>1. current' = [current EXCEPT ![t] = g] /\ armed' = [armed EXCEPT ![t] = FALSE]
            /\ directHuman' = [directHuman EXCEPT ![t] = FALSE]
            /\ loop' = [loop EXCEPT ![t] = "wrapup"] /\ UNCHANGED currentRound
        BY <1>8, <3>1 DEF BlockAtLimit
      <4> HIDE DEF g
      <4> QED
        BY <2>1, <4>1 DEF TypeOK, RuntimeTypes
    <3>2. CASE o # "done"
      BY <1>8, <3>2, LeaveType DEF BlockAtLimit
    <3> QED
      BY <3>1, <3>2
  <2>5. faults' \in 0..MaxFaults
    BY <1>8 DEF BlockAtLimit, Call, TypeOK
  <2> QED
    BY <1>8, <2>3, <2>4, <2>5 DEF TypeOK, RuntimeTypes, BlockAtLimit, toolFrame, hostVars
<1>9. ASSUME NEW t \in Turns, EndTurnRow(t)
      PROVE  log' \in [Turns -> Seq(Events)] /\ status' \in [Turns -> {"none", "running", "ended"}]
  <2>1. Plain("turn.ended") \in Events
    BY PlainType
  <2> QED
    BY <1>9, <2>1, AppendType DEF EndTurnRow, TypeOK
<1>10. ASSUME NEW t \in Turns, NEW o \in Outcomes, FinishTurn(t, o) PROVE TypeOK'
  <2>1. log' \in [Turns -> Seq(Events)] /\ status' \in [Turns -> {"none", "running", "ended"}]
    BY <1>9, <1>10 DEF FinishTurn, TypeOK
  <2>2. faults' \in 0..MaxFaults
    BY <1>10 DEF FinishTurn, Call, TypeOK
  <2>3. handler' \in [Turns -> {"none", "open", "retrying", "over"}]
    BY <1>10 DEF FinishTurn, TypeOK
  <2> QED
    BY <1>10, <2>1, <2>2, <2>3 DEF FinishTurn, TypeOK, runtimeVars, hostVars
<1>11. ASSUME NEW h \in Hosts, Crash(h) PROVE TypeOK'
  <2>1. RuntimeTypes'
    BY <1>11, LeaveType DEF Crash
  <2>2. handler' \in [Turns -> {"none", "open", "retrying", "over"}]
    BY <1>11 DEF Crash, TypeOK
  <2>3. up' \subseteq Hosts /\ pending' \in [Hosts -> SUBSET Turns] /\ crashes' \in 0..MaxCrashes
    BY <1>11 DEF Crash, TypeOK
  <2> QED
    BY <1>11, <2>1, <2>2, <2>3 DEF Crash, TypeOK, RuntimeTypes, rowVars
<1>12. ASSUME NEW h \in Hosts, NEW t \in Turns, RecoverTurn(h, t) PROVE TypeOK'
  <2>1. log' \in [Turns -> Seq(Events)] /\ status' \in [Turns -> {"none", "running", "ended"}]
    BY <1>9, <1>12 DEF RecoverTurn
  <2>2. pending' \in [Hosts -> SUBSET Turns]
    BY <1>12 DEF RecoverTurn, TypeOK
  <2> QED
    BY <1>12, <2>1, <2>2 DEF RecoverTurn, TypeOK, runtimeVars
<1>13. ASSUME NEW h \in Hosts, Serve(h) PROVE TypeOK'
  BY <1>13 DEF Serve, TypeOK, rowVars, runtimeVars
<1>14. CASE UNCHANGED vars
  BY <1>14 DEF vars, TypeOK, rowVars, runtimeVars, hostVars
<1> QED
  BY <1>1, <1>2, <1>3, <1>4, <1>5, <1>6, <1>7, <1>8, <1>10, <1>11, <1>12, <1>13, <1>14
  DEF Next, GoalStep

\* Every variable keeps its type, and a loop is armed only while it takes steps
\* (chatAgentGoalToolRuntime, goal_tool_loop.go).
THEOREM GoalsTypeCorrect == Spec => []TypeOK
BY InitType, NextType, PTL DEF Spec

-----------------------------------------------------------------------------
(* What a step may do to the row, to the logs and to what a loop knows: the  *)
(* proofs below look at a step through these four alone.                     *)

\* The goal was written about before, in the log of some turn.
Known(id) == \E u \in Turns : \E i \in DOMAIN log[u] : log[u][i].id = id

RowInv ==
  /\ goal.id = NoId => goal = NoGoal
  /\ goal.id # NoId => Known(goal.id) /\ goal.limit >= BlockedAfter

\* The loop's copy is an earlier state of the row, or of a row that is gone.
CurrentInv ==
  \A t \in Turns :
    /\ current[t].id = NoId => current[t] = NoGoal
    /\ current[t].id # NoId => Known(current[t].id) /\ current[t].limit >= BlockedAfter
    /\ current[t].id # NoId /\ current[t].id = goal.id =>
         /\ current[t].revision <= goal.revision
         /\ current[t].revision = goal.revision => current[t].rounds <= goal.rounds

\* The goal that a turn's write leaves behind, and its event.
GoalWrite(t, e) ==
  /\ loop[t] = "step" /\ e.type \in GoalEvents
  /\ e.type \in ConcludingOps => loop'[t] # "step"
  /\ e.type \in HumanOps => directHuman[t]
  /\ e.type = "round" => /\ armed[t] /\ e.id = current[t].id /\ e.revision = current[t].revision
                         /\ loop'[t] = "step" => ~directHuman'[t]
  /\ e.type = "blocked" =>
       directHuman[t] \/ currentRound[t] >= BlockedAfter \/ e.round >= BlockedAfter
  /\ e.type \in {"create", "edit", "resume"} => e.id # NoId
  /\ goal' # NoGoal => e.id = goal'.id

Logged(t, e) == log' = [log EXCEPT ![t] = Append(@, e)]

LogStep ==
  \/ UNCHANGED <<log, status>>
  \/ \E t \in Turns : status[t] = "none" /\ StartTurnRow(t)
  \/ \E t \in Turns, e \in Events :
       status[t] = "running" /\ Logged(t, e) /\ UNCHANGED status /\ GoalWrite(t, e)
  \/ \E t \in Turns, e \in Events :
       /\ e.type = "turn.ended" /\ status[t] = "running" /\ Logged(t, e)
       /\ status' = [status EXCEPT ![t] = "ended"]

\* The row is kept, deleted, revised, counted or new.
RowStep ==
  \/ UNCHANGED goal
  \/ goal' = NoGoal
  \/ /\ goal' # goal /\ goal'.id # NoId /\ goal'.limit >= BlockedAfter
     /\ \E t \in Turns, e \in Events : Logged(t, e) /\ e.id = goal'.id
     /\ \/ goal'.id = goal.id /\ goal'.revision = goal.revision + 1
        \/ goal'.id = goal.id /\ goal'.revision = goal.revision /\ goal'.rounds = goal.rounds + 1
        \/ ~Known(goal'.id)

CurrentStep == \A u \in Turns : current'[u] \in {current[u], goal', NoGoal}

\* An armed loop stays armed for the revision it has, or is armed by what it wrote.
ArmedStep ==
  \A u \in Turns : armed'[u] =>
    \/ /\ armed[u]
       /\ current[u] # NoGoal =>
            current'[u].id = current[u].id /\ current'[u].revision = current[u].revision
    \/ \E e \in Events : Logged(u, e) /\ OwnWrite(e, current'[u])

LoopStep ==
  \A u \in Turns :
    /\ loop'[u] = "step" => loop[u] = "step" \/ (status[u] = "none" /\ StartTurnRow(u))
    /\ loop'[u] = "step" /\ directHuman'[u] => directHuman[u] \/ loop[u] # "step"
    /\ currentRound'[u] # 0 =>
         \/ currentRound'[u] = currentRound[u]
         \/ \E e \in Events : Logged(u, e) /\ e.type = "round" /\ e.round = currentRound'[u]

Steps == LogStep /\ RowStep /\ CurrentStep /\ ArmedStep /\ LoopStep

GoalsInv == TypeOK /\ RowInv /\ CurrentInv

LEMMA LeaveSteps ==
  ASSUME TypeOK, NEW T, Leave(T)
  PROVE  /\ \A u \in Turns : current'[u] \in {current[u], NoGoal}
         /\ ArmedStep /\ LoopStep
         /\ \A u \in T \intersect Turns : loop'[u] # "step"
BY DEF TypeOK, Leave, ArmedStep, LoopStep

LEMMA WriteGoalLogged ==
  ASSUME TypeOK, NEW t \in Turns, status[t] = "running", NEW op, NEW g, NEW o,
         WriteGoal(t, op, g, o)
  PROVE  \/ UNCHANGED <<goal, log>> /\ o = "refused"
         \/ goal' = g /\ Logged(t, Event(op, g))
<1>1. CASE o = "refused"
  BY <1>1 DEF WriteGoal, Applied
<1>2. CASE o # "refused"
  BY <1>2 DEF WriteGoal, Applied, AppendEvent, Logged
<1> QED
  BY <1>1, <1>2

LEMMA ToolResultSteps ==
  ASSUME TypeOK, NEW t \in Turns, loop[t] = "step", NEW op \in HumanOps \union Changes,
         NEW o \in Outcomes, NEW g \in GoalRow, ToolResult(t, op, g, o),
         o = "done" => goal' = g,
         NEW e \in Events, e.type = op, o = "done" => Logged(t, e),
         op \in {"create", "edit", "resume"} => e.id = g.id /\ e.revision = g.revision
  PROVE  CurrentStep /\ ArmedStep /\ LoopStep /\ (op \in ConcludingOps => loop'[t] # "step")
<1>1. CASE o = "done"
  <2>1. Keep(t, op, g) /\ UNCHANGED <<directHuman, currentRound>>
        /\ loop' = [loop EXCEPT ![t] = IF op \in ConcludingOps THEN "wrapup" ELSE @]
    BY <1>1 DEF ToolResult
  <2>2. CurrentStep
    BY <1>1, <2>1 DEF CurrentStep, Keep, TypeOK
  <2>3. ASSUME NEW u \in Turns, armed'[u]
        PROVE  \/ armed[u] /\ current'[u] = current[u]
               \/ Logged(u, e) /\ OwnWrite(e, current'[u])
    <3>1. CASE u # t
      BY <2>1, <2>3, <3>1 DEF Keep, TypeOK
    <3>2. CASE u = t
      <4>1. current'[t] = g /\ op \notin ConcludingOps
        BY <2>1, <2>3, <3>2 DEF Keep, TypeOK, ConcludingOps
      <4>2. op \in {"create", "edit", "resume"}
        BY <4>1 DEF HumanOps, Changes, ConcludingOps
      <4> QED
        BY <1>1, <3>2, <4>1, <4>2 DEF OwnWrite
    <3> QED
      BY <3>1, <3>2
  <2>4. ArmedStep
    BY <2>3 DEF ArmedStep
  <2>5. LoopStep /\ (op \in ConcludingOps => loop'[t] # "step")
    BY <2>1 DEF LoopStep, TypeOK
  <2> QED
    BY <2>2, <2>4, <2>5
<1>2. CASE o # "done"
  BY <1>2, LeaveSteps DEF ToolResult, CurrentStep
<1> QED
  BY <1>1, <1>2

LEMMA CreateSteps ==
  ASSUME GoalsInv, NEW t \in Turns, NEW o \in Outcomes, NEW id \in Goals, NEW n \in Limits,
         CreateGoal(t, id, n, o)
  PROVE  Steps
<1> DEFINE g == [id |-> id, revision |-> 1, phase |-> "active", rounds |-> 0, limit |-> n]
           e == Event("create", g)
<1>1. /\ g \in GoalRow /\ g.id = id /\ id # NoId /\ g.limit >= BlockedAfter /\ g.rounds = 0
      /\ g.revision = 1
  BY LimitsAssumption, GoalsAssumption DEF GoalRow, Phases
<1>2. loop[t] = "step" /\ directHuman[t] /\ status[t] = "running" /\ UNCHANGED status
      /\ WriteGoal(t, "create", g, o) /\ ToolResult(t, "create", g, o) /\ ~Known(id)
  BY <1>1 DEF CreateGoal, toolFrame, Known
<1> HIDE DEF g
<1>3. e \in Events /\ e.type = "create" /\ e.id = g.id /\ e.revision = g.revision
  BY <1>1, EventType DEF GoalEvents, HumanOps
<1> HIDE DEF e
<1>4. \/ UNCHANGED <<goal, log>> /\ o = "refused"
      \/ goal' = g /\ Logged(t, e)
  BY <1>2, WriteGoalLogged DEF GoalsInv, e
<1>5. CurrentStep /\ ArmedStep /\ LoopStep
  BY <1>1, <1>2, <1>3, <1>4, ToolResultSteps DEF GoalsInv, HumanOps
<1>6. LogStep
  BY <1>1, <1>2, <1>3, <1>4 DEF LogStep, GoalWrite, GoalEvents, HumanOps, ConcludingOps
<1>7. RowStep
  BY <1>1, <1>2, <1>3, <1>4 DEF RowStep
<1> QED
  BY <1>5, <1>6, <1>7 DEF Steps

LEMMA UpdateSteps ==
  ASSUME GoalsInv, NEW t \in Turns, NEW o \in Outcomes, NEW op \in Changes, UpdateGoal(t, op, o)
  PROVE  Steps
<1>1. PICK g \in Changed(op) : WriteGoal(t, op, g, o) /\ ToolResult(t, op, g, o)
  BY DEF UpdateGoal
<1>2. /\ loop[t] = "step" /\ May(t, op) /\ status[t] = "running" /\ UNCHANGED status
      /\ goal # NoGoal
  BY DEF UpdateGoal, toolFrame
<1>3. /\ g \in GoalRow /\ g.id = goal.id /\ g.id # NoId /\ g.limit >= BlockedAfter
      /\ g.revision = goal.revision + 1 /\ goal.revision \in Nat
  BY <1>2, ChangedType, LimitsAssumption DEF GoalsInv, RowInv, TypeOK, GoalRow
<1> DEFINE e == Event(op, g)
<1>4. e \in Events /\ e.type = op /\ e.id = g.id /\ e.revision = g.revision
  BY <1>3, EventType DEF GoalEvents
<1> HIDE DEF e
<1>5. \/ UNCHANGED <<goal, log>> /\ o = "refused"
      \/ goal' = g /\ Logged(t, e)
  BY <1>1, <1>2, WriteGoalLogged DEF GoalsInv, e
<1>6. CurrentStep /\ ArmedStep /\ LoopStep /\ (op \in ConcludingOps => loop'[t] # "step")
  BY <1>1, <1>2, <1>3, <1>4, <1>5, ToolResultSteps DEF GoalsInv
<1>7. LogStep
  <2>1. CASE UNCHANGED log
    BY <1>2, <2>1 DEF LogStep
  <2>2. CASE goal' = g /\ Logged(t, e)
    <3>1. GoalWrite(t, e)
      BY <1>2, <1>3, <1>4, <1>6, <2>2 DEF GoalWrite, GoalEvents, Changes, May
    <3> QED
      BY <1>2, <1>4, <2>2, <3>1 DEF LogStep
  <2> QED
    BY <1>5, <2>1, <2>2
<1>8. RowStep
  BY <1>3, <1>4, <1>5 DEF RowStep
<1> QED
  BY <1>6, <1>7, <1>8 DEF Steps

LEMMA CancelSteps ==
  ASSUME GoalsInv, NEW t \in Turns, NEW o \in Outcomes, CancelGoal(t, o)
  PROVE  Steps
<1> DEFINE e == Event("cancel", Revised("complete"))
<1>1. e \in Events /\ e.type = "cancel"
  BY RevisedType, EventType DEF GoalsInv, GoalEvents, HumanOps, Phases
<1> HIDE DEF e
<1>2. /\ loop[t] = "step" /\ directHuman[t] /\ status[t] = "running" /\ UNCHANGED status
      /\ ToolResult(t, "cancel", NoGoal, o)
  BY DEF CancelGoal, toolFrame, May, HumanOps
<1>3. \/ UNCHANGED <<goal, log>> /\ o = "refused"
      \/ goal' = NoGoal /\ Logged(t, e)
  <2>1. CASE o = "refused"
    BY <2>1 DEF CancelGoal, Applied
  <2>2. CASE o # "refused"
    BY <1>2, <2>2 DEF CancelGoal, Applied, AppendEvent, Logged, e
  <2> QED
    BY <2>1, <2>2
<1>4. CurrentStep /\ ArmedStep /\ LoopStep /\ loop'[t] # "step"
  BY <1>1, <1>2, <1>3, NoGoalType, ToolResultSteps DEF GoalsInv, HumanOps, ConcludingOps
<1>5. LogStep
  <2>1. CASE UNCHANGED log
    BY <1>2, <2>1 DEF LogStep
  <2>2. CASE goal' = NoGoal /\ Logged(t, e)
    <3>1. GoalWrite(t, e)
      BY <1>1, <1>2, <1>4, <2>2 DEF GoalWrite, GoalEvents, HumanOps
    <3> QED
      BY <1>1, <1>2, <2>2, <3>1 DEF LogStep
  <2> QED
    BY <1>3, <2>1, <2>2
<1>6. RowStep
  BY <1>3 DEF RowStep
<1> QED
  BY <1>4, <1>5, <1>6 DEF Steps

LEMMA RoundSteps ==
  ASSUME GoalsInv, NEW t \in Turns, NEW o \in Outcomes, NextRound(t, o)
  PROVE  Steps
<1> DEFINE g == [goal EXCEPT !.rounds = goal.rounds + 1]
           e == Event("round", g)
<1>1. /\ loop[t] = "step" /\ armed[t] /\ status[t] = "running" /\ UNCHANGED status
      /\ goal # NoGoal /\ current[t].id = goal.id /\ current[t].revision = goal.revision
      /\ WriteGoal(t, "round", g, o)
  BY DEF NextRound, Work, RoundValid, Same, toolFrame
<1>2. \/ o # "done" /\ Leave({t})
      \/ /\ o = "done"
         /\ current' = [current EXCEPT ![t] = g]
         /\ directHuman' = [directHuman EXCEPT ![t] = FALSE]
         /\ currentRound' = [currentRound EXCEPT ![t] = g.rounds]
         /\ UNCHANGED <<loop, armed>>
  BY DEF NextRound
<1>3. /\ g \in GoalRow /\ g.id = goal.id /\ g.id # NoId /\ g.limit >= BlockedAfter
      /\ g.revision = goal.revision /\ g.rounds = goal.rounds + 1 /\ goal.rounds \in Nat
  BY <1>1, RoundType, RowFields DEF GoalsInv, RowInv, TypeOK
<1> HIDE DEF g
<1>4. /\ e \in Events /\ e.type = "round" /\ e.id = g.id /\ e.revision = g.revision
      /\ e.round = g.rounds
  BY <1>3, EventType DEF GoalEvents
<1> HIDE DEF e
<1>5. \/ UNCHANGED <<goal, log>> /\ o = "refused"
      \/ goal' = g /\ Logged(t, e)
  BY <1>1, WriteGoalLogged DEF GoalsInv, e
<1>6. CurrentStep
  <2>1. CASE o = "done"
    BY <1>2, <1>5, <2>1 DEF CurrentStep, GoalsInv, TypeOK
  <2>2. CASE o # "done"
    BY <1>2, <2>2, LeaveSteps DEF CurrentStep, GoalsInv
  <2> QED
    BY <2>1, <2>2
<1>7. ArmedStep /\ LoopStep
  <2>1. CASE o = "done"
    <3>1. /\ current \in [Turns -> GoalRow] /\ directHuman \in [Turns -> BOOLEAN]
          /\ currentRound \in [Turns -> Nat]
      BY DEF GoalsInv, TypeOK
    <3>2. /\ armed' = armed /\ loop' = loop /\ current'[t] = g /\ currentRound'[t] = g.rounds /\ ~directHuman'[t]
          /\ \A u \in Turns \ {t} : /\ current'[u] = current[u] /\ directHuman'[u] = directHuman[u]
                                   /\ currentRound'[u] = currentRound[u]
      BY <1>2, <2>1, <3>1
    <3> HIDE <1>2
    <3>3. g.id = current[t].id /\ g.revision = current[t].revision
      BY <1>1, <1>3
    <3>4. ArmedStep
      BY <3>2, <3>3 DEF ArmedStep
    <3>5. goal' = g /\ Logged(t, e)
      BY <1>5, <2>1
    <3>6. LoopStep
      BY <1>4, <3>2, <3>5 DEF LoopStep
    <3> QED
      BY <3>4, <3>6
  <2>2. CASE o # "done"
    BY <1>2, <2>2, LeaveSteps DEF GoalsInv
  <2> QED
    BY <2>1, <2>2
<1>8. LogStep
  <2>1. CASE UNCHANGED log
    BY <1>1, <2>1 DEF LogStep
  <2>2. CASE goal' = g /\ Logged(t, e)
    <3>1. loop'[t] = "step" => ~directHuman'[t]
      BY <1>2, LeaveSteps DEF GoalsInv, TypeOK
    <3>2. GoalWrite(t, e)
      BY <1>1, <1>3, <1>4, <2>2, <3>1 DEF GoalWrite, GoalEvents, HumanOps, ConcludingOps
    <3> QED
      BY <1>1, <1>4, <2>2, <3>2 DEF LogStep
  <2> QED
    BY <1>5, <2>1, <2>2
<1>9. RowStep
  <2>1. CASE UNCHANGED goal
    BY <2>1 DEF RowStep
  <2>2. CASE goal' = g /\ Logged(t, e)
    <3>1. goal' # goal
      BY <1>3, <2>2
    <3> QED
      BY <1>3, <1>4, <2>2, <3>1 DEF RowStep
  <2> QED
    BY <1>5, <2>1, <2>2
<1> QED
  BY <1>6, <1>7, <1>8, <1>9 DEF Steps

LEMMA LimitSteps ==
  ASSUME GoalsInv, NEW t \in Turns, NEW o \in Outcomes, BlockAtLimit(t, o)
  PROVE  Steps
<1> DEFINE g == Revised("blocked")
           e == Event("blocked", g)
<1>1. /\ loop[t] = "step" /\ status[t] = "running" /\ UNCHANGED status
      /\ goal # NoGoal /\ current[t].id = goal.id /\ current[t].revision = goal.revision
      /\ current[t].rounds >= current[t].limit
      /\ WriteGoal(t, "blocked", g, o)
  BY DEF BlockAtLimit, Same, toolFrame
<1>2. \/ o # "done" /\ Leave({t})
      \/ /\ o = "done"
         /\ current' = [current EXCEPT ![t] = g] /\ armed' = [armed EXCEPT ![t] = FALSE]
         /\ directHuman' = [directHuman EXCEPT ![t] = FALSE]
         /\ loop' = [loop EXCEPT ![t] = "wrapup"] /\ UNCHANGED currentRound
  BY DEF BlockAtLimit
<1>3. /\ g \in GoalRow /\ g.id = goal.id /\ g.id # NoId /\ g.limit >= BlockedAfter
      /\ g.revision = goal.revision + 1 /\ g.rounds = goal.rounds /\ goal.revision \in Nat
  BY <1>1, RevisedType, RowFields DEF GoalsInv, RowInv, TypeOK, Phases
<1>4. goal.rounds >= BlockedAfter
  <2>1. /\ current[t].limit >= BlockedAfter /\ current[t].rounds <= goal.rounds
        /\ current[t].limit \in Nat /\ current[t].rounds \in Nat /\ goal.rounds \in Nat
    BY <1>1, <1>3, RowFields DEF GoalsInv, CurrentInv, TypeOK
  <2> QED
    BY <1>1, <2>1, LimitsAssumption
<1> HIDE DEF g
<1>5. /\ e \in Events /\ e.type = "blocked" /\ e.id = g.id /\ e.round = g.rounds
  BY <1>3, EventType DEF GoalEvents, Changes
<1> HIDE DEF e
<1>6. \/ UNCHANGED <<goal, log>> /\ o = "refused"
      \/ goal' = g /\ Logged(t, e)
  BY <1>1, WriteGoalLogged DEF GoalsInv, e
<1>7. CurrentStep /\ ArmedStep /\ LoopStep /\ loop'[t] # "step"
  <2>1. CASE o = "done"
    <3>1. CurrentStep
      BY <1>2, <1>6, <2>1 DEF CurrentStep, GoalsInv, TypeOK
    <3>2. /\ current \in [Turns -> GoalRow] /\ armed \in [Turns -> BOOLEAN]
          /\ directHuman \in [Turns -> BOOLEAN] /\ loop \in [Turns -> {"none", "step", "wrapup", "over"}]
      BY DEF GoalsInv, TypeOK
    <3>3. /\ ~armed'[t] /\ loop'[t] = "wrapup" /\ currentRound' = currentRound
          /\ \A u \in Turns \ {t} : /\ current'[u] = current[u] /\ armed'[u] = armed[u]
                                   /\ loop'[u] = loop[u] /\ directHuman'[u] = directHuman[u]
      BY <1>2, <2>1, <3>2
    <3>4. ArmedStep
      BY <3>3 DEF ArmedStep
    <3>5. LoopStep /\ loop'[t] # "step"
      BY <3>3 DEF LoopStep
    <3> QED
      BY <3>1, <3>4, <3>5
  <2>2. CASE o # "done"
    BY <1>2, <2>2, LeaveSteps DEF GoalsInv, CurrentStep
  <2> QED
    BY <2>1, <2>2
<1>8. LogStep
  <2>1. CASE UNCHANGED log
    BY <1>1, <2>1 DEF LogStep
  <2>2. CASE goal' = g /\ Logged(t, e)
    <3>1. GoalWrite(t, e)
      BY <1>1, <1>3, <1>4, <1>5, <1>7, <2>2
      DEF GoalWrite, GoalEvents, HumanOps, Changes
    <3> QED
      BY <1>1, <1>5, <2>2, <3>1 DEF LogStep
  <2> QED
    BY <1>6, <2>1, <2>2
<1>9. RowStep
  <2>1. CASE UNCHANGED goal
    BY <2>1 DEF RowStep
  <2>2. CASE goal' = g /\ Logged(t, e)
    <3>1. goal' # goal
      BY <1>3, <2>2
    <3> QED
      BY <1>3, <1>5, <2>2, <3>1 DEF RowStep
  <2> QED
    BY <1>6, <2>1, <2>2
<1> QED
  BY <1>7, <1>8, <1>9 DEF Steps

LEMMA QuietSteps ==
  ASSUME GoalsInv, UNCHANGED <<goal, log, status>>, CurrentStep, ArmedStep, LoopStep
  PROVE  Steps
BY DEF Steps, LogStep, RowStep

LEMMA EndSteps ==
  ASSUME GoalsInv, NEW t \in Turns, EndTurnRow(t), UNCHANGED <<goal, loop, runtimeVars>>
  PROVE  Steps
<1>1. CurrentStep /\ ArmedStep /\ LoopStep
  BY DEF CurrentStep, ArmedStep, LoopStep, runtimeVars
<1>2. RowStep
  BY DEF RowStep
<1>3. LogStep
  <2>1. Plain("turn.ended") \in Events /\ Plain("turn.ended").type = "turn.ended"
    BY PlainType
  <2>2. CASE status[t] = "running"
    BY <2>1, <2>2 DEF EndTurnRow, AppendEvent, LogStep, Logged
  <2>3. CASE status[t] # "running"
    BY <2>3 DEF EndTurnRow, AppendEvent, LogStep
  <2> QED
    BY <2>2, <2>3
<1> QED
  BY <1>1, <1>2, <1>3 DEF Steps

LEMMA NextSteps == GoalsInv /\ [Next]_vars => Steps
<1> SUFFICES ASSUME GoalsInv, [Next]_vars PROVE Steps
  OBVIOUS
<1>1. ASSUME NEW t \in Turns, StartTurn(t) PROVE Steps
  <2>1. CurrentStep /\ ArmedStep /\ RowStep
    BY <1>1 DEF StartTurn, runtimeVars, CurrentStep, ArmedStep, RowStep
  <2>2. LoopStep
    BY <1>1 DEF StartTurn, runtimeVars, LoopStep, GoalsInv, TypeOK
  <2>3. LogStep
    BY <1>1 DEF StartTurn, LogStep
  <2> QED
    BY <2>1, <2>2, <2>3 DEF Steps
<1>2. ASSUME NEW t \in Turns, GetGoal(t) PROVE Steps
  <2>1. CurrentStep
    BY <1>2 DEF GetGoal, CurrentStep, GoalsInv, TypeOK
  <2>2. ArmedStep
    BY <1>2 DEF GetGoal, ArmedStep, Same, GoalsInv, TypeOK
  <2>3. LoopStep
    BY <1>2 DEF GetGoal, LoopStep
  <2> QED
    BY <1>2, <2>1, <2>2, <2>3, QuietSteps DEF GetGoal, toolFrame
<1>3. ASSUME NEW t \in Turns, LoopEnds(t) PROVE Steps
  BY <1>3, LeaveSteps, QuietSteps DEF LoopEnds, rowVars, GoalsInv, CurrentStep
<1>4. ASSUME NEW t \in Turns, NEW o \in Outcomes, FinishTurn(t, o) PROVE Steps
  <2>1. CASE Applied(o)
    BY <1>4, <2>1, EndSteps DEF FinishTurn, runtimeVars
  <2>2. CASE ~Applied(o)
    BY <1>4, <2>2, QuietSteps
    DEF FinishTurn, runtimeVars, CurrentStep, ArmedStep, LoopStep
  <2> QED
    BY <2>1, <2>2
<1>5. ASSUME NEW h \in Hosts, Crash(h) PROVE Steps
  BY <1>5, LeaveSteps, QuietSteps DEF Crash, rowVars, GoalsInv, CurrentStep
<1>6. ASSUME NEW h \in Hosts, NEW t \in Turns, RecoverTurn(h, t) PROVE Steps
  BY <1>6, EndSteps DEF RecoverTurn
<1>7. ASSUME UNCHANGED <<rowVars, loop, runtimeVars>> PROVE Steps
  BY <1>7, QuietSteps DEF rowVars, runtimeVars, CurrentStep, ArmedStep, LoopStep
<1> QED
  BY <1>1, <1>2, <1>3, <1>4, <1>5, <1>6, <1>7,
     CreateSteps, UpdateSteps, CancelSteps, RoundSteps, LimitSteps
  DEF Next, GoalStep, Serve, vars

-----------------------------------------------------------------------------
(* The log of one turn.                                                      *)

LEMMA TurnLog ==
  ASSUME TypeOK, LogSealed, LogStep, NEW u \in Turns
  PROVE  \/ log'[u] = log[u] /\ status'[u] = status[u]
         \/ /\ status[u] = "none" /\ status'[u] = "running" /\ log[u] = <<>>
            /\ log'[u] = <<Plain("turn.started")>>
         \/ \E e \in Events : /\ status[u] = "running" /\ status'[u] = "running"
                              /\ log'[u] = Append(log[u], e) /\ GoalWrite(u, e)
         \/ \E e \in Events : /\ status[u] = "running" /\ status'[u] = "ended"
                              /\ log'[u] = Append(log[u], e) /\ e.type = "turn.ended"
<1>1. CASE UNCHANGED <<log, status>>
  BY <1>1
<1>2. ASSUME NEW t \in Turns, status[t] = "none", StartTurnRow(t)
      PROVE  \/ log'[u] = log[u] /\ status'[u] = status[u]
             \/ /\ status[u] = "none" /\ status'[u] = "running" /\ log[u] = <<>>
                /\ log'[u] = <<Plain("turn.started")>>
  BY <1>2 DEF StartTurnRow, TypeOK, LogSealed
<1>3. ASSUME NEW t \in Turns, NEW e \in Events, status[t] = "running", Logged(t, e),
             UNCHANGED status, GoalWrite(t, e)
      PROVE  \/ log'[u] = log[u] /\ status'[u] = status[u]
             \/ /\ status[u] = "running" /\ status'[u] = "running"
                /\ log'[u] = Append(log[u], e) /\ GoalWrite(u, e)
  BY <1>3 DEF Logged, TypeOK
<1>4. ASSUME NEW t \in Turns, NEW e \in Events, e.type = "turn.ended", status[t] = "running",
             Logged(t, e), status' = [status EXCEPT ![t] = "ended"]
      PROVE  \/ log'[u] = log[u] /\ status'[u] = status[u]
             \/ /\ status[u] = "running" /\ status'[u] = "ended"
                /\ log'[u] = Append(log[u], e) /\ e.type = "turn.ended"
  BY <1>4 DEF Logged, TypeOK
<1> QED
  BY <1>1, <1>2, <1>3, <1>4 DEF LogStep

LEMMA Appended ==
  ASSUME NEW s \in Seq(Events), NEW e \in Events
  PROVE  /\ Append(s, e) \in Seq(Events) /\ Append(s, e) # <<>>
         /\ Len(Append(s, e)) = Len(s) + 1 /\ Len(s) \in Nat
         /\ DOMAIN s = 1..Len(s) /\ DOMAIN Append(s, e) = 1..(Len(s) + 1)
         /\ \A i \in DOMAIN s : i \in DOMAIN Append(s, e) /\ Append(s, e)[i] = s[i]
         /\ Append(s, e)[Len(s) + 1] = e
         /\ \A i \in DOMAIN Append(s, e) : i \in DOMAIN s \/ i = Len(s) + 1
OBVIOUS

LEMMA LogGrows ==
  ASSUME TypeOK, LogSealed, LogStep, NEW u \in Turns, NEW i \in DOMAIN log[u]
  PROVE  i \in DOMAIN log'[u] /\ log'[u][i] = log[u][i]
<1>1. log[u] \in Seq(Events)
  BY DEF TypeOK
<1> QED
  BY <1>1, TurnLog, Appended

LEMMA SealedNext ==
  ASSUME TypeOK, LogSealed, LogStep
  PROVE  LogSealed'
<1> SUFFICES ASSUME NEW u \in Turns
             PROVE  /\ status'[u] = "none" <=> log'[u] = <<>>
                    /\ \A i \in DOMAIN log'[u] :
                         /\ log'[u][i].type = "turn.started" <=> i = 1
                         /\ log'[u][i].type = "turn.ended" <=>
                              i = Len(log'[u]) /\ status'[u] = "ended"
  BY DEF LogSealed
<1>1. log[u] \in Seq(Events) /\ LogSealed!(u)
  BY DEF TypeOK, LogSealed
<1>2. CASE log'[u] = log[u] /\ status'[u] = status[u]
  BY <1>1, <1>2
<1>3. CASE /\ status[u] = "none" /\ status'[u] = "running" /\ log[u] = <<>>
           /\ log'[u] = <<Plain("turn.started")>>
  BY <1>3, PlainType
<1>4. ASSUME NEW e \in Events, status[u] = "running", log'[u] = Append(log[u], e),
             status'[u] = IF e.type = "turn.ended" THEN "ended" ELSE "running",
             e.type # "turn.started"
      PROVE  /\ status'[u] = "none" <=> log'[u] = <<>>
             /\ \A i \in DOMAIN log'[u] :
                  /\ log'[u][i].type = "turn.started" <=> i = 1
                  /\ log'[u][i].type = "turn.ended" <=>
                       i = Len(log'[u]) /\ status'[u] = "ended"
  <2>1. log[u] # <<>> /\ 1 \in DOMAIN log[u]
    BY <1>1, <1>4
  <2>2. ASSUME NEW i \in DOMAIN log[u]
        PROVE  log[u][i].type # "turn.ended" /\ (log[u][i].type = "turn.started" <=> i = 1)
    BY <1>1, <1>4
  <2> QED
    BY <1>1, <1>4, <2>1, <2>2, Appended
<1>5. ASSUME NEW e \in Events, GoalWrite(u, e) PROVE e.type \notin {"turn.started", "turn.ended"}
  BY <1>5 DEF GoalWrite, GoalEvents, HumanOps, Changes
<1> QED
  BY <1>2, <1>3, <1>4, <1>5, TurnLog

-----------------------------------------------------------------------------
(* The row and the loop's copy of it.                                        *)

LEMMA LoggedLog ==
  ASSUME TypeOK, NEW t \in Turns, NEW e \in Events, Logged(t, e)
  PROVE  /\ log[t] \in Seq(Events) /\ log'[t] = Append(log[t], e)
         /\ Len(log[t]) + 1 \in DOMAIN log'[t] /\ log'[t][Len(log[t]) + 1] = e
<1>1. log[t] \in Seq(Events) /\ log'[t] = Append(log[t], e)
  BY DEF TypeOK, Logged
<1> QED
  BY <1>1, Appended

LEMMA KnownGrows ==
  ASSUME TypeOK, LogSealed, LogStep, NEW id, Known(id)
  PROVE  Known(id)'
BY LogGrows DEF Known

LEMMA RowNext ==
  ASSUME GoalsInv, LogSealed, Steps
  PROVE  RowInv'
<1>1. CASE UNCHANGED goal
  BY <1>1, KnownGrows DEF GoalsInv, RowInv, Steps
<1>2. CASE goal' = NoGoal
  BY <1>2 DEF RowInv, NoGoal
<1>3. ASSUME goal'.id # NoId, goal'.limit >= BlockedAfter,
             NEW t \in Turns, NEW e \in Events, Logged(t, e), e.id = goal'.id
      PROVE  RowInv'
  <2>1. Known(goal.id)'
    BY <1>3, LoggedLog DEF Known, GoalsInv
  <2> QED
    BY <1>3, <2>1 DEF RowInv
<1> QED
  BY <1>1, <1>2, <1>3 DEF Steps, RowStep

LEMMA CurrentNext ==
  ASSUME GoalsInv, LogSealed, Steps, TypeOK', RowInv'
  PROVE  CurrentInv'
<1> SUFFICES ASSUME NEW u \in Turns
             PROVE  /\ current'[u].id = NoId => current'[u] = NoGoal
                    /\ current'[u].id # NoId =>
                         Known(current[u].id)' /\ current'[u].limit >= BlockedAfter
                    /\ current'[u].id # NoId /\ current'[u].id = goal'.id =>
                         /\ current'[u].revision <= goal'.revision
                         /\ current'[u].revision = goal'.revision =>
                              current'[u].rounds <= goal'.rounds
  BY DEF CurrentInv
<1>0. goal \in GoalRow /\ goal' \in GoalRow /\ current[u] \in GoalRow /\ current'[u] \in GoalRow
  BY DEF GoalsInv, TypeOK
<1>1. CASE current'[u] = NoGoal
  BY <1>1 DEF NoGoal
<1>2. CASE current'[u] = goal'
  BY <1>0, <1>2, RowFields DEF RowInv
<1>3. CASE current'[u] = current[u]
  <2>1. CurrentInv!(u)
    BY DEF GoalsInv, CurrentInv
  <2>2. Known(current[u].id) => Known(current[u].id)'
    BY <1>3, KnownGrows DEF GoalsInv, Steps
  <2>3. ASSUME current[u].id # NoId, current[u].id = goal'.id
        PROVE  /\ current[u].revision <= goal'.revision
               /\ current[u].revision = goal'.revision => current[u].rounds <= goal'.rounds
    <3>1. goal' # NoGoal /\ Known(goal'.id)
      BY <2>1, <2>3 DEF NoGoal
    <3>2. CASE UNCHANGED goal
      BY <2>1, <2>3, <3>2
    <3>3. CASE goal'.id = goal.id /\ goal'.revision = goal.revision + 1
      BY <1>0, <2>1, <2>3, <3>3, RowFields
    <3>4. CASE /\ goal'.id = goal.id /\ goal'.revision = goal.revision
               /\ goal'.rounds = goal.rounds + 1
      BY <1>0, <2>1, <2>3, <3>4, RowFields
    <3> QED
      BY <3>1, <3>2, <3>3, <3>4 DEF Steps, RowStep
  <2> QED
    BY <1>3, <2>1, <2>2, <2>3
<1> QED
  BY <1>1, <1>2, <1>3 DEF Steps, CurrentStep

-----------------------------------------------------------------------------
(* What the log of a turn tells about its loop, and the properties.          *)

LogIds ==
  \A t \in Turns : \A i \in DOMAIN log[t] :
    log[t][i].type \in {"create", "edit", "resume"} => log[t][i].id # NoId

LoopLog ==
  \A t \in Turns :
    /\ loop[t] = "step" => \A i \in DOMAIN log[t] : log[t][i].type \notin ConcludingOps
    /\ loop[t] = "step" /\ directHuman[t] => \A i \in DOMAIN log[t] : log[t][i].type # "round"
    /\ currentRound[t] # 0 =>
         \E i \in DOMAIN log[t] : log[t][i].type = "round" /\ log[t][i].round = currentRound[t]

LEMMA NewEntry ==
  ASSUME TypeOK, LogSealed, LogStep, NEW u \in Turns, NEW j \in DOMAIN log'[u],
         log'[u][j].type \in GoalEvents
  PROVE  \/ j \in DOMAIN log[u] /\ log'[u][j] = log[u][j]
         \/ /\ j = Len(log[u]) + 1 /\ log'[u][j] \in Events /\ GoalWrite(u, log'[u][j])
            /\ \A i \in DOMAIN log'[u] : i < j => i \in DOMAIN log[u] /\ log'[u][i] = log[u][i]
            /\ \A i \in DOMAIN log[u] : i < j /\ i \in DOMAIN log'[u] /\ log'[u][i] = log[u][i]
<1>0. log[u] \in Seq(Events) /\ {"turn.started", "turn.ended"} \intersect GoalEvents = {}
  BY DEF TypeOK, GoalEvents, HumanOps, Changes
<1>1. CASE log'[u] = log[u]
  BY <1>1
<1>2. CASE log'[u] = <<Plain("turn.started")>>
  BY <1>0, <1>2, PlainType
<1>3. ASSUME NEW e \in Events, log'[u] = Append(log[u], e), GoalWrite(u, e) \/ e.type = "turn.ended"
      PROVE  \/ j \in DOMAIN log[u] /\ log'[u][j] = log[u][j]
             \/ /\ j = Len(log[u]) + 1 /\ log'[u][j] = e /\ GoalWrite(u, e)
                /\ \A i \in DOMAIN log'[u] : i < j => i \in DOMAIN log[u] /\ log'[u][i] = log[u][i]
                /\ \A i \in DOMAIN log[u] : i < j /\ i \in DOMAIN log'[u] /\ log'[u][i] = log[u][i]
  <2>1. /\ DOMAIN log[u] = 1..Len(log[u]) /\ Len(log[u]) \in Nat
        /\ DOMAIN log'[u] = 1..(Len(log[u]) + 1) /\ log'[u][Len(log[u]) + 1] = e
        /\ \A i \in DOMAIN log[u] : log'[u][i] = log[u][i]
    BY <1>0, <1>3, Appended
  <2>2. CASE j \in DOMAIN log[u]
    BY <2>1, <2>2
  <2>3. CASE j = Len(log[u]) + 1
    <3>1. GoalWrite(u, e)
      BY <1>0, <1>3, <2>1, <2>3
    <3> QED
      BY <2>1, <2>3, <3>1
  <2> QED
    BY <2>1, <2>2, <2>3
<1> QED
  BY <1>1, <1>2, <1>3, TurnLog

LEMMA LogIdsNext ==
  ASSUME TypeOK, LogSealed, LogStep, LogIds
  PROVE  LogIds'
<1> SUFFICES ASSUME NEW u \in Turns, NEW j \in DOMAIN log'[u],
                    log'[u][j].type \in {"create", "edit", "resume"}
             PROVE  log'[u][j].id # NoId
  BY DEF LogIds
<1> QED
  BY NewEntry DEF LogIds, GoalWrite, GoalEvents, HumanOps

LEMMA LoopLogNext ==
  ASSUME TypeOK, LogSealed, LogStep, LoopStep, LoopLog
  PROVE  LoopLog'
<1> SUFFICES ASSUME NEW u \in Turns
             PROVE  /\ loop'[u] = "step" =>
                         \A i \in DOMAIN log'[u] : log'[u][i].type \notin ConcludingOps
                    /\ loop'[u] = "step" /\ directHuman'[u] =>
                         \A i \in DOMAIN log'[u] : log'[u][i].type # "round"
                    /\ currentRound'[u] # 0 =>
                         \E i \in DOMAIN log'[u] :
                           log'[u][i].type = "round" /\ log'[u][i].round = currentRound'[u]
  BY DEF LoopLog
<1>0. ConcludingOps \subseteq GoalEvents /\ "round" \in GoalEvents
  BY DEF ConcludingOps, GoalEvents, HumanOps, Changes
<1>1. ASSUME status[u] = "none", StartTurnRow(u), NEW i \in DOMAIN log'[u]
      PROVE  log'[u][i].type \notin GoalEvents
  <2>1. log'[u] = <<Plain("turn.started")>>
    BY <1>1 DEF StartTurnRow, TypeOK
  <2> QED
    BY <1>1, <2>1, PlainType DEF GoalEvents, HumanOps, Changes
<1>2. ASSUME loop'[u] = "step", NEW i \in DOMAIN log'[u]
      PROVE  log'[u][i].type \notin ConcludingOps
  <2>1. CASE loop[u] = "step"
    BY <1>0, <1>2, <2>1, NewEntry DEF LoopLog, GoalWrite
  <2>2. CASE loop[u] # "step"
    BY <1>0, <1>1, <1>2, <2>2 DEF LoopStep
  <2> QED
    BY <2>1, <2>2
<1>3. ASSUME loop'[u] = "step", directHuman'[u], NEW i \in DOMAIN log'[u]
      PROVE  log'[u][i].type # "round"
  <2>1. CASE loop[u] = "step"
    <3>1. directHuman[u]
      BY <1>3, <2>1 DEF LoopStep
    <3> QED
      BY <1>0, <1>3, <2>1, <3>1, NewEntry DEF LoopLog, GoalWrite
  <2>2. CASE loop[u] # "step"
    BY <1>0, <1>1, <1>3, <2>2 DEF LoopStep
  <2> QED
    BY <2>1, <2>2
<1>4. ASSUME currentRound'[u] # 0
      PROVE  \E i \in DOMAIN log'[u] :
               log'[u][i].type = "round" /\ log'[u][i].round = currentRound'[u]
  <2>1. CASE currentRound'[u] = currentRound[u]
    BY <1>4, <2>1, LogGrows DEF LoopLog
  <2>2. ASSUME NEW e \in Events, Logged(u, e), e.type = "round", e.round = currentRound'[u]
        PROVE  \E i \in DOMAIN log'[u] :
                 log'[u][i].type = "round" /\ log'[u][i].round = currentRound'[u]
    BY <2>2, LoggedLog
  <2> QED
    BY <1>4, <2>1, <2>2 DEF LoopStep
<1> QED
  BY <1>2, <1>3, <1>4

LEMMA ArmedNext ==
  ASSUME TypeOK, LogSealed, LogStep, ArmedStep, LogIds, ArmedOwn
  PROVE  ArmedOwn'
<1> SUFFICES ASSUME NEW u \in Turns, armed'[u]
             PROVE  \E i \in DOMAIN log'[u] : OwnWrite(log'[u][i], current'[u])
  BY DEF ArmedOwn, OwnWrite
<1>1. CASE /\ armed[u]
           /\ current[u] # NoGoal =>
                current'[u].id = current[u].id /\ current'[u].revision = current[u].revision
  <2>1. PICK i \in DOMAIN log[u] : OwnWrite(log[u][i], current[u])
    BY <1>1 DEF ArmedOwn
  <2>2. current[u] # NoGoal
    BY <2>1 DEF OwnWrite, LogIds, NoGoal
  <2> QED
    BY <1>1, <2>1, <2>2, LogGrows DEF OwnWrite
<1>2. ASSUME NEW e \in Events, Logged(u, e), OwnWrite(e, current'[u])
      PROVE  \E i \in DOMAIN log'[u] : OwnWrite(log'[u][i], current'[u])
  BY <1>2, LoggedLog
<1> QED
  BY <1>1, <1>2 DEF ArmedStep

LEMMA RoundsNext ==
  ASSUME TypeOK, LogSealed, LogStep, ArmedOwn, RoundsOwned
  PROVE  RoundsOwned'
<1> SUFFICES ASSUME NEW u \in Turns, NEW j \in DOMAIN log'[u], log'[u][j].type = "round"
             PROVE  \E i \in 1..(j - 1) : OwnWrite(log'[u][i], log'[u][j])
  BY DEF RoundsOwned, OwnWrite
<1>0. log[u] \in Seq(Events) /\ "round" \in GoalEvents
  BY DEF TypeOK, GoalEvents
<1>1. CASE j \in DOMAIN log[u] /\ log'[u][j] = log[u][j]
  <2>1. PICK i \in 1..(j - 1) : OwnWrite(log[u][i], log[u][j])
    BY <1>1 DEF RoundsOwned
  <2>2. i \in DOMAIN log[u]
    BY <1>0, <1>1
  <2> QED
    BY <1>1, <2>1, <2>2, LogGrows
<1>2. CASE /\ j = Len(log[u]) + 1 /\ GoalWrite(u, log'[u][j])
           /\ \A i \in DOMAIN log[u] : i < j /\ log'[u][i] = log[u][i]
  <2>1. PICK i \in DOMAIN log[u] : OwnWrite(log[u][i], current[u])
    BY <1>2 DEF GoalWrite, ArmedOwn
  <2>2. OwnWrite(log'[u][i], log'[u][j])
    BY <1>2, <2>1 DEF GoalWrite, OwnWrite
  <2>3. i \in 1..(j - 1)
    BY <1>0, <1>2
  <2> QED
    BY <2>2, <2>3
<1> QED
  BY <1>0, <1>1, <1>2, NewEntry

LEMMA ConclusionNext ==
  ASSUME TypeOK, LogSealed, LogStep, LoopLog, ConclusionFinal
  PROVE  ConclusionFinal'
<1> SUFFICES ASSUME NEW u \in Turns, NEW i \in DOMAIN log'[u], NEW j \in DOMAIN log'[u], i < j,
                    log'[u][i].type \in ConcludingOps, log'[u][j].type \in GoalEvents
             PROVE  FALSE
  BY DEF ConclusionFinal
<1>0. ConcludingOps \subseteq GoalEvents /\ DOMAIN log[u] = 1..Len(log[u]) /\ Len(log[u]) \in Nat
  BY DEF TypeOK, ConcludingOps, GoalEvents, HumanOps, Changes
<1>1. i \in DOMAIN log[u] /\ log'[u][i] = log[u][i]
  <2>1. CASE j \in DOMAIN log[u]
    BY <1>0, <2>1, NewEntry
  <2>2. CASE j \notin DOMAIN log[u]
    BY <2>2, NewEntry
  <2> QED
    BY <2>1, <2>2
<1>2. CASE j \in DOMAIN log[u] /\ log'[u][j] = log[u][j]
  BY <1>1, <1>2 DEF ConclusionFinal
<1>3. CASE GoalWrite(u, log'[u][j])
  BY <1>1, <1>3 DEF GoalWrite, LoopLog
<1> QED
  BY <1>2, <1>3, NewEntry

LEMMA PersonNext ==
  ASSUME TypeOK, LogSealed, LogStep, LoopLog, PersonDecides
  PROVE  PersonDecides'
<1> DEFINE Late(l, j) == \E k \in 1..j : /\ l[k].type \in {"round", "blocked"}
                                         /\ l[k].round >= BlockedAfter
<1> SUFFICES ASSUME NEW u \in Turns, NEW i \in DOMAIN log'[u], NEW j \in DOMAIN log'[u], i < j,
                    log'[u][i].type = "round"
             PROVE  /\ log'[u][j].type \notin HumanOps
                    /\ log'[u][j].type = "blocked" => Late(log'[u], j)
  BY DEF PersonDecides
<1> HIDE DEF Late
<1>0. /\ "round" \in GoalEvents /\ "blocked" \in GoalEvents /\ HumanOps \subseteq GoalEvents
      /\ DOMAIN log[u] = 1..Len(log[u]) /\ Len(log[u]) \in Nat
  BY DEF TypeOK, GoalEvents, HumanOps, Changes
<1>1. CASE log'[u][j].type \notin GoalEvents
  BY <1>0, <1>1
<1>2. CASE j \in DOMAIN log[u] /\ log'[u][j] = log[u][j]
  <2>1. i \in DOMAIN log[u] /\ log'[u][i] = log[u][i]
    BY <1>0, <1>2, NewEntry
  <2>2. /\ log[u][j].type \notin HumanOps
        /\ log[u][j].type = "blocked" => Late(log[u], j)
    BY <1>2, <2>1 DEF PersonDecides, Late
  <2>3. Late(log[u], j) => Late(log'[u], j)
    BY <1>0, <1>2, LogGrows DEF Late
  <2> QED
    BY <1>2, <2>2, <2>3
<1>3. CASE /\ j = Len(log[u]) + 1 /\ log'[u][j] \in Events /\ GoalWrite(u, log'[u][j])
           /\ \A k \in DOMAIN log'[u] : k < j => k \in DOMAIN log[u] /\ log'[u][k] = log[u][k]
           /\ \A k \in DOMAIN log[u] : k < j /\ log'[u][k] = log[u][k]
  <2>1. loop[u] = "step" /\ ~directHuman[u]
    BY <1>3 DEF GoalWrite, LoopLog
  <2>2. log'[u][j].type \notin HumanOps
    BY <1>3, <2>1 DEF GoalWrite
  <2>3. ASSUME log'[u][j].type = "blocked" PROVE Late(log'[u], j)
    <3>1. log'[u][j].round \in Nat /\ j \in 1..j /\ BlockedAfter \in Nat
      BY <1>0, <1>3, LimitsAssumption DEF Events
    <3>2. CASE log'[u][j].round >= BlockedAfter
      BY <2>3, <3>1, <3>2 DEF Late
    <3>3. CASE currentRound[u] >= BlockedAfter /\ currentRound[u] # 0
      <4>1. PICK k \in DOMAIN log[u] :
              log[u][k].type = "round" /\ log[u][k].round = currentRound[u]
        BY <3>3 DEF LoopLog
      <4>2. k \in 1..j /\ log'[u][k] = log[u][k]
        BY <1>0, <1>3
      <4> QED
        BY <3>3, <4>1, <4>2 DEF Late
    <3>4. currentRound[u] >= BlockedAfter \/ log'[u][j].round >= BlockedAfter
      BY <1>3, <2>1, <2>3 DEF GoalWrite
    <3>5. currentRound[u] = 0 /\ currentRound[u] >= BlockedAfter => log'[u][j].round >= BlockedAfter
      BY <3>1
    <3> QED
      BY <3>2, <3>3, <3>4, <3>5
  <2> QED
    BY <2>2, <2>3
<1> QED
  BY <1>1, <1>2, <1>3, NewEntry

-----------------------------------------------------------------------------
(* The history of a goal in the logs of all turns.                           *)

\* What a goal event says, against the row before and after the statement.
Writing(e) ==
  \/ /\ e.type = "create" /\ ~Known(e.id) /\ e.id # NoId /\ e.revision = 1
     /\ goal'.id = e.id /\ goal'.revision = 1 /\ goal'.rounds = 0
  \/ /\ e.type \in GoalEvents \ {"round"} /\ e.id = goal.id /\ e.revision = goal.revision + 1
     /\ \/ goal' = NoGoal
        \/ /\ goal'.id = goal.id /\ goal'.revision = goal.revision + 1
           /\ goal'.rounds = goal.rounds
           /\ goal'.limit = goal.limit \/ goal'.limit >= goal.rounds
  \/ /\ e.type = "round" /\ e.id = goal.id /\ e.round = goal.rounds + 1
     /\ goal.rounds < goal.limit
     /\ goal'.id = goal.id /\ goal'.revision = goal.revision
     /\ goal'.rounds = goal.rounds + 1 /\ goal'.limit = goal.limit

HistoryStep ==
  \/ UNCHANGED <<goal, log>>
  \/ UNCHANGED goal /\ \E t \in Turns : status[t] = "none" /\ StartTurnRow(t)
  \/ UNCHANGED goal /\ \E t \in Turns, e \in Events : e.type = "turn.ended" /\ Logged(t, e)
  \/ \E t \in Turns, e \in Events : Logged(t, e) /\ Writing(e)

LEMMA CreateHistory ==
  ASSUME GoalsInv, NEW t \in Turns, NEW o \in Outcomes, NEW id \in Goals, NEW n \in Limits,
         CreateGoal(t, id, n, o)
  PROVE  HistoryStep
<1> DEFINE g == [id |-> id, revision |-> 1, phase |-> "active", rounds |-> 0, limit |-> n]
           e == Event("create", g)
<1>1. /\ g \in GoalRow /\ g.id = id /\ id # NoId /\ g.rounds = 0 /\ g.revision = 1
  BY LimitsAssumption, GoalsAssumption DEF GoalRow, Phases
<1>2. status[t] = "running" /\ WriteGoal(t, "create", g, o) /\ ~Known(id)
  BY <1>1 DEF CreateGoal, Known
<1> HIDE DEF g
<1>3. e \in Events /\ e.type = "create" /\ e.id = id /\ e.revision = 1
  BY <1>1, EventType DEF GoalEvents, HumanOps
<1> HIDE DEF e
<1>4. UNCHANGED <<goal, log>> \/ (goal' = g /\ Logged(t, e))
  BY <1>2, WriteGoalLogged DEF GoalsInv, e
<1> QED
  BY <1>1, <1>2, <1>3, <1>4 DEF HistoryStep, Writing

LEMMA UpdateHistory ==
  ASSUME GoalsInv, NEW t \in Turns, NEW o \in Outcomes, NEW op \in Changes, UpdateGoal(t, op, o)
  PROVE  HistoryStep
<1>1. PICK g \in Changed(op) : WriteGoal(t, op, g, o) /\ status[t] = "running"
  BY DEF UpdateGoal
<1>2. /\ g \in GoalRow /\ g.id = goal.id /\ g.revision = goal.revision + 1
      /\ g.rounds = goal.rounds
      /\ g.limit = goal.limit \/ g.limit >= goal.rounds
  BY ChangedType DEF GoalsInv
<1> DEFINE e == Event(op, g)
<1>3. e \in Events /\ e.type = op /\ e.id = g.id /\ e.revision = g.revision
  BY <1>2, EventType DEF GoalEvents
<1> HIDE DEF e
<1>4. UNCHANGED <<goal, log>> \/ (goal' = g /\ Logged(t, e))
  BY <1>1, WriteGoalLogged DEF GoalsInv, e
<1>5. op \in GoalEvents \ {"round"}
  BY DEF GoalEvents, Changes
<1> QED
  BY <1>2, <1>3, <1>4, <1>5 DEF HistoryStep, Writing

LEMMA CancelHistory ==
  ASSUME GoalsInv, NEW t \in Turns, NEW o \in Outcomes, CancelGoal(t, o)
  PROVE  HistoryStep
<1> DEFINE e == Event("cancel", Revised("complete"))
<1>1. /\ e \in Events /\ e.type = "cancel" /\ e.id = goal.id
      /\ e.revision = goal.revision + 1
  BY RevisedType, EventType DEF GoalsInv, GoalEvents, HumanOps, Phases
<1> HIDE DEF e
<1>2. UNCHANGED <<goal, log>> \/ (goal' = NoGoal /\ Logged(t, e))
  <2>1. CASE ~Applied(o)
    BY <2>1 DEF CancelGoal
  <2>2. CASE Applied(o)
    BY <2>2 DEF CancelGoal, AppendEvent, Logged, e
  <2> QED
    BY <2>1, <2>2
<1>3. "cancel" \in GoalEvents \ {"round"}
  BY DEF GoalEvents, HumanOps
<1> QED
  BY <1>1, <1>2, <1>3 DEF HistoryStep, Writing

LEMMA RoundHistory ==
  ASSUME GoalsInv, NEW t \in Turns, NEW o \in Outcomes, NextRound(t, o)
  PROVE  HistoryStep
<1> DEFINE g == [goal EXCEPT !.rounds = goal.rounds + 1]
           e == Event("round", g)
<1>1. status[t] = "running" /\ goal.rounds < goal.limit /\ WriteGoal(t, "round", g, o)
  BY DEF NextRound, RoundValid
<1>2. /\ g \in GoalRow /\ g.id = goal.id /\ g.revision = goal.revision
      /\ g.rounds = goal.rounds + 1 /\ g.limit = goal.limit
  BY RoundType DEF GoalsInv, TypeOK
<1> HIDE DEF g
<1>3. e \in Events /\ e.type = "round" /\ e.id = g.id /\ e.round = g.rounds
  BY <1>2, EventType DEF GoalEvents
<1> HIDE DEF e
<1>4. UNCHANGED <<goal, log>> \/ (goal' = g /\ Logged(t, e))
  BY <1>1, WriteGoalLogged DEF GoalsInv, e
<1> QED
  BY <1>1, <1>2, <1>3, <1>4 DEF HistoryStep, Writing

LEMMA LimitHistory ==
  ASSUME GoalsInv, NEW t \in Turns, NEW o \in Outcomes, BlockAtLimit(t, o)
  PROVE  HistoryStep
<1> DEFINE g == Revised("blocked")
           e == Event("blocked", g)
<1>1. status[t] = "running" /\ WriteGoal(t, "blocked", g, o)
  BY DEF BlockAtLimit
<1>2. /\ g \in GoalRow /\ g.id = goal.id /\ g.revision = goal.revision + 1
      /\ g.rounds = goal.rounds /\ g.limit = goal.limit
  BY RevisedType DEF GoalsInv, Phases
<1> HIDE DEF g
<1>3. e \in Events /\ e.type = "blocked" /\ e.id = g.id /\ e.revision = g.revision
  BY <1>2, EventType DEF GoalEvents, Changes
<1> HIDE DEF e
<1>4. UNCHANGED <<goal, log>> \/ (goal' = g /\ Logged(t, e))
  BY <1>1, WriteGoalLogged DEF GoalsInv, e
<1>5. "blocked" \in GoalEvents \ {"round"}
  BY DEF GoalEvents, Changes
<1> QED
  BY <1>2, <1>3, <1>4, <1>5 DEF HistoryStep, Writing

LEMMA EndHistory ==
  ASSUME NEW t \in Turns, EndTurnRow(t), UNCHANGED goal
  PROVE  HistoryStep
<1>1. Plain("turn.ended") \in Events /\ Plain("turn.ended").type = "turn.ended"
  BY PlainType
<1> QED
  BY <1>1 DEF EndTurnRow, AppendEvent, HistoryStep, Logged

LEMMA NextHistory == GoalsInv /\ [Next]_vars => HistoryStep
<1> SUFFICES ASSUME GoalsInv, [Next]_vars PROVE HistoryStep
  OBVIOUS
<1>1. ASSUME UNCHANGED <<goal, log>> PROVE HistoryStep
  BY <1>1 DEF HistoryStep
<1>2. ASSUME NEW t \in Turns, StartTurn(t) PROVE HistoryStep
  BY <1>2 DEF StartTurn, HistoryStep
<1>3. ASSUME NEW t \in Turns, GetGoal(t) \/ LoopEnds(t) PROVE HistoryStep
  BY <1>1, <1>3 DEF GetGoal, LoopEnds, rowVars
<1>4. ASSUME NEW t \in Turns, NEW o \in Outcomes, FinishTurn(t, o) PROVE HistoryStep
  BY <1>1, <1>4, EndHistory DEF FinishTurn
<1>5. ASSUME NEW h \in Hosts, Crash(h) \/ Serve(h) PROVE HistoryStep
  BY <1>1, <1>5 DEF Crash, Serve, rowVars
<1>6. ASSUME NEW h \in Hosts, NEW t \in Turns, RecoverTurn(h, t) PROVE HistoryStep
  BY <1>6, EndHistory DEF RecoverTurn
<1>7. CASE UNCHANGED vars
  BY <1>1, <1>7 DEF vars, rowVars
<1> QED
  BY <1>2, <1>3, <1>4, <1>5, <1>6, <1>7,
     CreateHistory, UpdateHistory, CancelHistory, RoundHistory, LimitHistory
  DEF Next, GoalStep

\* The positions of an entry that the logs of all turns hold of a goal.
LEMMA WrittenAt ==
  ASSUME NEW id, NEW types, NEW p
  PROVE  p \in Written(id, types) <=>
           \E u \in Turns : \E i \in DOMAIN log[u] :
             p = <<u, i>> /\ log[u][i].id = id /\ log[u][i].type \in types
BY DEF Written, At

LEMMA WrittenAtNext ==
  ASSUME NEW id, NEW types, NEW p
  PROVE  p \in Written(id, types)' <=>
           \E u \in Turns : \E i \in DOMAIN log'[u] :
             p = <<u, i>> /\ log'[u][i].id = id /\ log'[u][i].type \in types
BY DEF Written, At

SameEntries(S) == \A p \in S : At(p)' = At(p)

LEMMA WrittenGrows ==
  ASSUME TypeOK, NEW t \in Turns, NEW e \in Events, Logged(t, e), NEW id, NEW types
  PROVE  /\ SameEntries(Written(id, types))
         /\ \E q : /\ At(q)' = e /\ q \notin Written(id, types)
                   /\ Written(id, types)' = Written(id, types) \union
                        (IF e.id = id /\ e.type \in types THEN {q} ELSE {})
<1>0. PICK q : q = <<t, Len(log[t]) + 1>>
  OBVIOUS
<1>1. /\ DOMAIN log[t] = 1..Len(log[t]) /\ Len(log[t]) \in Nat
      /\ DOMAIN log'[t] = 1..(Len(log[t]) + 1) /\ log'[t][Len(log[t]) + 1] = e
      /\ \A i \in DOMAIN log[t] : log'[t][i] = log[t][i]
  <2>1. log[t] \in Seq(Events) /\ log'[t] = Append(log[t], e)
    BY LoggedLog
  <2> QED
    BY <2>1, Appended
<1>2. \A u \in Turns : u # t => log'[u] = log[u]
  BY DEF Logged, TypeOK
<1>3. \A u \in Turns : \A i \in DOMAIN log[u] : i \in DOMAIN log'[u] /\ log'[u][i] = log[u][i]
  BY <1>1, <1>2
<1>4. SameEntries(Written(id, types))
  BY <1>3, WrittenAt DEF SameEntries, At
<1>5. At(q)' = e /\ q \notin Written(id, types)
  BY <1>0, <1>1, WrittenAt DEF At
<1>6. ASSUME NEW p \in Written(id, types)' PROVE p \in Written(id, types) \/ p = q
  BY <1>0, <1>1, <1>2, WrittenAt, WrittenAtNext
<1>7. ASSUME NEW p \in Written(id, types) PROVE p \in Written(id, types)'
  BY <1>3, WrittenAt, WrittenAtNext
<1>8. q \in Written(id, types)' <=> e.id = id /\ e.type \in types
  BY <1>0, <1>1, WrittenAtNext
<1>9. Written(id, types)' = Written(id, types) \union
        (IF e.id = id /\ e.type \in types THEN {q} ELSE {})
  BY <1>6, <1>7, <1>8
<1> QED
  BY <1>4, <1>5, <1>9

LEMMA WrittenStarts ==
  ASSUME TypeOK, LogSealed, NEW t \in Turns, status[t] = "none", StartTurnRow(t),
         NEW id, NEW types, types \subseteq GoalEvents
  PROVE  Written(id, types)' = Written(id, types) /\ SameEntries(Written(id, types))
<1>1. log[t] = <<>> /\ log'[t] = <<Plain("turn.started")>>
  BY DEF StartTurnRow, TypeOK, LogSealed
<1>2. \A u \in Turns : u # t => log'[u] = log[u]
  BY DEF StartTurnRow, TypeOK
<1>3. Plain("turn.started").type \notin types
  BY PlainType DEF GoalEvents, HumanOps, Changes
<1>4. \A i \in DOMAIN log'[t] : log'[t][i].type \notin types
  BY <1>1, <1>3
<1>5. DOMAIN log[t] = {}
  BY <1>1
<1>6. SameEntries(Written(id, types))
  BY <1>2, <1>5, WrittenAt DEF SameEntries, At
<1>7. ASSUME NEW p PROVE p \in Written(id, types)' <=> p \in Written(id, types)
  <2>1. ASSUME p \in Written(id, types)' PROVE p \in Written(id, types)
    BY <1>2, <1>4, <2>1, WrittenAt, WrittenAtNext
  <2>2. ASSUME p \in Written(id, types) PROVE p \in Written(id, types)'
    BY <1>2, <1>5, <2>2, WrittenAt, WrittenAtNext
  <2> QED
    BY <2>1, <2>2
<1> QED
  BY <1>6, <1>7

WriteTypes == GoalEvents \ {"round"}

Revisions(S) == {At(p).revision : p \in S}
Rounds(S)    == {At(p).round : p \in S}

\* The entries S are as many as their numbers N, which count from one.
Numbered(S, N) == IsFiniteSet(S) /\ N = 1..Cardinality(S)

\* GoalHistory of one goal; the sets of its entries are finite.
History(id) ==
  /\ Numbered(Written(id, WriteTypes), Revisions(Written(id, WriteTypes)))
  /\ Numbered(Written(id, {"round"}), Rounds(Written(id, {"round"})))
  /\ goal.id = id => /\ goal.revision = Cardinality(Written(id, WriteTypes))
                     /\ goal.rounds = Cardinality(Written(id, {"round"}))
                     /\ goal.rounds <= goal.limit

LEMMA Counted ==
  ASSUME NEW S, NEW N, Numbered(S, N), NEW q, q \notin S
  PROVE  /\ Cardinality(S) \in Nat /\ Cardinality(S \union {q}) = Cardinality(S) + 1
         /\ Numbered(S \union {q}, N \union {Cardinality(S) + 1})
<1>1. IsFiniteSet(S) /\ N = 1..Cardinality(S) /\ Cardinality(S) \in Nat
  BY FS_CardinalityType DEF Numbered
<1>2. IsFiniteSet(S \union {q}) /\ Cardinality(S \union {q}) = Cardinality(S) + 1
  BY <1>1, FS_AddElement
<1>3. N \union {Cardinality(S) + 1} = 1..(Cardinality(S) + 1)
  BY <1>1
<1> QED
  BY <1>1, <1>2, <1>3 DEF Numbered

LEMMA WritesNext ==
  ASSUME TypeOK, NEW t \in Turns, NEW e \in Events, Logged(t, e), NEW id, NEW types
  PROVE  /\ Revisions(Written(id, types))' = Revisions(Written(id, types)) \union
              (IF e.id = id /\ e.type \in types THEN {e.revision} ELSE {})
         /\ Rounds(Written(id, types))' = Rounds(Written(id, types)) \union
              (IF e.id = id /\ e.type \in types THEN {e.round} ELSE {})
<1> DEFINE W == Written(id, types)
<1>1. PICK q : /\ At(q)' = e
               /\ W' = W \union (IF e.id = id /\ e.type \in types THEN {q} ELSE {})
  BY WrittenGrows
<1>2. \A p \in W : At(p)' = At(p)
  BY WrittenGrows DEF SameEntries
<1>3. /\ Revisions(W)' = {At(p)'.revision : p \in W'}
      /\ Rounds(W)' = {At(p)'.round : p \in W'}
  BY DEF Revisions, Rounds
<1> HIDE DEF W
<1>4. {At(p)'.revision : p \in W'} = {At(p).revision : p \in W} \union
        (IF e.id = id /\ e.type \in types THEN {e.revision} ELSE {})
  BY <1>1, <1>2
<1>5. {At(p)'.round : p \in W'} = {At(p).round : p \in W} \union
        (IF e.id = id /\ e.type \in types THEN {e.round} ELSE {})
  BY <1>1, <1>2
<1> QED
  BY <1>3, <1>4, <1>5 DEF Revisions, Rounds, W

LEMMA WritesKept ==
  ASSUME NEW id, NEW types, Written(id, types)' = Written(id, types),
         SameEntries(Written(id, types))
  PROVE  /\ Revisions(Written(id, types))' = Revisions(Written(id, types))
         /\ Rounds(Written(id, types))' = Rounds(Written(id, types))
BY DEF Revisions, Rounds, SameEntries

LEMMA HistoryKept ==
  ASSUME NEW id \in Goals, History(id),
         \A types \in {WriteTypes, {"round"}} :
           Written(id, types)' = Written(id, types) /\ SameEntries(Written(id, types)),
         goal'.id = id => UNCHANGED goal
  PROVE  History(id)'
<1>1. /\ Written(id, WriteTypes)' = Written(id, WriteTypes)
      /\ Revisions(Written(id, WriteTypes))' = Revisions(Written(id, WriteTypes))
  BY WritesKept
<1>2. /\ Written(id, {"round"})' = Written(id, {"round"})
      /\ Rounds(Written(id, {"round"}))' = Rounds(Written(id, {"round"}))
  BY WritesKept
<1> QED
  BY <1>1, <1>2 DEF History, Numbered

LEMMA NoHistory ==
  ASSUME NEW id, ~Known(id), NEW types
  PROVE  Written(id, types) = {}
BY WrittenAt DEF Known

\* An event of another kind or of another goal tells nothing of this one.
LEMMA OtherHistory ==
  ASSUME TypeOK, NEW t \in Turns, NEW e \in Events, Logged(t, e), NEW id \in Goals, History(id),
         e.id = id => e.type \notin GoalEvents, goal'.id = id => UNCHANGED goal
  PROVE  History(id)'
<1>1. ASSUME NEW types \in {WriteTypes, {"round"}}
      PROVE  Written(id, types)' = Written(id, types) /\ SameEntries(Written(id, types))
  <2>1. ~(e.id = id /\ e.type \in types)
    BY DEF WriteTypes, GoalEvents
  <2> QED
    BY <2>1, WrittenGrows
<1> QED
  BY <1>1, HistoryKept

LEMMA WriteCounted ==
  ASSUME TypeOK, NEW t \in Turns, NEW e \in Events, Logged(t, e), NEW id \in Goals, History(id),
         e.id = id, e.type \in WriteTypes, e.revision = Cardinality(Written(id, WriteTypes)) + 1,
         goal'.id = id => /\ goal'.revision = Cardinality(Written(id, WriteTypes)) + 1
                          /\ goal'.rounds = Cardinality(Written(id, {"round"}))
                          /\ goal'.rounds <= goal'.limit
  PROVE  History(id)'
<1>1. e.type \notin {"round"}
  BY DEF WriteTypes
<1>2. /\ Written(id, {"round"})' = Written(id, {"round"})
      /\ Rounds(Written(id, {"round"}))' = Rounds(Written(id, {"round"}))
  <2>1. Written(id, {"round"})' = Written(id, {"round"}) /\ SameEntries(Written(id, {"round"}))
    BY <1>1, WrittenGrows
  <2> QED
    BY <2>1, WritesKept
<1>3. PICK q : /\ q \notin Written(id, WriteTypes)
               /\ Written(id, WriteTypes)' = Written(id, WriteTypes) \union {q}
  BY WrittenGrows
<1>4. Revisions(Written(id, WriteTypes))' =
        Revisions(Written(id, WriteTypes)) \union {Cardinality(Written(id, WriteTypes)) + 1}
  BY WritesNext
<1>5. /\ Cardinality(Written(id, WriteTypes) \union {q}) = Cardinality(Written(id, WriteTypes)) + 1
      /\ Numbered(Written(id, WriteTypes) \union {q}, Revisions(Written(id, WriteTypes)) \union
                    {Cardinality(Written(id, WriteTypes)) + 1})
  BY <1>3, Counted DEF History
<1> QED
  BY <1>2, <1>3, <1>4, <1>5 DEF History, Numbered

LEMMA RoundCounted ==
  ASSUME TypeOK, NEW t \in Turns, NEW e \in Events, Logged(t, e), NEW id \in Goals, History(id),
         e.id = id, e.type = "round", e.round = Cardinality(Written(id, {"round"})) + 1,
         goal'.id = id => /\ goal'.revision = Cardinality(Written(id, WriteTypes))
                          /\ goal'.rounds = Cardinality(Written(id, {"round"})) + 1
                          /\ goal'.rounds <= goal'.limit
  PROVE  History(id)'
<1>1. e.type \notin WriteTypes
  BY DEF WriteTypes
<1>2. /\ Written(id, WriteTypes)' = Written(id, WriteTypes)
      /\ Revisions(Written(id, WriteTypes))' = Revisions(Written(id, WriteTypes))
  <2>1. SameEntries(Written(id, WriteTypes))
    BY WrittenGrows
  <2>2. Written(id, WriteTypes)' = Written(id, WriteTypes)
    <3>1. PICK q : Written(id, WriteTypes)' = Written(id, WriteTypes) \union
                     (IF e.id = id /\ e.type \in WriteTypes THEN {q} ELSE {})
      BY WrittenGrows
    <3> QED
      BY <1>1, <3>1
  <2> QED
    BY <2>1, <2>2, WritesKept
<1>3. PICK q : /\ q \notin Written(id, {"round"})
               /\ Written(id, {"round"})' = Written(id, {"round"}) \union {q}
  BY WrittenGrows
<1>4. Rounds(Written(id, {"round"}))' =
        Rounds(Written(id, {"round"})) \union {Cardinality(Written(id, {"round"})) + 1}
  BY WritesNext
<1>5. /\ Cardinality(Written(id, {"round"}) \union {q}) = Cardinality(Written(id, {"round"})) + 1
      /\ Numbered(Written(id, {"round"}) \union {q}, Rounds(Written(id, {"round"})) \union
                    {Cardinality(Written(id, {"round"})) + 1})
  BY <1>3, Counted DEF History
<1> QED
  BY <1>2, <1>3, <1>4, <1>5 DEF History, Numbered

LEMMA HistoryNext ==
  ASSUME GoalsInv, LogSealed, HistoryStep, TypeOK', NEW id \in Goals, History(id)
  PROVE  History(id)'
<1>0. /\ id # NoId /\ goal \in GoalRow /\ goal' \in GoalRow /\ TypeOK
      /\ Cardinality(Written(id, WriteTypes)) \in Nat /\ Cardinality(Written(id, {"round"})) \in Nat
  BY GoalsAssumption, FS_CardinalityType DEF GoalsInv, TypeOK, History, Numbered
<1>1. CASE UNCHANGED <<goal, log>>
  <2>1. ASSUME NEW types
        PROVE  Written(id, types)' = Written(id, types) /\ SameEntries(Written(id, types))
    BY <1>1 DEF Written, At, SameEntries
  <2> QED
    BY <1>1, <2>1, HistoryKept
<1>2. ASSUME UNCHANGED goal, NEW t \in Turns, status[t] = "none", StartTurnRow(t)
      PROVE  History(id)'
  <2>1. WriteTypes \subseteq GoalEvents /\ {"round"} \subseteq GoalEvents
    BY DEF WriteTypes, GoalEvents
  <2> QED
    BY <1>0, <1>2, <2>1, WrittenStarts, HistoryKept
<1>3. ASSUME UNCHANGED goal, NEW t \in Turns, NEW e \in Events, e.type = "turn.ended", Logged(t, e)
      PROVE  History(id)'
  BY <1>0, <1>3, OtherHistory DEF GoalEvents, HumanOps, Changes
<1>4. ASSUME NEW t \in Turns, NEW e \in Events, Logged(t, e), Writing(e) PROVE History(id)'
  <2>1. CASE e.id # id
    <3>1. goal'.id = id => UNCHANGED goal
      BY <1>0, <1>4, <2>1 DEF Writing, NoGoal
    <3> QED
      BY <1>0, <1>4, <2>1, <3>1, OtherHistory
  <2>2. CASE e.id = id /\ e.type = "round"
    <3>1. /\ goal.id = id /\ e.round = goal.rounds + 1 /\ goal.rounds < goal.limit
          /\ goal'.id = goal.id /\ goal'.revision = goal.revision
          /\ goal'.rounds = goal.rounds + 1 /\ goal'.limit = goal.limit
      BY <1>4, <2>2 DEF Writing
    <3>2. /\ goal.revision = Cardinality(Written(id, WriteTypes))
          /\ goal.rounds = Cardinality(Written(id, {"round"}))
          /\ goal.rounds \in Nat /\ goal.limit \in Nat
      BY <1>0, <3>1, RowFields DEF History
    <3> QED
      BY <1>0, <1>4, <2>2, <3>1, <3>2, RoundCounted
  <2>3. CASE e.id = id /\ e.type = "create" /\ ~Known(e.id)
    <3>1. Written(id, WriteTypes) = {} /\ Written(id, {"round"}) = {} /\ Cardinality({}) = 0
      BY <2>3, NoHistory, FS_EmptySet
    <3>2. e.type \in WriteTypes
      BY <2>3 DEF WriteTypes, GoalEvents, HumanOps
    <3>3. /\ e.revision = 1
          /\ goal'.revision = 1 /\ goal'.rounds = 0 /\ goal'.rounds <= goal'.limit
      BY <1>0, <1>4, <2>3, RowFields DEF Writing, RowInv, GoalsInv
    <3> QED
      BY <1>0, <1>4, <2>3, <3>1, <3>2, <3>3, WriteCounted
  <2>4. CASE /\ e.id = id /\ e.type \in GoalEvents \ {"round"} /\ e.id = goal.id
             /\ e.revision = goal.revision + 1
             /\ \/ goal' = NoGoal
                \/ /\ goal'.id = goal.id /\ goal'.revision = goal.revision + 1
                   /\ goal'.rounds = goal.rounds
                   /\ goal'.limit = goal.limit \/ goal'.limit >= goal.rounds
    <3>1. /\ goal.revision = Cardinality(Written(id, WriteTypes))
          /\ goal.rounds = Cardinality(Written(id, {"round"})) /\ goal.rounds <= goal.limit
      BY <2>4 DEF History
    <3>2. goal'.id = id => /\ goal'.revision = goal.revision + 1
                           /\ goal'.rounds = goal.rounds /\ goal'.rounds <= goal'.limit
      BY <1>0, <2>4, <3>1 DEF NoGoal
    <3> QED
      BY <1>0, <1>4, <2>4, <3>1, <3>2, WriteCounted DEF WriteTypes
  <2> QED
    BY <1>4, <2>1, <2>2, <2>3, <2>4 DEF Writing
<1> QED
  BY <1>1, <1>2, <1>3, <1>4 DEF HistoryStep

-----------------------------------------------------------------------------
\* The inductive invariant.
IInv ==
  /\ TypeOK /\ RowInv /\ CurrentInv /\ LogIds /\ LoopLog
  /\ LogSealed /\ ArmedOwn /\ RoundsOwned /\ ConclusionFinal /\ PersonDecides

LEMMA InitInv == Init => IInv
<1> SUFFICES ASSUME Init PROVE IInv
  OBVIOUS
<1>1. TypeOK
  BY InitType
<1>2. RowInv /\ CurrentInv
  BY DEF Init, RowInv, CurrentInv, NoGoal
<1>3. \A t \in Turns : log[t] = <<>> /\ DOMAIN log[t] = {} /\ status[t] = "none"
                       /\ ~armed[t] /\ currentRound[t] = 0
  BY DEF Init
<1>4. LogIds /\ LoopLog /\ LogSealed /\ ArmedOwn
  BY <1>3 DEF LogIds, LoopLog, LogSealed, ArmedOwn
<1>5. RoundsOwned /\ ConclusionFinal /\ PersonDecides
  BY <1>3 DEF RoundsOwned, ConclusionFinal, PersonDecides
<1> QED
  BY <1>1, <1>2, <1>4, <1>5 DEF IInv

LEMMA NextInv == IInv /\ [Next]_vars => IInv'
<1> SUFFICES ASSUME IInv, [Next]_vars PROVE IInv'
  OBVIOUS
<1>1. TypeOK' /\ Steps
  BY NextType, NextSteps DEF IInv, GoalsInv
<1>2. LogStep /\ LoopStep /\ ArmedStep
  BY <1>1 DEF Steps
<1>3. RowInv' /\ CurrentInv'
  BY <1>1, RowNext, CurrentNext DEF IInv, GoalsInv
<1>4. LogSealed' /\ LogIds' /\ LoopLog'
  BY <1>2, SealedNext, LogIdsNext, LoopLogNext DEF IInv
<1>5. ArmedOwn' /\ RoundsOwned'
  BY <1>2, ArmedNext, RoundsNext DEF IInv
<1>6. ConclusionFinal' /\ PersonDecides'
  BY <1>2, ConclusionNext, PersonNext DEF IInv
<1> QED
  BY <1>1, <1>3, <1>4, <1>5, <1>6 DEF IInv

LEMMA Invariant == Spec => []IInv
BY InitInv, NextInv, PTL DEF Spec

\* turn.started opens the log of a turn and turn.ended seals it, also against a
\* loop that outlives its handler (chat_agent_append_event, migration 101).
THEOREM LogsSealed == Spec => []LogSealed
<1>1. IInv => LogSealed
  BY DEF IInv
<1> QED
  BY <1>1, Invariant, PTL

\* A loop is armed only for the revision that its own turn wrote
\* (chatAgentGoalToolRuntime.current, goal_tool_loop.go).
THEOREM ArmedByItself == Spec => []ArmedOwn
<1>1. IInv => ArmedOwn
  BY DEF IInv
<1> QED
  BY <1>1, Invariant, PTL

\* A round is started only by the turn that created, edited or resumed the goal
\* last (chat_agent_start_goal_round, the expected revision of migration 097).
THEOREM RoundsAreOwned == Spec => []RoundsOwned
<1>1. IInv => RoundsOwned
  BY DEF IInv
<1> QED
  BY <1>1, Invariant, PTL

\* A turn that concluded writes no goal event again (web_tool_loop.go wrap-up).
THEOREM ConclusionsAreFinal == Spec => []ConclusionFinal
<1>1. IInv => ConclusionFinal
  BY DEF IInv
<1> QED
  BY <1>1, Invariant, PTL

\* After an automatic round a turn decides nothing that is a person's
\* (goal_tool_loop.go, directHuman and chatAgentGoalBlockedAfterRounds).
THEOREM ThePersonDecides == Spec => []PersonDecides
<1>1. IInv => PersonDecides
  BY DEF IInv
<1> QED
  BY <1>1, Invariant, PTL

HistoryInv == \A id \in Goals : History(id)

\* The logs number the revisions and the rounds of every goal without a gap and
\* without a repetition, and the row holds the last of both (migration 097,
\* expected revision and chat_agent_start_goal_round).
THEOREM HistoryIsComplete == Spec => []GoalHistory
<1>1. Init => HistoryInv
  <2> SUFFICES ASSUME Init, NEW id \in Goals PROVE History(id)
    BY DEF HistoryInv
  <2>1. ~Known(id) /\ goal.id # id
    BY GoalsAssumption DEF Init, Known, NoGoal
  <2>2. \A types : Written(id, types) = {} /\ IsFiniteSet({}) /\ Cardinality({}) = 0
    BY <2>1, NoHistory, FS_EmptySet
  <2>3. Revisions({}) = {} /\ Rounds({}) = {} /\ 1..0 = {}
    BY DEF Revisions, Rounds
  <2> QED
    BY <2>1, <2>2, <2>3 DEF History, Numbered
<1>2. IInv /\ IInv' /\ HistoryInv /\ [Next]_vars => HistoryInv'
  <2> SUFFICES ASSUME IInv, IInv', HistoryInv, [Next]_vars, NEW id \in Goals PROVE History(id)'
    BY DEF HistoryInv
  <2>1. GoalsInv /\ LogSealed /\ TypeOK' /\ History(id)
    BY DEF IInv, GoalsInv, HistoryInv
  <2> QED
    BY <2>1, NextHistory, HistoryNext
<1>3. HistoryInv => GoalHistory
  BY DEF HistoryInv, History, Numbered, Revisions, Rounds, WriteTypes, GoalHistory
<1> QED
  BY <1>1, <1>2, <1>3, Invariant, PTL DEF Spec
=============================================================================
