----------------------------- MODULE Approvals -----------------------------
(***************************************************************************)
(* Tool approvals: the rows and conversation grants of migration 100, the  *)
(* waiters of backend/internal/chat/chat_agent_approvals.go, the tool calls*)
(* that wait (local_skill_tool_loop.go, resource_tool.go), the decision    *)
(* endpoint of handler.go and the denial at startup of cmd/api/main.go.    *)
(*                                                                         *)
(* decision, grants and deleted are Postgres; everything else is in the    *)
(* API process.  A row's status follows from its decision.  A database     *)
(* call ends "done", "refused" (nothing written) or "unanswered" (an error *)
(* although it committed); the last two spend a fault.                     *)
(***************************************************************************)
EXTENDS Integers

CONSTANTS
  Calls,         \* tool calls that need an approval, each in its own turn
  Conversation,  \* Conversation[c]: the conversation of call c
  Tool,          \* Tool[c]: its tool name and risk class
  Grantable,     \* calls whose approval may allow the conversation (terminal)
  Handoff,       \* installs that need a configuration before they complete
  Explicit,      \* installs the user's message asked for
  Tabs,          \* browser tabs that answer cards
  MaxFaults,     \* bound on failing database calls
  MaxCrashes     \* bound on crashes

ASSUME CallsAssumption ==
  Grantable \subseteq Calls /\ Handoff \subseteq Calls \ Grantable /\ Explicit \subseteq Handoff
ASSUME BoundsAssumption == MaxFaults \in Nat /\ MaxCrashes \in Nat

VARIABLES
  decision,  \* the row of a call: "none", "pending" or its decision
  grants,    \* chat_agent_conversation_tool_grants
  deleted,   \* deleted conversations
  up,        \* the API process serves requests
  pc,        \* where the tool call is
  ended,     \* calls whose run was cancelled or ran out of time
  due,       \* calls whose approval is older than five minutes
  waiters,   \* calls with a registered waiter
  channel,   \* what was sent to the waiter's channel
  seen,      \* the approval the call has in hand
  cards,     \* cards[c]: the phases whose awaiting_approval event was published
  effects,   \* effects[c]: the phases that took effect
  req,       \* req[t]: the tab's decision request
  chosen,    \* history: <<call, decision>> a user allowed before the deadline
  faults, crashes

rowVars    == <<decision, grants>>
callVars   == <<pc, seen, cards, effects>>
waitVars   == <<waiters, channel>>
clientVars == <<req, chosen>>
vars == <<rowVars, deleted, up, callVars, ended, due, waitVars, clientVars, faults, crashes>>

UserDecisions == {"allow_once", "allow_conversation", "deny"}
Allowing      == {"allow_once", "allow_conversation"}
Decided       == UserDecisions \union {"expired", "restart_denied"}
Active        == {"created", "registered", "waiting", "answered", "again"}
Ended         == {"idle", "done", "failed", "dead"}
Phases        == {"act", "configure"}
Outcomes      == {"done", "refused", "unanswered"}
NoRequest     == [step |-> "none"]

Applied(o) == o # "refused"
Call(o) ==
  \/ o = "done" /\ UNCHANGED faults
  \/ o # "done" /\ faults < MaxFaults /\ faults' = faults + 1

Goto(c, label) == pc' = [pc EXCEPT ![c] = label]

Init ==
  /\ decision = [c \in Calls |-> "none"] /\ grants = {} /\ deleted = {} /\ up = TRUE
  /\ pc = [c \in Calls |-> "idle"] /\ ended = {} /\ due = {}
  /\ waiters = {} /\ channel = [c \in Calls |-> "none"] /\ seen = [c \in Calls |-> "none"]
  /\ cards = [c \in Calls |-> {}] /\ effects = [c \in Calls |-> {}]
  /\ req = [t \in Tabs |-> NoRequest] /\ chosen = {} /\ faults = 0 /\ crashes = 0

-----------------------------------------------------------------------------
(* The stored functions.                                                     *)

\* A grant names the conversation, the tool and the risk class.
Key(c) == <<Conversation[c], Tool[c]>>

\* chat_agent_create_approval: a row that exists for this execution is
\* returned as it is; a grant of a conversation that still exists allows.
Created(c) ==
  IF decision[c] # "none" THEN decision[c]
  ELSE IF Key(c) \in grants /\ Conversation[c] \notin deleted THEN "allow_conversation"
  ELSE "pending"

\* Mutation: the last decision wins.
DecidesLast(c, d, late) == IF late THEN "expired" ELSE d

\* chat_agent_decide_approval: the first decision wins, later ones read it; a
\* decision stamped after the deadline expires the row.
Decides(c, d, late) ==
  IF decision[c] # "pending" THEN decision[c] ELSE IF late THEN "expired" ELSE d

\* CHAT_AGENT_APPROVAL_NOT_FOUND and CHAT_AGENT_APPROVAL_SCOPE_FORBIDDEN.
Decidable(c, d, late) ==
  /\ Conversation[c] \notin deleted
  /\ decision[c] = "pending" /\ ~late /\ d = "allow_conversation" => c \in Grantable

\* Mutation: the grant follows the request, not the decision of the row.
DecideRowGrants(c, d, late, o) ==
  LET applies == Applied(o) /\ Decidable(c, d, late) IN
  /\ decision' = IF applies THEN [decision EXCEPT ![c] = Decides(c, d, late)] ELSE decision
  /\ grants' = IF applies /\ decision[c] = "pending" /\ d = "allow_conversation"
               THEN grants \union {Key(c)} ELSE grants

\* The statement, with outcome o.
DecideRow(c, d, late, o) ==
  LET applies == Applied(o) /\ Decidable(c, d, late)
      result  == Decides(c, d, late)
  IN /\ decision' = IF applies THEN [decision EXCEPT ![c] = result] ELSE decision
     /\ grants' = IF applies /\ decision[c] = "pending" /\ result = "allow_conversation"
                  THEN grants \union {Key(c)} ELSE grants

-----------------------------------------------------------------------------
(* The tool call: request, publish, wait, act.                               *)

\* An install that ran and lacks its configuration is in its second phase.
Phase(c) == IF "act" \in effects[c] THEN "configure" ELSE "act"

\* The runs of a conversation, and the calls of a run that write, are serial.
Busy(k) == \E c \in Calls : Conversation[c] = k /\ pc[c] \in Active

\* An install the user's message asked for runs without an approval; here it
\* then asks for its configuration.
Install(c) ==
  /\ pc[c] = "idle" /\ c \in Explicit /\ up /\ ~Busy(Conversation[c])
  /\ effects' = [effects EXCEPT ![c] = {"act"}] /\ Goto(c, "again")
  /\ UNCHANGED <<rowVars, deleted, up, seen, cards, ended, due, waitVars, clientVars, faults, crashes>>

\* chatToolApprovalRuntime.request, the row.  The statement runs in the run's
\* context and may fail when that has ended.
Create(c, o) ==
  /\ pc[c] = "again" \/ (pc[c] = "idle" /\ c \notin Explicit /\ up /\ ~Busy(Conversation[c]))
  /\ Call(o) \/ (o # "done" /\ c \in ended /\ UNCHANGED faults)
  /\ decision' = IF Applied(o) THEN [decision EXCEPT ![c] = Created(c)] ELSE decision
  /\ IF o = "done"
     THEN /\ seen' = [seen EXCEPT ![c] = Created(c)]
          /\ Goto(c, IF Created(c) = "pending" THEN "created" ELSE "answered")
     ELSE Goto(c, "failed") /\ UNCHANGED seen
  /\ UNCHANGED <<grants, deleted, up, cards, effects, ended, due, waitVars, clientVars, crashes>>

\* chatAgentApprovalWaiters.register: a new channel replaces an old one.
Register(c) ==
  /\ pc[c] = "created" /\ Goto(c, "registered")
  /\ waiters' = waiters \union {c} /\ channel' = [channel EXCEPT ![c] = "none"]
  /\ UNCHANGED <<rowVars, deleted, up, seen, cards, effects, ended, due, clientVars, faults, crashes>>

publishFrame == <<rowVars, deleted, up, seen, effects, ended, due, waitVars, clientVars, faults, crashes>>

\* Mutation: the card is published before the waiter is registered.
PublishFirst(c) ==
  /\ \/ pc[c] = "created" /\ UNCHANGED pc
     \/ pc[c] = "registered" /\ Goto(c, "waiting")
  /\ cards' = [cards EXCEPT ![c] = @ \union {Phase(c)}]
  /\ UNCHANGED publishFrame

\* sendToolExecutionEvent, the awaiting_approval step.
Publish(c) ==
  /\ pc[c] = "registered" /\ Goto(c, "waiting")
  /\ cards' = [cards EXCEPT ![c] = @ \union {Phase(c)}]
  /\ UNCHANGED publishFrame

\* The run ended before the event was taken; row and waiter stay behind.
PublishFails(c) ==
  /\ pc[c] = "registered" /\ c \in ended /\ Goto(c, "failed")
  /\ UNCHANGED <<publishFrame, cards>>

waitFrame == <<deleted, up, cards, effects, ended, due, clientVars, crashes>>

\* chatToolApprovalRuntime.wait, a decision.  Go picks any ready case.
Receive(c) ==
  /\ pc[c] = "waiting" /\ channel[c] # "none" /\ Goto(c, "answered")
  /\ seen' = [seen EXCEPT ![c] = channel[c]] /\ waiters' = waiters \ {c}
  /\ UNCHANGED <<rowVars, channel, faults, waitFrame>>

\* Mutation: a timeout that finds the row decided keeps waiting.
TimeoutPending(c, o) ==
  /\ pc[c] = "waiting" /\ c \in due /\ decision[c] = "pending" /\ Call(o)
  /\ DecideRow(c, "expired", TRUE, o) /\ waiters' = waiters \ {c}
  /\ IF o = "done" /\ Decidable(c, "expired", TRUE)
     THEN Goto(c, "answered") /\ seen' = [seen EXCEPT ![c] = Decides(c, "expired", TRUE)]
     ELSE Goto(c, "failed") /\ UNCHANGED seen
  /\ UNCHANGED <<channel, waitFrame>>

\* wait, the timer: finishPending takes whatever the row says.
Timeout(c, o) ==
  /\ pc[c] = "waiting" /\ c \in due /\ Call(o)
  /\ DecideRow(c, "expired", TRUE, o) /\ waiters' = waiters \ {c}
  /\ IF o = "done" /\ Decidable(c, "expired", TRUE)
     THEN Goto(c, "answered") /\ seen' = [seen EXCEPT ![c] = Decides(c, "expired", TRUE)]
     ELSE Goto(c, "failed") /\ UNCHANGED seen
  /\ UNCHANGED <<channel, waitFrame>>

\* wait, the run's context: the row is denied if that succeeds.
Abandon(c, o) ==
  /\ pc[c] = "waiting" /\ c \in ended /\ Call(o) /\ Goto(c, "failed")
  /\ DecideRow(c, "deny", c \in due, o) /\ waiters' = waiters \ {c}
  /\ UNCHANGED <<channel, seen, waitFrame>>

actFrame == <<rowVars, deleted, up, seen, cards, ended, due, waitVars, clientVars, faults, crashes>>

\* The tool runs; an install that needs a configuration goes on to ask for it
\* under the same execution id.
Act(c) ==
  /\ pc[c] = "answered" /\ seen[c] \in Allowing
  /\ effects' = [effects EXCEPT ![c] = @ \union {Phase(c)}]
  /\ Goto(c, IF c \in Handoff /\ Phase(c) = "act" THEN "again" ELSE "done")
  /\ UNCHANGED actFrame

\* The approval does not allow it, or the run has ended.
Refrain(c) ==
  /\ pc[c] = "answered" /\ (seen[c] \notin Allowing \/ c \in ended) /\ Goto(c, "failed")
  /\ UNCHANGED <<actFrame, effects>>

-----------------------------------------------------------------------------
(* Handler.handleApprovalChild: stamp, row, waiter, reply.                   *)

\* A tab that has seen the card sends a decision; the handler takes the time.
Choose(t, c, d) ==
  /\ up /\ req[t].step \in {"none", "replied"} /\ cards[c] # {}
  /\ req' = [req EXCEPT ![t] = [step |-> "stamped", call |-> c, choice |-> d, late |-> c \in due]]
  /\ chosen' = IF d \in Allowing /\ c \notin due THEN chosen \union {<<c, d>>} ELSE chosen
  /\ UNCHANGED <<rowVars, deleted, up, callVars, ended, due, waitVars, faults, crashes>>

commitFrame == <<deleted, up, callVars, ended, due, waitVars, chosen, crashes>>

\* Mutation: the reply repeats the request.
CommitEcho(t, o) ==
  LET q == req[t] IN
  /\ q.step = "stamped" /\ Call(o) /\ DecideRow(q.call, q.choice, q.late, o)
  /\ req' = [req EXCEPT ![t] =
       IF o = "done" /\ Decidable(q.call, q.choice, q.late)
       THEN [step |-> "committed", call |-> q.call, answer |-> q.choice] ELSE NoRequest]
  /\ UNCHANGED commitFrame

\* Service.DecideChatAgentApproval; an error is the reply.
Commit(t, o) ==
  LET q == req[t] IN
  /\ q.step = "stamped" /\ Call(o) /\ DecideRow(q.call, q.choice, q.late, o)
  /\ req' = [req EXCEPT ![t] =
       IF o = "done" /\ Decidable(q.call, q.choice, q.late)
       THEN [step |-> "committed", call |-> q.call, answer |-> Decides(q.call, q.choice, q.late)]
       ELSE NoRequest]
  /\ UNCHANGED commitFrame

\* chatAgentApprovalWaiters.resolve, then the reply.
Resolve(t) ==
  LET q == req[t] IN
  /\ q.step = "committed"
  /\ waiters' = waiters \ {q.call}
  /\ channel' = IF q.call \in waiters THEN [channel EXCEPT ![q.call] = q.answer] ELSE channel
  /\ req' = [req EXCEPT ![t] = [q EXCEPT !.step = "replied"]]
  /\ UNCHANGED <<rowVars, deleted, up, callVars, ended, due, chosen, faults, crashes>>

-----------------------------------------------------------------------------
(* The surroundings.                                                         *)

envFrame == <<rowVars, up, callVars, waitVars, clientVars, faults, crashes>>

\* The run is cancelled or its deadline passes.
EndRun(c) ==
  /\ c \notin ended /\ pc[c] \in Active /\ ended' = ended \union {c}
  /\ UNCHANGED <<envFrame, due, deleted>>

\* Five minutes pass.
Elapse(c) ==
  /\ c \notin due /\ (decision[c] = "pending" \/ pc[c] = "waiting") /\ due' = due \union {c}
  /\ UNCHANGED <<envFrame, ended, deleted>>

\* DeleteConversation does not look for a run.
Delete(k) ==
  /\ up /\ k \notin deleted /\ deleted' = deleted \union {k} /\ UNCHANGED <<envFrame, ended, due>>

Crash ==
  /\ up /\ crashes < MaxCrashes /\ crashes' = crashes + 1 /\ up' = FALSE
  /\ pc' = [c \in Calls |-> IF pc[c] \in Active THEN "dead" ELSE pc[c]]
  /\ waiters' = {} /\ channel' = [c \in Calls |-> "none"]
  /\ req' = [t \in Tabs |-> IF req[t].step = "replied" THEN req[t] ELSE NoRequest]
  /\ UNCHANGED <<rowVars, deleted, seen, cards, effects, ended, due, chosen, faults>>

restartFrame == <<grants, deleted, callVars, ended, due, waitVars, clientVars, crashes>>

\* chat_agent_recover_approvals, before requests are served.
Restart(o) ==
  /\ ~up /\ Call(o) /\ up' = (o = "done")
  /\ decision' = [c \in Calls |-> IF Applied(o) /\ decision[c] = "pending"
                                  THEN "restart_denied" ELSE decision[c]]
  /\ UNCHANGED restartFrame

-----------------------------------------------------------------------------
CallStep(c) ==
  \/ Register(c) \/ Publish(c) \/ PublishFails(c) \/ Receive(c) \/ Act(c) \/ Refrain(c)
  \/ \E o \in Outcomes : Timeout(c, o) \/ Abandon(c, o)

RequestStep(t) == Resolve(t) \/ \E o \in Outcomes : Commit(t, o)

Next ==
  \/ \E c \in Calls : CallStep(c) \/ Install(c) \/ EndRun(c) \/ Elapse(c) \/ \E o \in Outcomes : Create(c, o)
  \/ \E t \in Tabs : RequestStep(t) \/ \E c \in Calls, d \in UserDecisions : Choose(t, c, d)
  \/ \E c \in Calls : Delete(Conversation[c])
  \/ Crash \/ \E o \in Outcomes : Restart(o)

Spec == Init /\ [][Next]_vars

\* The handlers and the tool loop are scheduled, time passes, a dead process is
\* started again.  Users and cancellations owe nothing.
Fairness ==
  /\ \A c \in Calls :
       /\ WF_vars(CallStep(c)) /\ WF_vars(Elapse(c))
       /\ WF_vars(pc[c] = "again" /\ \E o \in Outcomes : Create(c, o))
  /\ \A t \in Tabs : WF_vars(RequestStep(t))
  /\ WF_vars(\E o \in Outcomes : Restart(o))

FairSpec == Spec /\ Fairness

-----------------------------------------------------------------------------
Requests ==
  {NoRequest}
    \union [step : {"stamped"}, call : Calls, choice : UserDecisions, late : BOOLEAN]
    \union [step : {"committed", "replied"}, call : Calls, answer : Decided]

TypeOK ==
  /\ decision \in [Calls -> Decided \union {"none", "pending"}]
  /\ grants \subseteq {Key(c) : c \in Calls} /\ deleted \subseteq {Conversation[c] : c \in Calls}
  /\ up \in BOOLEAN /\ pc \in [Calls -> Active \union Ended]
  /\ ended \subseteq Calls /\ due \subseteq Calls /\ waiters \subseteq Calls
  /\ channel \in [Calls -> Decided \union {"none"}]
  /\ seen \in [Calls -> Decided \union {"none", "pending"}]
  /\ \A c \in Calls : pc[c] = "answered" => seen[c] \in Decided
  /\ cards \in [Calls -> SUBSET Phases] /\ effects \in [Calls -> SUBSET Phases]
  /\ req \in [Tabs -> Requests] /\ chosen \subseteq Calls \X Allowing
  /\ faults \in 0..MaxFaults /\ crashes \in 0..MaxCrashes

\* The user's word for call c: this call was allowed in time, or the same tool
\* was allowed in time for the whole conversation by a call that may ask that.
Authorized(c) ==
  \/ <<c, "allow_once">> \in chosen
  \/ \E b \in Grantable : Key(b) = Key(c) /\ <<b, "allow_conversation">> \in chosen

\* No tool takes effect without the user's word (given in the message, for an
\* explicit install's first phase), whatever expires, is denied, is answered
\* twice or restarts meanwhile.
ApprovedOnly ==
  \A c \in Calls : \A p \in effects[c] : (p = "act" /\ c \in Explicit) \/ Authorized(c)

\* The first decision wins: no tab, timeout, cancellation or restart changes it.
FirstDecisionWins ==
  [][\A c \in Calls : decision[c] \in Decided => decision'[c] = decision[c]]_vars

\* Everybody who is told a decision is told the row's, and for good: each tab,
\* the waiter's channel, the tool call.
OneAnswer ==
  /\ \A t \in Tabs : req[t].step \in {"committed", "replied"} => req[t].answer = decision[req[t].call]
  /\ \A c \in Calls :
       /\ channel[c] # "none" => channel[c] = decision[c]
       /\ seen[c] \in Decided => seen[c] = decision[c]

\* A tab's decision that was answered has reached the waiting call: nothing is
\* left to the five-minute timer.
AnswerDelivered ==
  \A t \in Tabs : req[t].step = "replied" /\ pc[req[t].call] = "waiting" => channel[req[t].call] # "none"

\* Every tool call that asks ends: answered, timed out, cancelled or dead.
CallEnds == \A c \in Calls : pc[c] \in Active ~> pc[c] \in Ended

\* Documented, and refuted: an install that needs a configuration waits for the
\* user on its configuration card.
ConfigurationAwaited == \A c \in Calls : "configure" \in effects[c] => "configure" \in cards[c]
=============================================================================
