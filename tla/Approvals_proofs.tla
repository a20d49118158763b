-------------------------- MODULE Approvals_proofs --------------------------
(***************************************************************************)
(* Approvals for every set of calls, tabs and conversations and for any    *)
(* number of faults and crashes: what is decided stays decided, everybody  *)
(* is told the same, and no tool acts without the user's word.             *)
(***************************************************************************)
EXTENDS Approvals, TLAPS

\* The calls' statements, with the fault counter.
LEMMA CallTyped == ASSUME TypeOK, NEW o, Call(o) PROVE faults' \in 0..MaxFaults
BY BoundsAssumption DEF TypeOK, Call

LEMMA DecideTyped ==
  ASSUME TypeOK, NEW c \in Calls, NEW d \in Decided, NEW late, NEW o,
         DecideRow(c, d, late, o)
  PROVE  /\ decision' \in [Calls -> Decided \union {"none", "pending"}]
         /\ grants' \subseteq {Key(b) : b \in Calls}
         /\ Decides(c, d, late) \in Decided \union {"none", "pending"}
BY DEF TypeOK, DecideRow, Decides, Decided, UserDecisions

-----------------------------------------------------------------------------
(* Rows.                                                                     *)

\* A decided row keeps its decision and no row disappears.
RowKept(c) ==
  /\ decision[c] \in Decided => decision'[c] = decision[c]
  /\ decision[c] # "none" => decision'[c] # "none"

LEMMA DecideKeeps ==
  ASSUME TypeOK, NEW b \in Calls, NEW d \in Decided, NEW late, NEW o,
         DecideRow(b, d, late, o), NEW c \in Calls
  PROVE  RowKept(c)
BY DEF TypeOK, DecideRow, Decides, RowKept, Decided, UserDecisions

LEMMA RowsKept == ASSUME TypeOK, Next, NEW c \in Calls PROVE RowKept(c)
<1>1. ASSUME NEW b \in Calls, NEW o \in Outcomes, Create(b, o) PROVE RowKept(c)
  BY <1>1 DEF Create, Created, RowKept, TypeOK, Decided, UserDecisions
<1>2. ASSUME NEW b \in Calls, NEW o \in Outcomes, Timeout(b, o) \/ Abandon(b, o) PROVE RowKept(c)
  BY <1>2, DecideKeeps DEF Timeout, Abandon, Decided, UserDecisions
<1>3. ASSUME NEW t \in Tabs, NEW o \in Outcomes, Commit(t, o) PROVE RowKept(c)
  <2>1. req[t].call \in Calls /\ req[t].choice \in Decided /\ req[t].late \in BOOLEAN
    BY <1>3 DEF Commit, TypeOK, Requests, NoRequest, Decided
  <2> QED
    BY <1>3, <2>1, DecideKeeps DEF Commit
<1>4. ASSUME NEW o \in Outcomes, Restart(o) PROVE RowKept(c)
  BY <1>4 DEF Restart, RowKept, TypeOK, Decided, UserDecisions
<1>5. ASSUME NEW b \in Calls,
             \/ Register(b) \/ Publish(b) \/ PublishFails(b) \/ Receive(b) \/ Act(b) \/ Refrain(b)
             \/ Install(b) \/ EndRun(b) \/ Elapse(b) \/ Delete(Conversation[b]) \/ Crash
      PROVE  RowKept(c)
  BY <1>5 DEF Register, Publish, PublishFails, Receive, Act, Refrain, Install, EndRun, Elapse, Delete, Crash,
     publishFrame, waitFrame, actFrame, envFrame, rowVars, RowKept
<1>6. ASSUME NEW t \in Tabs, Resolve(t) \/ \E b \in Calls, d \in UserDecisions : Choose(t, b, d)
      PROVE  RowKept(c)
  BY <1>6 DEF Resolve, Choose, rowVars, RowKept
<1> QED
  BY <1>1, <1>2, <1>3, <1>4, <1>5, <1>6 DEF Next, CallStep, RequestStep

-----------------------------------------------------------------------------
(* Types.                                                                    *)

\* Whoever refers to a row finds one.
Asked(c) == pc[c] \in {"created", "registered", "waiting"} \/ cards[c] # {} => decision[c] # "none"
Refers(t) == req[t].step = "stamped" => decision[req[t].call] # "none"
TypeInv == TypeOK /\ (\A c \in Calls : Asked(c)) /\ (\A t \in Tabs : Refers(t))

LEMMA CallStepTyped ==
  ASSUME TypeInv, NEW c \in Calls, CallStep(c) PROVE TypeInv'
<1> USE DEF TypeInv, TypeOK, Asked, Refers, Goto, Active, Ended, rowVars, callVars, waitVars, clientVars
<1>1. CASE Register(c)
  BY <1>1 DEF Register
<1>2. CASE Publish(c)
  BY <1>2 DEF Publish, publishFrame, Phase, Phases
<1>3. CASE PublishFails(c)
  BY <1>3 DEF PublishFails, publishFrame
<1>4. CASE Receive(c)
  BY <1>4 DEF Receive, waitFrame
<1>5. ASSUME NEW o \in Outcomes, Timeout(c, o) PROVE TypeInv'
  <2>1. DecideRow(c, "expired", TRUE, o) /\ Call(o)
    BY <1>5 DEF Timeout
  <2>2. /\ decision' \in [Calls -> Decided \union {"none", "pending"}]
        /\ grants' \subseteq {Key(b) : b \in Calls} /\ faults' \in 0..MaxFaults
    BY <2>1, DecideTyped, CallTyped DEF Decided
  <2>3. \A b \in Calls : RowKept(b)
    BY <2>1, DecideKeeps DEF Decided
  <2>4. Decides(c, "expired", TRUE) \in Decided
    BY <1>5 DEF Decides, Timeout, Decided
  <2>5. /\ pc' \in [Calls -> Active \union Ended] /\ seen' \in [Calls -> Decided \union {"none", "pending"}]
        /\ \A b \in Calls : pc'[b] = "answered" => seen'[b] \in Decided
    <3> HIDE DEF TypeInv, TypeOK, Asked, Refers, Active, Ended, rowVars, callVars, waitVars, clientVars
    <3>1. /\ pc \in [Calls -> Active \union Ended] /\ seen \in [Calls -> Decided \union {"none", "pending"}]
          /\ \A b \in Calls : pc[b] = "answered" => seen[b] \in Decided
      BY DEF TypeInv, TypeOK
    <3>2. {"answered", "failed"} \subseteq Active \union Ended
      BY DEF Active, Ended
    <3>3. PICK x : x = Decides(c, "expired", TRUE)
      OBVIOUS
    <3>4. \/ pc' = [pc EXCEPT ![c] = "answered"] /\ seen' = [seen EXCEPT ![c] = x]
          \/ pc' = [pc EXCEPT ![c] = "failed"] /\ seen' = seen
      BY <1>5, <3>3 DEF Timeout
    <3> HIDE <1>5
    <3>5. CASE pc' = [pc EXCEPT ![c] = "answered"] /\ seen' = [seen EXCEPT ![c] = x]
      BY <2>4, <3>1, <3>2, <3>3, <3>5
    <3>6. CASE pc' = [pc EXCEPT ![c] = "failed"] /\ seen' = seen
      BY <3>1, <3>2, <3>6
    <3> QED
      BY <3>4, <3>5, <3>6
  <2>6. \A b \in Calls : Asked(b)'
    BY <1>5, <2>3 DEF Timeout, waitFrame, RowKept
  <2>7. \A t \in Tabs : Refers(t)'
    BY <1>5, <2>3 DEF Timeout, waitFrame, RowKept, Requests, NoRequest
  <2> QED
    BY <1>5, <2>2, <2>5, <2>6, <2>7 DEF Timeout, waitFrame
<1>6. ASSUME NEW o \in Outcomes, Abandon(c, o) PROVE TypeInv'
  <2>1. DecideRow(c, "deny", c \in due, o) /\ Call(o)
    BY <1>6 DEF Abandon
  <2>2. /\ decision' \in [Calls -> Decided \union {"none", "pending"}]
        /\ grants' \subseteq {Key(b) : b \in Calls} /\ faults' \in 0..MaxFaults
    BY <2>1, DecideTyped, CallTyped DEF Decided, UserDecisions
  <2>3. \A b \in Calls : RowKept(b)
    BY <2>1, DecideKeeps DEF Decided, UserDecisions
  <2>4. pc' \in [Calls -> Active \union Ended] /\ \A b \in Calls : pc'[b] \in {pc[b], "failed"}
    BY <1>6 DEF Abandon
  <2>5. \A b \in Calls : Asked(b)'
    BY <1>6, <2>3, <2>4 DEF Abandon, waitFrame, RowKept
  <2>6. \A t \in Tabs : Refers(t)'
    BY <1>6, <2>3 DEF Abandon, waitFrame, RowKept, Requests, NoRequest
  <2> QED
    BY <1>6, <2>2, <2>4, <2>5, <2>6 DEF Abandon, waitFrame
<1>7. CASE Act(c)
  BY <1>7 DEF Act, actFrame, Phase, Phases
<1>8. CASE Refrain(c)
  BY <1>8 DEF Refrain, actFrame
<1> QED
  BY <1>1, <1>2, <1>3, <1>4, <1>5, <1>6, <1>7, <1>8 DEF CallStep

LEMMA CreateTyped ==
  ASSUME TypeInv, NEW c \in Calls, NEW o \in Outcomes, Create(c, o) PROVE TypeInv'
<1>1. faults' \in 0..MaxFaults
  BY CallTyped DEF Create, TypeInv, TypeOK
<1>2. Created(c) \in Decided \union {"pending"}
  BY DEF Created, TypeInv, TypeOK, Decided, UserDecisions
<1>3. decision' \in [Calls -> Decided \union {"none", "pending"}] /\ \A b \in Calls : RowKept(b)
  BY <1>2 DEF Create, Created, RowKept, TypeInv, TypeOK, Decided, UserDecisions
<1>4. o = "done" => decision'[c] # "none"
  BY <1>2 DEF Create, TypeInv, TypeOK, Decided, UserDecisions, Applied
<1>5. /\ pc' \in [Calls -> Active \union Ended] /\ seen' \in [Calls -> Decided \union {"none", "pending"}]
      /\ \A b \in Calls : pc'[b] = "answered" => seen'[b] \in Decided
  BY <1>2 DEF Create, TypeInv, TypeOK, Goto, Active, Ended
<1>6. \A b \in Calls : Asked(b)'
  BY <1>3, <1>4 DEF Create, TypeInv, TypeOK, Asked, Goto, RowKept, callVars
<1>7. \A t \in Tabs : Refers(t)'
  BY <1>3 DEF Create, TypeInv, TypeOK, Refers, RowKept, clientVars, Requests, NoRequest
<1> QED
  BY <1>1, <1>3, <1>5, <1>6, <1>7 DEF Create, TypeInv, TypeOK, waitVars, clientVars

LEMMA RequestTyped ==
  ASSUME TypeInv, NEW t \in Tabs,
         RequestStep(t) \/ \E c \in Calls, d \in UserDecisions : Choose(t, c, d)
  PROVE  TypeInv'
<1> USE DEF TypeInv, TypeOK, Asked, Refers, rowVars, callVars, waitVars, clientVars
<1>1. ASSUME NEW c \in Calls, NEW d \in UserDecisions, Choose(t, c, d) PROVE TypeInv'
  BY <1>1 DEF Choose, Requests, NoRequest
<1>2. ASSUME NEW o \in Outcomes, Commit(t, o) PROVE TypeInv'
  <2> DEFINE q == req[t]
  <2>1. q.call \in Calls /\ q.choice \in UserDecisions /\ q.late \in BOOLEAN
        /\ DecideRow(q.call, q.choice, q.late, o) /\ Call(o)
    BY <1>2 DEF Commit, Requests, NoRequest
  <2>2. /\ decision' \in [Calls -> Decided \union {"none", "pending"}]
        /\ grants' \subseteq {Key(b) : b \in Calls} /\ faults' \in 0..MaxFaults
    BY <2>1, DecideTyped, CallTyped DEF Decided
  <2>3. \A b \in Calls : RowKept(b)
    BY <2>1, DecideKeeps DEF Decided
  <2>4. Decides(q.call, q.choice, q.late) \in Decided
    BY <1>2, <2>1 DEF Commit, Decides, Decided
  <2>5. /\ req' \in [Tabs -> Requests]
        /\ \A u \in Tabs : req'[u].step = "stamped" => req'[u] = req[u]
    BY <1>2, <2>1, <2>4 DEF Commit, Requests, NoRequest
  <2>6. \A u \in Tabs : Refers(u)'
    BY <2>3, <2>5 DEF RowKept, Requests, NoRequest
  <2> QED
    BY <1>2, <2>2, <2>3, <2>5, <2>6 DEF Commit, commitFrame, RowKept
<1>3. CASE Resolve(t)
  <2> DEFINE q == req[t]
  <2>1. q.call \in Calls /\ q.answer \in Decided
        /\ q = [step |-> "committed", call |-> q.call, answer |-> q.answer]
    BY <1>3 DEF Resolve, Requests, NoRequest
  <2>2. [q EXCEPT !.step = "replied"] \in Requests /\ [q EXCEPT !.step = "replied"].step = "replied"
    BY <2>1 DEF Requests
  <2> QED
    BY <1>3, <2>1, <2>2 DEF Resolve
<1> QED
  BY <1>1, <1>2, <1>3 DEF RequestStep

LEMMA SurroundingsTyped ==
  ASSUME TypeInv,
         \/ Crash \/ \E o \in Outcomes : Restart(o)
         \/ \E c \in Calls : Install(c) \/ EndRun(c) \/ Elapse(c) \/ Delete(Conversation[c])
  PROVE  TypeInv'
<1> USE DEF TypeInv, TypeOK, Asked, Refers, rowVars, callVars, waitVars, clientVars
<1>1. CASE Crash
  <2>1. crashes' \in 0..MaxCrashes
    BY <1>1, BoundsAssumption DEF Crash
  <2>2. req' \in [Tabs -> Requests] /\ \A t \in Tabs : Refers(t)'
    BY <1>1 DEF Crash, Requests, NoRequest
  <2>3. pc' \in [Calls -> Active \union Ended] /\ \A c \in Calls : pc'[c] \in {pc[c], "dead"}
    BY <1>1 DEF Crash, Active, Ended
  <2> QED
    BY <1>1, <2>1, <2>2, <2>3 DEF Crash
<1>2. ASSUME NEW o \in Outcomes, Restart(o) PROVE TypeInv'
  <2>1. faults' \in 0..MaxFaults
    BY <1>2, CallTyped DEF Restart
  <2>2. decision' \in [Calls -> Decided \union {"none", "pending"}] /\ \A c \in Calls : RowKept(c)
    BY <1>2 DEF Restart, RowKept, Decided, UserDecisions
  <2>3. \A t \in Tabs : Refers(t)'
    BY <1>2, <2>2 DEF Restart, restartFrame, RowKept, Requests, NoRequest
  <2> QED
    BY <1>2, <2>1, <2>2, <2>3 DEF Restart, restartFrame, RowKept
<1>3. ASSUME NEW c \in Calls, EndRun(c) \/ Elapse(c) \/ Delete(Conversation[c]) PROVE TypeInv'
  BY <1>3 DEF EndRun, Elapse, Delete, envFrame
<1>4. ASSUME NEW c \in Calls, Install(c) PROVE TypeInv'
  BY <1>4 DEF Install, Goto, Phases, Active, Ended
<1> QED
  BY <1>1, <1>2, <1>3, <1>4

\* Every reachable state is well typed, and whoever refers to a row finds one.
LEMMA TypeInvariant == Spec => []TypeInv
<1>1. Init => TypeInv
  BY BoundsAssumption DEF Init, TypeInv, TypeOK, Asked, Refers, Ended, Requests, NoRequest
<1>2. TypeInv /\ [Next]_vars => TypeInv'
  <2>1. TypeInv /\ Next => TypeInv'
    BY CallStepTyped, CreateTyped, RequestTyped, SurroundingsTyped DEF Next
  <2>2. TypeInv /\ UNCHANGED vars => TypeInv'
    BY DEF TypeInv, TypeOK, Asked, Refers, vars, rowVars, callVars, waitVars, clientVars
  <2> QED
    BY <2>1, <2>2
<1> QED
  BY <1>1, <1>2, PTL DEF Spec

\* Every reachable state is well typed, and an answered call holds a decision.
THEOREM TypeCorrect == Spec => []TypeOK
BY TypeInvariant, PTL DEF TypeInv

\* The first decision wins: no tab, timeout, cancellation or restart changes it.
THEOREM FirstDecision == Spec => FirstDecisionWins
<1>1. TypeInv /\ [Next]_vars =>
        [\A c \in Calls : decision[c] \in Decided => decision'[c] = decision[c]]_vars
  BY RowsKept DEF RowKept, TypeInv
<1> QED
  BY <1>1, TypeInvariant, PTL DEF Spec, FirstDecisionWins

-----------------------------------------------------------------------------
(* Everybody is told the row's decision.                                     *)

TabTold(t)  == req[t].step \in {"committed", "replied"} => req[t].answer = decision[req[t].call]
CallTold(c) == /\ channel[c] # "none" => channel[c] = decision[c]
               /\ seen[c] \in Decided => seen[c] = decision[c]

LEMMA TabsTold ==
  ASSUME TypeInv, Next, \A t \in Tabs : TabTold(t), NEW u \in Tabs PROVE TabTold(u)'
<1> USE DEF TypeInv, TypeOK, TabTold
<1>1. CASE req'[u] = req[u]
  BY <1>1, RowsKept DEF RowKept, Requests, NoRequest
<1>2. CASE req'[u] = NoRequest
  BY <1>2 DEF NoRequest
<1>3. ASSUME NEW c \in Calls, NEW d \in UserDecisions, Choose(u, c, d) PROVE TabTold(u)'
  BY <1>3 DEF Choose
<1>4. ASSUME NEW o \in Outcomes, Commit(u, o) PROVE TabTold(u)'
  <2>1. req[u].call \in Calls
    BY <1>4 DEF Commit, Requests, NoRequest
  <2> QED
    BY <1>4, <2>1 DEF Commit, DecideRow, Applied, NoRequest
<1>5. CASE Resolve(u)
  <2> DEFINE q == req[u]
  <2>1. q.call \in Calls /\ q.answer \in Decided /\ q.answer = decision[q.call]
        /\ q = [step |-> "committed", call |-> q.call, answer |-> q.answer]
    BY <1>5 DEF Resolve, Requests, NoRequest
  <2>2. req'[u] = [step |-> "replied", call |-> q.call, answer |-> q.answer]
    BY <1>5, <2>1 DEF Resolve
  <2> QED
    BY <1>5, <2>1, <2>2 DEF Resolve, rowVars
<1>6. CASE Crash
  BY <1>6, <1>1, <1>2 DEF Crash
<1>7. ASSUME NEW t \in Tabs \ {u}, RequestStep(t) \/ \E c \in Calls, d \in UserDecisions : Choose(t, c, d)
      PROVE  req'[u] = req[u]
  BY <1>7 DEF RequestStep, Resolve, Commit, Choose
<1>8. ASSUME NEW c \in Calls, CallStep(c) \/ Install(c) \/ EndRun(c) \/ Elapse(c) \/ \E o \in Outcomes : Create(c, o)
      PROVE  req'[u] = req[u]
  BY <1>8 DEF CallStep, Register, Publish, PublishFails, Receive, Timeout, Abandon, Act, Refrain, Install,
     EndRun, Elapse, Create, publishFrame, waitFrame, actFrame, envFrame, clientVars
<1>9. ASSUME NEW c \in Calls, Delete(Conversation[c]) \/ \E o \in Outcomes : Restart(o)
      PROVE  req'[u] = req[u]
  BY <1>9 DEF Delete, Restart, envFrame, restartFrame, clientVars
<1>10. ASSUME NEW o \in Outcomes, Restart(o) PROVE req'[u] = req[u]
  BY <1>10 DEF Restart, restartFrame, clientVars
<1> QED
  BY <1>1, <1>3, <1>4, <1>5, <1>6, <1>7, <1>8, <1>9, <1>10 DEF Next, RequestStep

LEMMA CallsTold ==
  ASSUME TypeInv, Next, \A t \in Tabs : TabTold(t), NEW c \in Calls, CallTold(c)
  PROVE  CallTold(c)'
<1> USE DEF TypeInv, TypeOK, CallTold
<1>0. decision[c] \in Decided => decision'[c] = decision[c]
  BY RowsKept DEF RowKept
<1>1. CASE UNCHANGED <<channel, seen>>
  BY <1>0, <1>1 DEF Decided, UserDecisions
<1>2. ASSUME NEW b \in Calls, NEW o \in Outcomes, Create(b, o) PROVE CallTold(c)'
  BY <1>0, <1>2 DEF Create, Applied, waitVars, Decided, UserDecisions
<1>3. ASSUME NEW b \in Calls, Register(b) \/ Receive(b) PROVE CallTold(c)'
  BY <1>0, <1>3 DEF Register, Receive, rowVars, Decided, UserDecisions
<1>4. ASSUME NEW b \in Calls, NEW o \in Outcomes, Timeout(b, o) PROVE CallTold(c)'
  BY <1>0, <1>4 DEF Timeout, DecideRow, Applied, Decided, UserDecisions
<1>5. ASSUME NEW t \in Tabs, Resolve(t) PROVE CallTold(c)'
  <2>1. req[t].call \in Calls /\ req[t].answer = decision[req[t].call]
    BY <1>5 DEF Resolve, TabTold, Requests, NoRequest
  <2> QED
    BY <1>0, <1>5, <2>1 DEF Resolve, rowVars, callVars, Decided, UserDecisions
<1>6. CASE Crash
  BY <1>0, <1>6 DEF Crash, rowVars, Decided, UserDecisions
<1>7. ASSUME NEW b \in Calls,
             \/ Publish(b) \/ PublishFails(b) \/ Act(b) \/ Refrain(b) \/ Install(b) \/ EndRun(b) \/ Elapse(b)
             \/ Delete(Conversation[b]) \/ \E o \in Outcomes : Abandon(b, o)
      PROVE  UNCHANGED <<channel, seen>>
  BY <1>7 DEF Publish, PublishFails, Act, Refrain, Install, EndRun, Elapse, Delete, Abandon,
     publishFrame, actFrame, envFrame, waitVars, callVars
<1>8. ASSUME NEW o \in Outcomes, Restart(o) PROVE UNCHANGED <<channel, seen>>
  BY <1>8 DEF Restart, restartFrame, waitVars, callVars
<1>9. ASSUME NEW t \in Tabs,
             \/ \E o \in Outcomes : Commit(t, o)
             \/ \E b \in Calls, d \in UserDecisions : Choose(t, b, d)
      PROVE  UNCHANGED <<channel, seen>>
  BY <1>9 DEF Commit, Choose, commitFrame, waitVars, callVars
<1> QED
  BY <1>1, <1>2, <1>3, <1>4, <1>5, <1>6, <1>7, <1>8, <1>9 DEF Next, CallStep, RequestStep

\* Every tab, channel and tool call that is told a decision is told the row's.
THEOREM OneAnswerForAll == Spec => []OneAnswer
<1> DEFINE Inv == (\A t \in Tabs : TabTold(t)) /\ (\A c \in Calls : CallTold(c))
<1>1. Init => Inv
  BY DEF Init, TabTold, CallTold, NoRequest, Decided, UserDecisions
<1>2. TypeInv /\ Inv /\ [Next]_vars => Inv'
  <2>1. TypeInv /\ Inv /\ Next => Inv'
    BY TabsTold, CallsTold
  <2>2. Inv /\ UNCHANGED vars => Inv'
    BY DEF TabTold, CallTold, vars, rowVars, callVars, waitVars, clientVars
  <2> QED
    BY <2>1, <2>2
<1>3. Inv <=> OneAnswer
  BY DEF TabTold, CallTold, OneAnswer
<1> QED
  BY <1>1, <1>2, <1>3, TypeInvariant, PTL DEF Spec

-----------------------------------------------------------------------------
(* The user's word.  An allowing row, a grant and a request in time each come *)
(* from a choice in time, and a call acts on its row.                         *)

GrantChosen(g)   == \E b \in Grantable : Key(b) = g /\ <<b, "allow_conversation">> \in chosen
\* An explicit install runs on the word of the message.
Acted(c)         == \A p \in effects[c] : (p = "act" /\ c \in Explicit) \/ decision[c] \in Allowing
RowChosen(c)     == decision[c] \in Allowing => Authorized(c)
RequestChosen(t) ==
  req[t].step = "stamped" /\ ~req[t].late /\ req[t].choice \in Allowing => <<req[t].call, req[t].choice>> \in chosen
WordInv ==
  /\ \A g \in grants : GrantChosen(g)
  /\ \A c \in Calls : RowChosen(c) /\ Acted(c)
  /\ \A t \in Tabs : RequestChosen(t)

LEMMA ChosenGrows == ASSUME Next PROVE chosen \subseteq chosen'
<1>1. ASSUME NEW c \in Calls,
             \/ Register(c) \/ Publish(c) \/ PublishFails(c) \/ Receive(c) \/ Act(c) \/ Refrain(c) \/ Install(c)
             \/ \E o \in Outcomes : Timeout(c, o) \/ Abandon(c, o) \/ Create(c, o)
      PROVE  chosen' = chosen
  BY <1>1 DEF Register, Publish, PublishFails, Receive, Timeout, Abandon, Act, Refrain, Install, Create,
     publishFrame, waitFrame, actFrame, clientVars
<1>2. ASSUME NEW c \in Calls, EndRun(c) \/ Elapse(c) \/ Delete(Conversation[c]) PROVE chosen' = chosen
  BY <1>2 DEF EndRun, Elapse, Delete, envFrame, clientVars
<1>3. ASSUME NEW t \in Tabs, RequestStep(t) PROVE chosen' = chosen
  BY <1>3 DEF RequestStep, Resolve, Commit, commitFrame
<1>4. ASSUME NEW t \in Tabs, NEW c \in Calls, NEW d \in UserDecisions, Choose(t, c, d)
      PROVE  chosen \subseteq chosen'
  BY <1>4 DEF Choose
<1>5. Crash \/ (\E o \in Outcomes : Restart(o)) => chosen' = chosen
  BY DEF Crash, Restart, envFrame, restartFrame, clientVars
<1> QED
  BY <1>1, <1>2, <1>3, <1>4, <1>5 DEF Next, CallStep

LEMMA AuthorizedGrows ==
  ASSUME Next PROVE /\ \A c \in Calls : Authorized(c) => Authorized(c)'
                    /\ \A g : GrantChosen(g) => GrantChosen(g)'
BY ChosenGrows DEF Authorized, GrantChosen, Key

\* The statement allows, and grants, only what is chosen in time.
LEMMA DecideChosen ==
  ASSUME TypeOK, WordInv, NEW c \in Calls, NEW d \in Decided, NEW late, NEW o, DecideRow(c, d, late, o),
         ~late /\ d \in Allowing => <<c, d>> \in chosen
  PROVE  /\ \A g \in grants' : GrantChosen(g)
         /\ \A b \in Calls : decision'[b] \in Allowing => Authorized(b)
         /\ \A b \in Calls : decision[b] \in Allowing => decision'[b] \in Allowing
<1>1. Decidable(c, d, late) /\ decision[c] = "pending" /\ Decides(c, d, late) = "allow_conversation"
        => c \in Grantable /\ <<c, "allow_conversation">> \in chosen
  BY DEF Decidable, Decides, Allowing
<1>2. Decidable(c, d, late) /\ Decides(c, d, late) \in Allowing => Authorized(c)
  BY <1>1 DEF Decides, Allowing, WordInv, RowChosen, Authorized, TypeOK
<1>3. \A g \in grants' : GrantChosen(g)
  BY <1>1 DEF DecideRow, WordInv, GrantChosen
<1>4. \A b \in Calls : decision'[b] \in Allowing => Authorized(b)
  BY <1>2 DEF DecideRow, WordInv, RowChosen, TypeOK
<1>5. \A b \in Calls : decision[b] \in Allowing => decision'[b] \in Allowing
  BY DEF DecideRow, Decides, Allowing, TypeOK
<1> QED
  BY <1>3, <1>4, <1>5

LEMMA WordKept ==
  ASSUME TypeInv, WordInv, OneAnswer, Next PROVE WordInv'
<1> USE DEF TypeInv
<1>0. /\ \A c \in Calls : Authorized(c) => Authorized(c)'
      /\ \A g : GrantChosen(g) => GrantChosen(g)'
      /\ chosen \subseteq chosen'
  BY AuthorizedGrows, ChosenGrows
<1> DEFINE Rows   == (\A g \in grants' : GrantChosen(g)) /\ (\A b \in Calls : decision'[b] \in Allowing => Authorized(b))
           Kept   == \A b \in Calls : decision[b] \in Allowing => decision'[b] \in Allowing
           Asking == \A t \in Tabs : RequestChosen(t)'
           Acting == \A b \in Calls : Acted(b)'
<1>1. ASSUME Rows, Asking, Acting PROVE WordInv'
  BY <1>0, <1>1 DEF WordInv, RowChosen
<1>2. ASSUME UNCHANGED rowVars PROVE Rows /\ Kept
  BY <1>2 DEF rowVars, WordInv, RowChosen
<1>3. ASSUME \A t \in Tabs : req'[t] = req[t] \/ req'[t].step # "stamped" PROVE Asking
  BY <1>0, <1>3 DEF WordInv, RequestChosen
<1>4. ASSUME Kept, effects' = effects PROVE Acting
  BY <1>4 DEF WordInv, Acted
<1>5. ASSUME NEW c \in Calls, NEW o \in Outcomes, Create(c, o) PROVE WordInv'
  <2>1. Created(c) \in Allowing /\ decision[c] \notin Allowing => Authorized(c)
    BY DEF Created, Allowing, WordInv, GrantChosen, Authorized
  <2>2. Rows /\ Kept
    BY <1>5, <2>1 DEF Create, WordInv, RowChosen, TypeOK, Created, Allowing
  <2> QED
    BY <1>1, <1>3, <1>4, <1>5, <2>2 DEF Create, clientVars
<1>6. ASSUME NEW c \in Calls, NEW o \in Outcomes, Timeout(c, o) \/ Abandon(c, o) PROVE WordInv'
  <2>1. ASSUME Timeout(c, o) PROVE Rows /\ Kept
    <3>1. DecideRow(c, "expired", TRUE, o) /\ "expired" \in Decided /\ "expired" \notin Allowing
      BY <2>1 DEF Timeout, Decided, Allowing
    <3> QED
      BY <3>1, DecideChosen
  <2>2. ASSUME Abandon(c, o) PROVE Rows /\ Kept
    <3>1. DecideRow(c, "deny", c \in due, o) /\ "deny" \in Decided /\ "deny" \notin Allowing
      BY <2>2 DEF Abandon, Decided, UserDecisions, Allowing
    <3> QED
      BY <3>1, DecideChosen
  <2>3. Rows /\ Kept
    BY <1>6, <2>1, <2>2
  <2> QED
    BY <1>1, <1>3, <1>4, <1>6, <2>3 DEF Timeout, Abandon, waitFrame, clientVars
<1>7. ASSUME NEW t \in Tabs, NEW o \in Outcomes, Commit(t, o) PROVE WordInv'
  <2>1. req[t].call \in Calls /\ req[t].choice \in Decided
    BY <1>7 DEF Commit, TypeOK, Requests, NoRequest, Decided
  <2>2. Rows /\ Kept
    BY <1>7, <2>1, DecideChosen DEF Commit, WordInv, RequestChosen
  <2>3. \A u \in Tabs : req'[u] = req[u] \/ req'[u].step # "stamped"
    BY <1>7 DEF Commit, TypeOK, NoRequest
  <2> QED
    BY <1>1, <1>3, <1>4, <1>7, <2>2, <2>3 DEF Commit, commitFrame, callVars
<1>8. ASSUME NEW t \in Tabs, NEW c \in Calls, NEW d \in UserDecisions, Choose(t, c, d) PROVE WordInv'
  <2>1. Asking
    BY <1>0, <1>8 DEF Choose, WordInv, RequestChosen, TypeOK
  <2> QED
    BY <1>1, <1>2, <1>4, <1>8, <2>1 DEF Choose, callVars
<1>9. ASSUME NEW t \in Tabs, Resolve(t) PROVE WordInv'
  <2>1. \A u \in Tabs : req'[u] = req[u] \/ req'[u].step # "stamped"
    BY <1>9 DEF Resolve, TypeOK, Requests, NoRequest
  <2> QED
    BY <1>1, <1>2, <1>3, <1>4, <1>9, <2>1 DEF Resolve, callVars
<1>10. ASSUME NEW c \in Calls, Act(c) PROVE WordInv'
  <2>1. decision[c] \in Allowing
    BY <1>10 DEF Act, OneAnswer, Allowing, Decided, UserDecisions
  <2>2. Acting
    BY <1>10, <2>1 DEF Act, actFrame, rowVars, WordInv, TypeOK, Acted
  <2> QED
    BY <1>1, <1>2, <1>3, <1>10, <2>2 DEF Act, actFrame, clientVars
<1>11. ASSUME NEW c \in Calls,
              \/ Register(c) \/ Publish(c) \/ PublishFails(c) \/ Receive(c) \/ Refrain(c)
              \/ EndRun(c) \/ Elapse(c) \/ Delete(Conversation[c])
       PROVE  WordInv'
  <2>1. UNCHANGED rowVars /\ effects' = effects /\ req' = req
    BY <1>11 DEF Register, Publish, PublishFails, Receive, Refrain, EndRun, Elapse, Delete,
       publishFrame, waitFrame, actFrame, envFrame, clientVars, callVars
  <2> QED
    BY <1>1, <1>2, <1>3, <1>4, <2>1
<1>12. CASE Crash
  <2>1. \A u \in Tabs : req'[u] = req[u] \/ req'[u].step # "stamped"
    BY <1>12 DEF Crash, NoRequest
  <2> QED
    BY <1>1, <1>2, <1>3, <1>4, <1>12, <2>1 DEF Crash
<1>13. ASSUME NEW o \in Outcomes, Restart(o) PROVE WordInv'
  <2>1. Rows /\ Kept
    BY <1>13 DEF Restart, restartFrame, WordInv, RowChosen, TypeOK, Allowing
  <2> QED
    BY <1>1, <1>3, <1>4, <1>13, <2>1 DEF Restart, restartFrame, callVars, clientVars
<1>14. ASSUME NEW c \in Calls, Install(c) PROVE WordInv'
  <2>1. UNCHANGED rowVars /\ req' = req
    BY <1>14 DEF Install, clientVars
  <2>2. Acting
    BY <1>14, <2>1 DEF Install, rowVars, WordInv, TypeOK, Acted
  <2> QED
    BY <1>1, <1>2, <1>3, <2>1, <2>2
<1> QED
  BY <1>5, <1>6, <1>7, <1>8, <1>9, <1>10, <1>11, <1>12, <1>13, <1>14 DEF Next, CallStep, RequestStep

\* No tool call takes effect unless the user allowed it in time, or allowed its
\* tool for its conversation in time; an install the message asked for needs
\* that only for its second phase.
THEOREM ActsOnTheUsersWord == Spec => []ApprovedOnly
<1>1. Init => WordInv
  BY DEF Init, WordInv, Acted, RowChosen, RequestChosen, NoRequest, Allowing
<1>2. TypeInv /\ OneAnswer /\ WordInv /\ [Next]_vars => WordInv'
  <2>1. WordInv /\ UNCHANGED vars => WordInv'
    BY DEF WordInv, Acted, GrantChosen, RowChosen, RequestChosen, Authorized, Key, vars, rowVars, callVars, clientVars
  <2> QED
    BY <2>1, WordKept
<1>3. WordInv => ApprovedOnly
  BY DEF WordInv, Acted, RowChosen, ApprovedOnly
<1> QED
  BY <1>1, <1>2, <1>3, TypeInvariant, OneAnswerForAll, PTL DEF Spec

-----------------------------------------------------------------------------
(* An answer reaches the call that waits.  A tab answers a card it has seen,  *)
(* and no card of a call is seen before its waiter is registered: nobody can  *)
(* answer into the gap between the row and the waiter.                        *)

CardLater(c) ==
  /\ pc[c] \in {"idle", "created", "registered"} => cards[c] = {}
  /\ pc[c] = "again" => cards[c] = {} \/ decision[c] \in Decided
Listens(c) ==
  /\ pc[c] = "registered" => c \in waiters
  /\ pc[c] = "waiting" => c \in waiters \/ channel[c] # "none"
CardFirst(t) == req[t].step # "none" => cards[req[t].call] # {}
DeliveryInv == /\ \A c \in Calls : CardLater(c) /\ Listens(c)
               /\ \A t \in Tabs : CardFirst(t)
               /\ AnswerDelivered

\* A tab's request names a call.
LEMMA Requested ==
  ASSUME TypeOK, NEW t \in Tabs
  PROVE  /\ req[t].step \in {"none", "stamped", "committed", "replied"}
         /\ req[t].step # "none" => req[t].call \in Calls
         /\ req[t].step = "committed" => req[t].answer \in Decided
BY DEF TypeOK, Requests, NoRequest

\* The requests that a step leaves alone, or drops.
LEMMA RequestsStay ==
  ASSUME TypeOK, DeliveryInv,
         \A c \in Calls : cards[c] # {} => cards'[c] # {},
         \A t \in Tabs : req'[t] = req[t] \/ req'[t] = NoRequest,
         \A c \in Calls : pc'[c] = "waiting" =>
           \/ pc[c] = "waiting" /\ channel'[c] = channel[c]
           \/ cards[c] = {}
  PROVE  (\A t \in Tabs : CardFirst(t)') /\ AnswerDelivered'
<1> SUFFICES ASSUME NEW t \in Tabs
             PROVE  /\ CardFirst(t)'
                    /\ req'[t].step = "replied" /\ pc'[req'[t].call] = "waiting" => channel'[req'[t].call] # "none"
  BY DEF AnswerDelivered
<1>1. CASE req'[t] = NoRequest
  BY <1>1 DEF NoRequest, CardFirst
<1>2. CASE req'[t] = req[t]
  BY <1>2, Requested DEF CardFirst, DeliveryInv, AnswerDelivered
<1> QED
  BY <1>1, <1>2

LEMMA DeliveryKept ==
  ASSUME TypeInv, OneAnswer, DeliveryInv, Next PROVE DeliveryInv'
<1> USE DEF TypeInv
<1>1. ASSUME NEW c \in Calls,
             \/ Register(c) \/ Publish(c) \/ PublishFails(c) \/ Receive(c) \/ Act(c) \/ Refrain(c) \/ Install(c)
             \/ \E o \in Outcomes : Timeout(c, o) \/ Abandon(c, o) \/ Create(c, o)
      PROVE  DeliveryInv'
  <2>1. /\ \A b \in Calls \ {c} : pc'[b] = pc[b] /\ cards'[b] = cards[b] /\ channel'[b] = channel[b]
        /\ \A b \in Calls \ {c} : b \in waiters' <=> b \in waiters
        /\ req' = req /\ (cards[c] # {} => cards'[c] # {})
    <3>1. req' = req
      BY <1>1 DEF Register, Publish, PublishFails, Receive, Act, Refrain, Install, Timeout, Abandon, Create,
         publishFrame, waitFrame, actFrame, clientVars
    <3>2. (\A b \in Calls \ {c} : cards'[b] = cards[b]) /\ (cards[c] # {} => cards'[c] # {})
      <4>1. CASE Publish(c)
        BY <4>1 DEF Publish, TypeOK
      <4>2. CASE ~Publish(c)
        <5>1. cards' = cards
          BY <1>1, <4>2 DEF Register, PublishFails, Receive, Act, Refrain, Install, Timeout, Abandon, Create,
             publishFrame, waitFrame, actFrame, callVars
        <5> QED
          BY <5>1
      <4> QED
        BY <4>1, <4>2
    <3>3. \A b \in Calls \ {c} : pc'[b] = pc[b]
      BY <1>1 DEF Register, Publish, PublishFails, Receive, Act, Refrain, Install, Timeout, Abandon, Create,
         Goto, TypeOK
    <3>4. \A b \in Calls \ {c} : channel'[b] = channel[b] /\ (b \in waiters' <=> b \in waiters)
      BY <1>1 DEF Register, Publish, PublishFails, Receive, Act, Refrain, Install, Timeout, Abandon, Create,
         publishFrame, actFrame, waitVars, TypeOK
    <3> QED
      BY <3>1, <3>2, <3>3, <3>4
  <2>2. \A b \in Calls : RowKept(b)
    BY RowsKept
  <2>3. CardLater(c)' /\ Listens(c)'
    <3>1. CASE Register(c)
      BY <3>1 DEF Register, Goto, DeliveryInv, CardLater, Listens, TypeOK, callVars
    <3>2. CASE Publish(c)
      BY <3>2 DEF Publish, publishFrame, waitVars, Goto, DeliveryInv, CardLater, Listens, TypeOK
    <3>3. CASE \/ PublishFails(c) \/ Receive(c) \/ Refrain(c)
               \/ \E o \in Outcomes : Timeout(c, o) \/ Abandon(c, o)
      BY <3>3 DEF PublishFails, Receive, Refrain, Timeout, Abandon, Goto, CardLater, Listens, TypeOK
    <3>4. CASE Act(c)
      <4>1. decision[c] \in Decided
        BY <3>4 DEF Act, OneAnswer, Allowing, Decided, UserDecisions
      <4> QED
        BY <3>4, <4>1, <2>2 DEF Act, Goto, CardLater, Listens, TypeOK, RowKept
    <3>5. CASE Install(c)
      BY <3>5 DEF Install, Goto, DeliveryInv, CardLater, Listens, TypeOK
    <3>6. ASSUME NEW o \in Outcomes, Create(c, o) PROVE CardLater(c)' /\ Listens(c)'
      <4>1. /\ cards' = cards /\ pc'[c] \in {"created", "answered", "failed"}
            /\ pc'[c] = "created" => Created(c) = "pending"
        BY <3>6 DEF Create, Goto, TypeOK
      <4>2. Created(c) = "pending" => decision[c] \notin Decided
        BY DEF Created, Decided, UserDecisions
      <4>3. pc'[c] = "created" => cards[c] = {}
        BY <3>6, <4>1, <4>2 DEF Create, DeliveryInv, CardLater
      <4>4. CardLater(c)'
        BY <4>1, <4>3 DEF CardLater
      <4>5. Listens(c)'
        BY <4>1 DEF Listens
      <4> QED
        BY <4>4, <4>5
    <3> QED
      BY <1>1, <3>1, <3>2, <3>3, <3>4, <3>5, <3>6
  <2>4. \A b \in Calls \ {c} : CardLater(b)' /\ Listens(b)'
    BY <2>1, <2>2 DEF DeliveryInv, CardLater, Listens, RowKept
  <2>5. pc'[c] = "waiting" => cards[c] = {}
    <3>1. pc'[c] = "waiting" => Publish(c)
      BY <1>1 DEF Register, PublishFails, Receive, Act, Refrain, Install, Timeout, Abandon, Create, Goto, TypeOK
    <3> QED
      BY <3>1 DEF Publish, DeliveryInv, CardLater
  <2>6. /\ \A b \in Calls : cards[b] # {} => cards'[b] # {}
        /\ \A b \in Calls : pc'[b] = "waiting" =>
             \/ pc[b] = "waiting" /\ channel'[b] = channel[b]
             \/ cards[b] = {}
    BY <2>1, <2>5
  <2>7. (\A t \in Tabs : CardFirst(t)') /\ AnswerDelivered'
    BY <2>1, <2>6, RequestsStay
  <2> QED
    BY <2>3, <2>4, <2>7 DEF DeliveryInv
<1>2. ASSUME NEW c \in Calls, EndRun(c) \/ Elapse(c) \/ Delete(Conversation[c]) PROVE DeliveryInv'
  <2>1. UNCHANGED <<decision, pc, cards, waiters, channel, req>>
    BY <1>2 DEF EndRun, Elapse, Delete, envFrame, rowVars, callVars, waitVars, clientVars
  <2> QED
    BY <2>1 DEF DeliveryInv, CardLater, Listens, CardFirst, AnswerDelivered
<1>3. ASSUME NEW t \in Tabs, NEW c \in Calls, NEW d \in UserDecisions, Choose(t, c, d) PROVE DeliveryInv'
  <2>1. /\ UNCHANGED <<decision, pc, cards, waiters, channel>> /\ cards[c] # {}
        /\ req'[t].step = "stamped" /\ req'[t].call = c
        /\ \A u \in Tabs \ {t} : req'[u] = req[u]
    BY <1>3 DEF Choose, rowVars, callVars, waitVars, TypeOK
  <2> QED
    BY <2>1 DEF DeliveryInv, CardLater, Listens, CardFirst, AnswerDelivered
<1>4. ASSUME NEW t \in Tabs, NEW o \in Outcomes, Commit(t, o) PROVE DeliveryInv'
  <2>1. /\ UNCHANGED <<pc, cards, waiters, channel>> /\ \A u \in Tabs \ {t} : req'[u] = req[u]
        /\ \/ req'[t] = NoRequest
           \/ req'[t].step = "committed" /\ req'[t].call = req[t].call /\ req[t].step # "none"
    BY <1>4 DEF Commit, commitFrame, callVars, waitVars, TypeOK
  <2>2. \A b \in Calls : RowKept(b)
    BY RowsKept
  <2> QED
    BY <2>1, <2>2 DEF DeliveryInv, CardLater, Listens, CardFirst, AnswerDelivered, RowKept, NoRequest
<1>5. ASSUME NEW t \in Tabs, Resolve(t) PROVE DeliveryInv'
  <2>1. PICK c \in Calls : c = req[t].call
    BY <1>5, Requested DEF Resolve
  <2>2. /\ UNCHANGED <<decision, pc, cards>> /\ \A u \in Tabs \ {t} : req'[u] = req[u]
        /\ waiters' = waiters \ {c} /\ req[t].answer # "none" /\ cards[c] # {}
        /\ channel' = IF c \in waiters THEN [channel EXCEPT ![c] = req[t].answer] ELSE channel
    BY <1>5, <2>1, Requested DEF Resolve, rowVars, callVars, TypeOK, Decided, UserDecisions, DeliveryInv, CardFirst
  <2>3. req'[t].step = "replied" /\ req'[t].call = c
    <3>1. req[t] = [step |-> "committed", call |-> req[t].call, answer |-> req[t].answer]
      BY <1>5 DEF Resolve, TypeOK, Requests, NoRequest
    <3> QED
      BY <1>5, <2>1, <3>1 DEF Resolve, TypeOK
  <2>4. /\ c \in waiters => channel'[c] # "none"
        /\ c \notin waiters => channel'[c] = channel[c]
        /\ \A b \in Calls \ {c} : channel'[b] = channel[b]
    BY <2>2 DEF TypeOK
  <2>5. \A b \in Calls : CardLater(b)' /\ Listens(b)'
    BY <2>2, <2>4 DEF DeliveryInv, CardLater, Listens
  <2>6. pc[c] = "waiting" => channel'[c] # "none"
    BY <2>4 DEF DeliveryInv, Listens
  <2>7. \A u \in Tabs : CardFirst(u)'
    BY <2>2, <2>3 DEF DeliveryInv, CardFirst
  <2>8. AnswerDelivered'
    <3> SUFFICES ASSUME NEW u \in Tabs, req'[u].step = "replied", pc'[req'[u].call] = "waiting"
                 PROVE  channel'[req'[u].call] # "none"
      BY DEF AnswerDelivered
    <3>1. CASE req'[u].call = c
      BY <2>2, <2>6, <3>1
    <3>2. CASE req'[u].call # c
      BY <2>2, <2>3, <2>4, <3>2, Requested DEF DeliveryInv, AnswerDelivered
    <3> QED
      BY <3>1, <3>2
  <2> QED
    BY <2>5, <2>7, <2>8 DEF DeliveryInv
<1>6. CASE Crash
  <2>1. /\ \A c \in Calls : pc'[c] \notin Active /\ (pc'[c] = pc[c] \/ pc'[c] = "dead")
        /\ UNCHANGED <<decision, cards>> /\ \A t \in Tabs : req'[t] = req[t] \/ req'[t] = NoRequest
    BY <1>6 DEF Crash, rowVars, TypeOK, Active, Ended
  <2>2. \A c \in Calls : CardLater(c)' /\ Listens(c)'
    BY <2>1 DEF DeliveryInv, CardLater, Listens, Active
  <2> QED
    BY <2>1, <2>2, RequestsStay DEF DeliveryInv, Active
<1>7. ASSUME NEW o \in Outcomes, Restart(o) PROVE DeliveryInv'
  <2>1. UNCHANGED <<pc, cards, waiters, channel, req>>
    BY <1>7 DEF Restart, restartFrame, callVars, waitVars, clientVars
  <2>2. \A b \in Calls : RowKept(b)
    BY RowsKept
  <2> QED
    BY <2>1, <2>2 DEF DeliveryInv, CardLater, Listens, CardFirst, AnswerDelivered, RowKept
<1> QED
  BY <1>1, <1>2, <1>3, <1>4, <1>5, <1>6, <1>7 DEF Next, CallStep, RequestStep

\* register precedes the awaiting_approval event in chatToolApprovalRuntime, so
\* that a decision that was answered is in the channel of the call that waits
\* for it, whatever else is decided, crashes or runs out meanwhile.
THEOREM AnswersArrive == Spec => []AnswerDelivered
<1>1. Init => DeliveryInv
  BY DEF Init, DeliveryInv, CardLater, Listens, CardFirst, AnswerDelivered, NoRequest
<1>2. TypeInv /\ OneAnswer /\ DeliveryInv /\ [Next]_vars => DeliveryInv'
  <2>1. DeliveryInv /\ UNCHANGED vars => DeliveryInv'
    BY DEF DeliveryInv, CardLater, Listens, CardFirst, AnswerDelivered, vars, rowVars, callVars, waitVars, clientVars
  <2> QED
    BY <2>1, DeliveryKept
<1>3. DeliveryInv => AnswerDelivered
  BY DEF DeliveryInv
<1> QED
  BY <1>1, <1>2, <1>3, TypeInvariant, OneAnswerForAll, PTL DEF Spec

-----------------------------------------------------------------------------
(* The configuration card.  An install that the message asked for asks only    *)
(* once, for its configuration: it publishes that card before it waits, and    *)
(* as no grant names its tool, it does not act before it has waited.  What     *)
(* refutes ConfigurationAwaited is an install that has asked before.           *)

GrantsInv == \A g \in grants : \E b \in Grantable : Key(b) = g

\* An install the message asked for.
Configured(c) ==
  /\ pc[c] \in {"idle", "again"} => decision[c] = "none"
  /\ pc[c] \in Active => effects[c] = {"act"}
  /\ pc[c] = "waiting" \/ (pc[c] = "answered" /\ seen[c] \in Allowing) => "configure" \in cards[c]
  /\ "configure" \in effects[c] => "configure" \in cards[c]

\* A call without a configuration.
OnePhase(c) ==
  /\ pc[c] # "again"
  /\ pc[c] \in Active \union {"idle"} => effects[c] = {}
  /\ "configure" \notin effects[c]

ConfigInv ==
  /\ GrantsInv
  /\ \A c \in Explicit : Configured(c)
  /\ \A c \in Calls \ Handoff : OnePhase(c)

\* The terminal and the installer are different tools.
ToolsApart == \A b \in Grantable, c \in Explicit : Tool[b] # Tool[c]

\* A statement grants what a terminal call asked for, and makes no row.
LEMMA DecideGrants ==
  ASSUME TypeOK, GrantsInv, NEW b \in Calls, NEW d \in Decided, NEW late, NEW o, DecideRow(b, d, late, o)
  PROVE  GrantsInv' /\ \A c \in Calls : decision[c] = "none" => decision'[c] = "none"
<1>1. Decidable(b, d, late) /\ decision[b] = "pending" /\ Decides(b, d, late) = "allow_conversation"
        => b \in Grantable
  BY DEF Decidable, Decides
<1>2. \A g \in grants' : g \in grants \/ (b \in Grantable /\ g = Key(b))
  BY <1>1 DEF DecideRow
<1>3. GrantsInv'
  BY <1>2 DEF GrantsInv, Key
<1>4. \A c \in Calls : decision[c] = "none" => decision'[c] = "none"
  BY DEF DecideRow, Decides, TypeOK
<1> QED
  BY <1>3, <1>4

LEMMA GrantsKept ==
  ASSUME TypeInv, GrantsInv, Next PROVE GrantsInv'
<1>1. ASSUME NEW c \in Calls, NEW o \in Outcomes, Timeout(c, o) \/ Abandon(c, o) PROVE GrantsInv'
  BY <1>1, DecideGrants DEF Timeout, Abandon, TypeInv, Decided, UserDecisions
<1>2. ASSUME NEW t \in Tabs, NEW o \in Outcomes, Commit(t, o) PROVE GrantsInv'
  <2>1. req[t].call \in Calls /\ req[t].choice \in Decided
    BY <1>2 DEF Commit, TypeInv, TypeOK, Requests, NoRequest, Decided
  <2> QED
    BY <1>2, <2>1, DecideGrants DEF Commit, TypeInv
<1>3. grants' = grants => GrantsInv'
  BY DEF GrantsInv, Key
<1>4. ASSUME NEW c \in Calls,
             \/ Register(c) \/ Publish(c) \/ PublishFails(c) \/ Receive(c) \/ Act(c) \/ Refrain(c)
             \/ Install(c) \/ EndRun(c) \/ Elapse(c) \/ Delete(Conversation[c])
             \/ \E o \in Outcomes : Create(c, o)
      PROVE  grants' = grants
  BY <1>4 DEF Register, Publish, PublishFails, Receive, Act, Refrain, Install, EndRun, Elapse, Delete,
     Create, publishFrame, waitFrame, actFrame, envFrame, rowVars
<1>5. ASSUME NEW t \in Tabs, Resolve(t) \/ \E c \in Calls, d \in UserDecisions : Choose(t, c, d)
      PROVE  grants' = grants
  BY <1>5 DEF Resolve, Choose, rowVars
<1>6. Crash \/ (\E o \in Outcomes : Restart(o)) => grants' = grants
  BY DEF Crash, Restart, restartFrame, rowVars
<1> QED
  BY <1>1, <1>2, <1>3, <1>4, <1>5, <1>6 DEF Next, CallStep, RequestStep

\* What the steps of others, of tabs and of the surroundings leave of a call.
Untouched(c) ==
  /\ cards'[c] = cards[c] /\ effects'[c] = effects[c]
  /\ (pc'[c] = pc[c] /\ seen'[c] = seen[c]) \/ pc'[c] \in {"failed", "dead"}
  /\ decision[c] = "none" => decision'[c] = "none"

LEMMA UntouchedKeeps ==
  ASSUME NEW c \in Calls, Untouched(c)
  PROVE  (Configured(c) => Configured(c)') /\ (OnePhase(c) => OnePhase(c)')
BY DEF Untouched, Configured, OnePhase, Active

\* The steps of one call that do not touch another.
LEMMA OthersUntouched ==
  ASSUME TypeInv, NEW c \in Calls,
         CallStep(c) \/ Install(c) \/ \E o \in Outcomes : Create(c, o)
  PROVE  \A b \in Calls \ {c} : Untouched(b)
<1> SUFFICES ASSUME NEW b \in Calls \ {c} PROVE Untouched(b)
  OBVIOUS
<1>1. ASSUME NEW o \in Outcomes, Timeout(c, o) \/ Abandon(c, o) PROVE Untouched(b)
  <2>1. DecideRow(c, "expired", TRUE, o) \/ DecideRow(c, "deny", c \in due, o)
    BY <1>1 DEF Timeout, Abandon
  <2>2. decision'[b] = decision[b]
    BY <2>1 DEF DecideRow, TypeInv, TypeOK
  <2>3. pc'[b] = pc[b] /\ seen'[b] = seen[b]
    BY <1>1 DEF Timeout, Abandon, Goto, TypeInv, TypeOK
  <2>4. cards' = cards /\ effects' = effects
    BY <1>1 DEF Timeout, Abandon, waitFrame
  <2> QED
    BY <2>2, <2>3, <2>4 DEF Untouched
<1>2. ASSUME NEW o \in Outcomes, Create(c, o) PROVE Untouched(b)
  BY <1>2 DEF Create, Goto, Untouched, TypeInv, TypeOK
<1>3. ASSUME Register(c) \/ Publish(c) \/ PublishFails(c) \/ Receive(c) \/ Act(c) \/ Refrain(c) \/ Install(c)
      PROVE  Untouched(b)
  BY <1>3 DEF Register, Publish, PublishFails, Receive, Act, Refrain, Install, Goto, Untouched,
     publishFrame, waitFrame, actFrame, rowVars, TypeInv, TypeOK
<1> QED
  BY <1>1, <1>2, <1>3 DEF CallStep

\* The steps of tabs and of the surroundings touch none.
LEMMA NoneTouched ==
  ASSUME TypeInv, GrantsInv,
         \/ \E c \in Calls : EndRun(c) \/ Elapse(c) \/ Delete(Conversation[c])
         \/ \E t \in Tabs : RequestStep(t) \/ \E c \in Calls, d \in UserDecisions : Choose(t, c, d)
         \/ Crash \/ \E o \in Outcomes : Restart(o)
  PROVE  \A b \in Calls : Untouched(b)
<1> SUFFICES ASSUME NEW b \in Calls PROVE Untouched(b)
  OBVIOUS
<1>1. ASSUME NEW c \in Calls, EndRun(c) \/ Elapse(c) \/ Delete(Conversation[c]) PROVE Untouched(b)
  BY <1>1 DEF EndRun, Elapse, Delete, envFrame, rowVars, callVars, Untouched
<1>2. ASSUME NEW t \in Tabs, NEW o \in Outcomes, Commit(t, o) PROVE Untouched(b)
  <2>1. req[t].call \in Calls /\ req[t].choice \in Decided
    BY <1>2 DEF Commit, TypeInv, TypeOK, Requests, NoRequest, Decided
  <2>2. decision[b] = "none" => decision'[b] = "none"
    BY <1>2, <2>1, DecideGrants DEF Commit, TypeInv
  <2> QED
    BY <1>2, <2>2 DEF Commit, commitFrame, callVars, Untouched
<1>3. ASSUME NEW t \in Tabs, Resolve(t) \/ \E c \in Calls, d \in UserDecisions : Choose(t, c, d)
      PROVE  Untouched(b)
  BY <1>3 DEF Resolve, Choose, rowVars, callVars, Untouched
<1>4. CASE Crash
  BY <1>4 DEF Crash, rowVars, Untouched
<1>5. ASSUME NEW o \in Outcomes, Restart(o) PROVE Untouched(b)
  BY <1>5 DEF Restart, restartFrame, callVars, Untouched
<1> QED
  BY <1>1, <1>2, <1>3, <1>4, <1>5 DEF RequestStep

\* The steps of an install the message asked for.
LEMMA ConfiguredKept ==
  ASSUME TypeInv, GrantsInv, ToolsApart, NEW c \in Explicit, c \in Calls, c \in Handoff, Configured(c),
         CallStep(c) \/ Install(c) \/ \E o \in Outcomes : Create(c, o)
  PROVE  Configured(c)'
<1>1. ASSUME NEW o \in Outcomes, Create(c, o) PROVE Configured(c)'
  <2>1. pc[c] = "again" /\ decision[c] = "none" /\ effects[c] = {"act"} /\ effects' = effects
    BY <1>1 DEF Create, Configured, Active
  <2>2. Key(c) \notin grants
    BY DEF GrantsInv, ToolsApart, Key
  <2>3. Created(c) = "pending"
    BY <2>1, <2>2 DEF Created
  <2>4. pc'[c] \in {"created", "failed"}
    BY <1>1, <2>3 DEF Create, Goto, TypeInv, TypeOK
  <2> QED
    BY <2>1, <2>4 DEF Configured
<1>2. CASE Install(c)
  BY <1>2 DEF Install, Configured, Goto, rowVars, TypeInv, TypeOK, Asked
<1>3. CASE Publish(c)
  <2>1. pc'[c] = "waiting" /\ effects[c] = {"act"} /\ effects' = effects
    BY <1>3 DEF Publish, publishFrame, Goto, Configured, Active, TypeInv, TypeOK
  <2>2. "configure" \in cards'[c]
    BY <1>3, <2>1 DEF Publish, Phase, TypeInv, TypeOK
  <2> QED
    BY <2>1, <2>2 DEF Configured
<1>4. CASE Receive(c)
  BY <1>4 DEF Receive, waitFrame, Goto, Configured, Active, TypeInv, TypeOK
<1>5. ASSUME NEW o \in Outcomes, Timeout(c, o) \/ Abandon(c, o) PROVE Configured(c)'
  <2>1. pc[c] = "waiting" /\ pc'[c] \in {"answered", "failed"} /\ cards' = cards /\ effects' = effects
    BY <1>5 DEF Timeout, Abandon, waitFrame, Goto, TypeInv, TypeOK
  <2> QED
    BY <2>1 DEF Configured, Active
<1>6. CASE Act(c)
  <2>1. /\ pc[c] = "answered" /\ seen[c] \in Allowing /\ effects[c] = {"act"} /\ "configure" \in cards[c]
        /\ cards' = cards
    BY <1>6 DEF Act, actFrame, Configured, Active
  <2>2. pc'[c] = "done"
    BY <1>6, <2>1 DEF Act, Phase, Goto, TypeInv, TypeOK
  <2> QED
    BY <2>1, <2>2 DEF Configured, Active
<1>7. CASE Register(c) \/ PublishFails(c) \/ Refrain(c)
  <2>1. /\ pc'[c] = "failed" \/ (pc[c] = "created" /\ pc'[c] = "registered")
        /\ cards' = cards /\ effects' = effects /\ seen' = seen
    BY <1>7 DEF Register, PublishFails, Refrain, publishFrame, actFrame, Goto, TypeInv, TypeOK
  <2> QED
    BY <2>1 DEF Configured, Active
<1> QED
  BY <1>1, <1>2, <1>3, <1>4, <1>5, <1>6, <1>7 DEF CallStep

\* The steps of a call without a configuration.
LEMMA OnePhaseKept ==
  ASSUME TypeInv, NEW c \in Calls \ Handoff, OnePhase(c), c \notin Explicit,
         CallStep(c) \/ Install(c) \/ \E o \in Outcomes : Create(c, o)
  PROVE  OnePhase(c)'
<1>1. CASE Act(c)
  <2>1. effects[c] = {} /\ pc'[c] = "done"
    BY <1>1 DEF Act, OnePhase, Active, Goto, TypeInv, TypeOK
  <2>2. effects'[c] = {"act"}
    BY <1>1, <2>1 DEF Act, Phase, TypeInv, TypeOK
  <2> QED
    BY <2>1, <2>2 DEF OnePhase, Active
<1>2. CASE Install(c)
  BY <1>2 DEF Install
<1>3. ASSUME effects' = effects, pc[c] \in Active \union {"idle"}, pc'[c] # "again" PROVE OnePhase(c)'
  BY <1>3 DEF OnePhase
<1>4. ASSUME NEW o \in Outcomes, Timeout(c, o) \/ Abandon(c, o) \/ Create(c, o) PROVE OnePhase(c)'
  <2>1. effects' = effects /\ pc[c] \in Active \union {"idle"}
    BY <1>4 DEF Timeout, Abandon, Create, waitFrame, Active
  <2>2. pc'[c] # "again"
    BY <1>4 DEF Timeout, Abandon, Create, Goto, TypeInv, TypeOK
  <2> QED
    BY <1>3, <2>1, <2>2
<1>5. CASE Register(c) \/ Publish(c) \/ PublishFails(c) \/ Receive(c) \/ Refrain(c)
  <2>1. effects' = effects /\ pc[c] \in Active \union {"idle"}
    BY <1>5 DEF Register, Publish, PublishFails, Receive, Refrain, publishFrame, waitFrame, actFrame, Active
  <2>2. pc'[c] # "again"
    BY <1>5 DEF Register, Publish, PublishFails, Receive, Refrain, Goto, TypeInv, TypeOK
  <2> QED
    BY <1>3, <2>1, <2>2
<1> QED
  BY <1>1, <1>2, <1>4, <1>5 DEF CallStep

LEMMA ConfigKept ==
  ASSUME TypeInv, ConfigInv, ToolsApart, Next PROVE ConfigInv'
<1>1. GrantsInv'
  BY GrantsKept DEF ConfigInv
<1>2. Explicit \subseteq Handoff /\ Handoff \subseteq Calls
  BY CallsAssumption
<1>3. ASSUME \A b \in Calls : Untouched(b) PROVE ConfigInv'
  BY <1>1, <1>2, <1>3, UntouchedKeeps DEF ConfigInv
<1>4. ASSUME NEW c \in Calls, CallStep(c) \/ Install(c) \/ \E o \in Outcomes : Create(c, o)
      PROVE  ConfigInv'
  <2>1. \A b \in Calls \ {c} : Untouched(b)
    BY <1>4, OthersUntouched
  <2>2. ASSUME NEW b \in Explicit PROVE Configured(b)'
    <3>1. CASE b = c
      BY <1>2, <1>4, <3>1, ConfiguredKept DEF ConfigInv
    <3>2. CASE b # c
      BY <1>2, <2>1, <3>2, UntouchedKeeps DEF ConfigInv
    <3> QED
      BY <3>1, <3>2
  <2>3. ASSUME NEW b \in Calls \ Handoff PROVE OnePhase(b)'
    <3>1. CASE b = c
      BY <1>2, <1>4, <3>1, OnePhaseKept DEF ConfigInv
    <3>2. CASE b # c
      BY <2>1, <3>2, UntouchedKeeps DEF ConfigInv
    <3> QED
      BY <3>1, <3>2
  <2> QED
    BY <1>1, <2>2, <2>3 DEF ConfigInv
<1>5. ASSUME \/ \E c \in Calls : EndRun(c) \/ Elapse(c) \/ Delete(Conversation[c])
             \/ \E t \in Tabs : RequestStep(t) \/ \E c \in Calls, d \in UserDecisions : Choose(t, c, d)
             \/ Crash \/ \E o \in Outcomes : Restart(o)
      PROVE  ConfigInv'
  BY <1>3, <1>5, NoneTouched DEF ConfigInv
<1> QED
  BY <1>4, <1>5 DEF Next

\* An install that the message asked for never completes its configuration
\* before its card was published, whatever fails, expires or restarts: the
\* documented wait on the card breaks only for installs that need an approval
\* first, whose second request finds the decided row of the first under the same
\* execution id (chat_agent_create_approval).
THEOREM ExplicitInstallsWait ==
  ASSUME ToolsApart, Handoff = Explicit PROVE Spec => []ConfigurationAwaited
<1>1. Init => ConfigInv
  <2> SUFFICES ASSUME Init PROVE ConfigInv
    OBVIOUS
  <2>1. \A c \in Calls : pc[c] = "idle" /\ effects[c] = {} /\ decision[c] = "none"
    BY DEF Init
  <2>2. Explicit \subseteq Calls
    BY CallsAssumption
  <2>3. GrantsInv
    BY DEF Init, GrantsInv
  <2> QED
    BY <2>1, <2>2, <2>3 DEF ConfigInv, Configured, OnePhase, Active
<1>2. TypeInv /\ ConfigInv /\ [Next]_vars => ConfigInv'
  <2>1. ConfigInv /\ UNCHANGED vars => ConfigInv'
    BY DEF ConfigInv, GrantsInv, Configured, OnePhase, Key, vars, rowVars, callVars
  <2> QED
    BY <2>1, ConfigKept
<1>3. ConfigInv => ConfigurationAwaited
  BY DEF ConfigInv, Configured, OnePhase, ConfigurationAwaited
<1> QED
  BY <1>1, <1>2, <1>3, TypeInvariant, PTL DEF Spec
=============================================================================
