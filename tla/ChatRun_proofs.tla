--------------------------- MODULE ChatRun_proofs ---------------------------
(***************************************************************************)
(* Proofs about chat runs, for every set of runs and processes and every   *)
(* number of failing calls and crashes.                                    *)
(***************************************************************************)
EXTENDS ChatRun, TLAPS

\* A call spends at most the faults that are left.
LEMMA CallTyped ==
  ASSUME faults \in 0..MaxFaults, NEW o, Call(o)
  PROVE  faults' \in 0..MaxFaults
BY BoundsAssumption DEF Call

\* The statements of Postgres keep the rows well typed.
LEMMA FinalizeTyped ==
  ASSUME TypeOK, NEW r \in Runs, NEW status \in Terminal, NEW o, FinalizeRow(r, status, o)
  PROVE  msg' \in [Runs -> MsgStatus]
BY DEF TypeOK, FinalizeRow, MsgStatus

LEMMA EndTurnTyped ==
  ASSUME TypeOK, NEW r \in Runs, NEW status \in Terminal \union {"interrupted"}, NEW o,
         EndTurnRow(r, status, o)
  PROVE  msg' \in [Runs -> MsgStatus] /\ turn' \in [Runs -> TurnStatus]
<1>1. turn' \in [Runs -> TurnStatus]
  BY DEF TypeOK, EndTurnRow, TurnStatus
<1>2. msg' \in [Runs -> MsgStatus]
  BY DEF TypeOK, EndTurnRow, MsgStatus, Terminal
<1> QED
  BY <1>1, <1>2

\* A handler that decides how the run ends names a status and a frame.
LEMMA DecideTyped ==
  ASSUME TypeOK, NEW r \in Runs, NEW status \in Terminal, NEW f \in Frames, Decide(r, status, f)
  PROVE  /\ pc' \in [Runs -> Ended \union Active] /\ target' \in [Runs -> Terminal \union {"none"}]
         /\ reply' \in [Runs -> Frames]
         /\ \A q \in Runs : pc'[q] \in {"completing", "finalizing"} => target'[q] # "none"
<1>1. pc \in [Runs -> Ended \union Active] /\ pc' = [pc EXCEPT ![r] = "finalizing"]
  BY DEF TypeOK, Decide, Goto
<1>2. target \in [Runs -> Terminal \union {"none"}] /\ target' = [target EXCEPT ![r] = status]
  BY DEF TypeOK, Decide
<1>3. reply \in [Runs -> Frames] /\ reply' = [reply EXCEPT ![r] = f]
  BY DEF TypeOK, Decide
<1>4. \A q \in Runs : pc[q] \in {"completing", "finalizing"} => target[q] # "none"
  BY DEF TypeOK
<1>5. "finalizing" \in Active /\ status # "none"
  BY DEF Active, Terminal
<1>6. pc' \in [Runs -> Ended \union Active] /\ target' \in [Runs -> Terminal \union {"none"}]
  BY <1>1, <1>2, <1>5
<1>7. reply' \in [Runs -> Frames]
  BY <1>3
<1>8. \A q \in Runs : pc'[q] \in {"completing", "finalizing"} => target'[q] # "none"
  BY <1>1, <1>2, <1>4, <1>5
<1> QED
  BY <1>6, <1>7, <1>8

LEMMA WindDownTyped ==
  ASSUME TypeOK, NEW r \in Runs, NEW o, WindDown(r, o)
  PROVE  turnFinal' \in [Runs -> Terminal \union {"interrupted"}] /\ faults' \in 0..MaxFaults
<1>1. turnFinal \in [Runs -> Terminal \union {"interrupted"}] /\ faults \in 0..MaxFaults
  BY DEF TypeOK
<1>2. faults' \in 0..MaxFaults
  BY <1>1, CallTyped DEF WindDown
<1>3. turnFinal' \in [Runs -> Terminal \union {"interrupted"}]
  BY <1>1 DEF WindDown, Terminal
<1> QED
  BY <1>2, <1>3

LEMMA NormalizeTyped ==
  ASSUME NEW status PROVE Normalize(status) \in Terminal \union {"interrupted"}
BY DEF Normalize

-----------------------------------------------------------------------------
\* The steps of the handler keep the types.
LEMMA HandlerTyped ==
  ASSUME TypeOK, NEW r \in Runs, HandlerStep(r) PROVE TypeOK'
<1> USE DEF TypeOK, rowVars, serverVars, planVars, cancelVars, endFrame, Goto, Ended, Active,
            MsgStatus, TurnStatus, Frames, Terminal
<1>1. CASE Reject(r)
  BY <1>1 DEF Reject
<1>2. CASE Attach(r)
  BY <1>2 DEF Attach
<1>3. CASE Respond(r)
  BY <1>3 DEF Respond
<1>4. CASE Release(r)
  BY <1>4 DEF Release
<1>5. ASSUME NEW o \in Outcomes, CreateMessage(r, o) PROVE TypeOK'
  BY <1>5, CallTyped DEF CreateMessage
<1>6. ASSUME NEW o \in Outcomes, StartTurn(r, o) PROVE TypeOK'
  BY <1>6, CallTyped DEF StartTurn
<1>7. ASSUME NEW o \in Outcomes, FailUntracked(r, o) PROVE TypeOK'
  BY <1>7, CallTyped, FinalizeTyped DEF FailUntracked
<1>8. ASSUME NEW o \in Outcomes, Inject(r, o) PROVE TypeOK'
  <2>1. faults' \in 0..MaxFaults
    BY <1>8, CallTyped DEF Inject
  <2>2. CASE Goto(r, "prepared") /\ UNCHANGED <<turnFinal, target, reply>>
    BY <1>8, <2>1, <2>2 DEF Inject
  <2>3. CASE /\ Goto(r, "finalizing") /\ turnFinal' = [turnFinal EXCEPT ![r] = "failed"]
             /\ target' = [target EXCEPT ![r] = "failed"] /\ reply' = [reply EXCEPT ![r] = "error"]
    <3>1. Decide(r, "failed", "error")
      BY <2>3 DEF Decide
    <3>2. turnFinal' \in [Runs -> Terminal \union {"interrupted"}]
      BY <2>3
    <3>3. UNCHANGED <<rowVars, flags, serverVars, host, entry, ctx, frame, cancelVars>>
      BY <1>8 DEF Inject
    <3> HIDE <1>8, <2>3
    <3> QED
      BY <2>1, <3>1, <3>2, <3>3, DecideTyped
  <2> QED
    BY <1>8, <2>2, <2>3 DEF Inject
<1>9. ASSUME NEW o \in Outcomes, FinalizeTracked(r, o) PROVE TypeOK'
  <2>1. faults' \in 0..MaxFaults /\ target[r] \in Terminal
    BY <1>9, CallTyped DEF FinalizeTracked
  <2>2. msg' \in [Runs -> MsgStatus]
    BY <1>9, <2>1, FinalizeTyped DEF FinalizeTracked
  <2>3. reply' \in [Runs -> Frames]
    BY <1>9 DEF FinalizeTracked, Retract
  <2>4. turnFinal' \in [Runs -> Terminal \union {"interrupted"}]
    BY <1>9, <2>1 DEF FinalizeTracked
  <2>5. /\ pc' \in [Runs -> Ended \union Active]
        /\ \A q \in Runs : pc'[q] \in {"completing", "finalizing"} => target[q] # "none"
    BY <1>9 DEF FinalizeTracked
  <2>6. UNCHANGED <<turn, target, endFrame>>
    BY <1>9 DEF FinalizeTracked
  <2> HIDE <1>9
  <2> QED
    BY <2>1, <2>2, <2>3, <2>4, <2>5, <2>6
<1>10. ASSUME NEW o \in Outcomes, FinalizeImage(r, o) PROVE TypeOK'
  BY <1>10, CallTyped, FinalizeTyped DEF FinalizeImage
<1>11. ASSUME NEW o \in Outcomes, DeferredFinish(r, o) PROVE TypeOK'
  BY <1>11, CallTyped, EndTurnTyped DEF DeferredFinish
<1>12. ASSUME NEW o \in Outcomes, NEW noted \in BOOLEAN, FinishTurn(r, noted, o) PROVE TypeOK'
  <2>1. msg' \in [Runs -> MsgStatus] /\ turn' \in [Runs -> TurnStatus]
    BY <1>12, EndTurnTyped DEF FinishTurn
  <2>2. faults' \in 0..MaxFaults
    BY <1>12, BoundsAssumption DEF FinishTurn
  <2>3. reply' \in [Runs -> Frames]
    BY <1>12 DEF FinishTurn, Retract
  <2>4. /\ pc' = [pc EXCEPT ![r] = "responding"] /\ UNCHANGED <<turnFinal, target, endFrame>>
    BY <1>12 DEF FinishTurn
  <2> HIDE <1>12
  <2> QED
    BY <2>1, <2>2, <2>3, <2>4
<1> QED
  BY <1>1, <1>2, <1>3, <1>4, <1>5, <1>6, <1>7, <1>8, <1>9, <1>10, <1>11, <1>12 DEF HandlerStep

\* So do the steps of the stream,
LEMMA StreamTyped ==
  ASSUME TypeOK, NEW r \in Runs, StreamStep(r) PROVE TypeOK'
<1> USE DEF TypeOK, rowVars, serverVars, planVars, cancelVars, streamFrame, Goto, Ended, Active,
            MsgStatus, TurnStatus, Frames, Terminal
<1>1. CASE ProviderStarts(r)
  BY <1>1 DEF ProviderStarts
<1>2. CASE ProviderRefuses(r)
  <2>1. Decide(r, "cancelled", "none") \/ Decide(r, "failed", "error")
    BY <1>2 DEF ProviderRefuses
  <2> QED
    BY <1>2, <2>1, DecideTyped DEF ProviderRefuses
<1>3. CASE Expire(r)
  BY <1>3 DEF Expire
<1>4. CASE Complete(r)
  BY <1>4 DEF Complete
<1>5. CASE ImageDone(r)
  BY <1>5, DecideTyped DEF ImageDone
<1>6. CASE ImageFails(r)
  <2>1. Decide(r, "cancelled", "cancelled") \/ Decide(r, "failed", "error")
    BY <1>6 DEF ImageFails
  <2> QED
    BY <1>6, <2>1, DecideTyped DEF ImageFails
<1>7. ASSUME NEW o \in Outcomes, ProviderFails(r, o) PROVE TypeOK'
  <2>1. Decide(r, "cancelled", "cancelled") \/ Decide(r, "failed", "error")
    BY <1>7 DEF ProviderFails
  <2> QED
    BY <1>7, <2>1, DecideTyped, WindDownTyped DEF ProviderFails
<1>8. ASSUME NEW o \in Outcomes, Overrun(r, o) PROVE TypeOK'
  BY <1>8, DecideTyped, WindDownTyped DEF Overrun
<1>9. ASSUME NEW o \in Outcomes, Stop(r, o) PROVE TypeOK'
  BY <1>9, DecideTyped, WindDownTyped DEF Stop
<1>10. ASSUME NEW o \in Outcomes, NEW preset \in {"failed", "cancelled"}, PersistFails(r, o, preset)
       PROVE  TypeOK'
  BY <1>10, CallTyped, DecideTyped DEF PersistFails
<1> QED
  BY <1>1, <1>2, <1>3, <1>4, <1>5, <1>6, <1>7, <1>8, <1>9, <1>10 DEF StreamStep

\* the cancel request,
LEMMA CancelTyped ==
  ASSUME TypeOK, NEW r \in Runs,
         CancelStep(r) \/ Poll(r) \/ \E s \in Servers, o \in Outcomes : CancelCommit(r, s, o)
  PROVE  TypeOK'
<1> USE DEF TypeOK, rowVars, serverVars, planVars, cancelVars, cancelFrame,
            MsgStatus, TurnStatus, Terminal, CancelSteps
<1>1. CASE CancelSignal(r)
  BY <1>1 DEF CancelSignal
<1>2. CASE Poll(r)
  BY <1>2 DEF Poll
<1>3. ASSUME NEW o \in Outcomes, CancelMark(r, o) PROVE TypeOK'
  BY <1>3, CallTyped DEF CancelMark
<1>4. ASSUME NEW s \in Servers, NEW o \in Outcomes, CancelCommit(r, s, o) PROVE TypeOK'
  BY <1>4, CallTyped DEF CancelCommit
<1> QED
  BY <1>1, <1>2, <1>3, <1>4 DEF CancelStep

\* and admission, crashes and recovery.
LEMMA ServerTyped ==
  ASSUME TypeOK, NEW s \in Servers,
         Crash(s) \/ RecoveryStep(s) \/ \E r \in Runs : Reserve(r, s)
  PROVE  TypeOK'
<1> USE DEF TypeOK, rowVars, serverVars, planVars, cancelVars, recoveryFrame, Goto,
            Ended, Active, MsgStatus, TurnStatus, Terminal, CancelSteps
<1>1. CASE Crash(s)
  BY <1>1, BoundsAssumption DEF Crash
<1>2. CASE Restart(s)
  BY <1>2 DEF Restart
<1>3. CASE Serve(s)
  BY <1>3 DEF Serve
<1>4. ASSUME NEW p \in pending[s], NEW o \in Outcomes, RecoverTurn(s, p, o) PROVE TypeOK'
  <2>1. p.run \in Runs
    OBVIOUS
  <2> QED
    BY <1>4, <2>1, CallTyped, EndTurnTyped, NormalizeTyped DEF RecoverTurn
<1>5. ASSUME NEW r \in Runs, Reserve(r, s) PROVE TypeOK'
  BY <1>5 DEF Reserve
<1> QED
  BY <1>1, <1>2, <1>3, <1>4, <1>5 DEF RecoveryStep

\* Every reachable state is well typed.
THEOREM TypeCorrect == Spec => []TypeOK
<1>1. Init => TypeOK
  BY BoundsAssumption DEF Init, TypeOK, MsgStatus, TurnStatus, Frames, Ended, CancelSteps, Terminal
<1>2. TypeOK /\ [Next]_vars => TypeOK'
  <2>1. TypeOK /\ Next => TypeOK'
    BY HandlerTyped, StreamTyped, CancelTyped, ServerTyped DEF Next
  <2>2. TypeOK /\ UNCHANGED vars => TypeOK'
    BY DEF TypeOK, vars, rowVars, serverVars, planVars, cancelVars
  <2> QED
    BY <2>1, <2>2
<1> QED
  BY <1>1, <1>2, PTL DEF Spec

-----------------------------------------------------------------------------
(* What a step does to the rows.                                             *)

\* A run has no row before its handler creates one.
Fresh == \A r \in Runs : pc[r] \in {"idle", "reserved"} => msg[r] = "none"

\* States of the handler that may write the row.
Writing == {"reserved", "untracked", "completing", "finalizing"}

\* The row q is left alone by a step unless its handler is writing it or it is
\* still streaming, and a cancelled row is left alone by every step.
RowKept(q) ==
  /\ msg[q] = "cancelled" => msg'[q] = "cancelled"
  /\ msg[q] \in Terminal /\ pc[q] \notin Writing => msg'[q] = msg[q]
  /\ msg[q] = "none" /\ pc'[q] \in {"idle", "reserved"} => msg'[q] = "none"

LEMMA FinalizeKeeps ==
  ASSUME TypeOK, NEW r \in Runs, NEW status, NEW o, FinalizeRow(r, status, o),
         pc[r] \in Writing, NEW q \in Runs
  PROVE  RowKept(q)
BY DEF TypeOK, FinalizeRow, Finalizable, RowKept, Terminal

LEMMA EndTurnKeeps ==
  ASSUME TypeOK, NEW r \in Runs, NEW status, NEW o, EndTurnRow(r, status, o), NEW q \in Runs
  PROVE  RowKept(q)
BY DEF TypeOK, EndTurnRow, RowKept, Terminal

LEMMA UnchangedKeeps == ASSUME UNCHANGED msg, NEW q PROVE RowKept(q)
BY DEF RowKept

\* No step takes a cancelled row back.
LEMMA RowsKept ==
  ASSUME TypeOK, Fresh, Next, NEW q \in Runs PROVE RowKept(q)
<1> USE DEF rowVars, endFrame, streamFrame, cancelFrame, recoveryFrame
<1>1. ASSUME NEW r \in Runs, HandlerStep(r) PROVE RowKept(q)
  <2>1. ASSUME NEW o \in Outcomes, CreateMessage(r, o) PROVE RowKept(q)
    BY <2>1 DEF CreateMessage, Goto, TypeOK, Fresh, RowKept, Terminal, Writing
  <2>2. ASSUME NEW o \in Outcomes, FailUntracked(r, o) PROVE RowKept(q)
    BY <2>2, FinalizeKeeps, UnchangedKeeps DEF FailUntracked, Writing
  <2>3. ASSUME NEW o \in Outcomes, FinalizeTracked(r, o) PROVE RowKept(q)
    BY <2>3, FinalizeKeeps DEF FinalizeTracked, Writing
  <2>4. ASSUME NEW o \in Outcomes, FinalizeImage(r, o) PROVE RowKept(q)
    BY <2>4, FinalizeKeeps, UnchangedKeeps DEF FinalizeImage, Writing
  <2>5. ASSUME NEW o \in Outcomes, DeferredFinish(r, o) PROVE RowKept(q)
    BY <2>5, EndTurnKeeps DEF DeferredFinish
  <2>6. ASSUME NEW o \in Outcomes, NEW noted \in BOOLEAN, FinishTurn(r, noted, o)
        PROVE  RowKept(q)
    BY <2>6, EndTurnKeeps DEF FinishTurn
  <2>7. ASSUME \/ Reject(r) \/ Attach(r) \/ Respond(r) \/ Release(r)
               \/ \E o \in Outcomes : StartTurn(r, o) \/ Inject(r, o)
        PROVE  RowKept(q)
    BY <2>7, UnchangedKeeps DEF Reject, Attach, Respond, Release, StartTurn, Inject
  <2> QED
    BY <1>1, <2>1, <2>2, <2>3, <2>4, <2>5, <2>6, <2>7 DEF HandlerStep
<1>2. ASSUME NEW r \in Runs, StreamStep(r) PROVE RowKept(q)
  <2>1. UNCHANGED msg
    BY <1>2 DEF StreamStep, ProviderStarts, ProviderRefuses, Expire, Complete, ImageDone,
       ImageFails, ProviderFails, Overrun, Stop, PersistFails
  <2> QED
    BY <2>1, UnchangedKeeps
<1>3. ASSUME NEW r \in Runs, CancelStep(r) \/ Poll(r) PROVE RowKept(q)
  BY <1>3, UnchangedKeeps DEF CancelStep, CancelSignal, CancelMark, Poll
<1>4. ASSUME NEW r \in Runs, NEW s \in Servers, NEW o \in Outcomes, CancelCommit(r, s, o)
      PROVE  RowKept(q)
  BY <1>4 DEF CancelCommit, TypeOK, RowKept, Terminal
<1>5. ASSUME NEW s \in Servers, NEW p \in pending[s], NEW o \in Outcomes, RecoverTurn(s, p, o)
      PROVE  RowKept(q)
  <2>1. p.run \in Runs
    BY DEF TypeOK
  <2> QED
    BY <1>5, <2>1, EndTurnKeeps DEF RecoverTurn
<1>6. ASSUME NEW s \in Servers,
             Crash(s) \/ Restart(s) \/ Serve(s) \/ \E r \in Runs : Reserve(r, s)
      PROVE  RowKept(q)
  BY <1>6, UnchangedKeeps DEF Crash, Restart, Serve, Reserve
<1> QED
  BY <1>1, <1>2, <1>3, <1>4, <1>5, <1>6 DEF Next, RecoveryStep

\* No handler returns to the states before its row.
LEMMA NoReturn ==
  ASSUME TypeOK, Next, NEW q \in Runs, pc'[q] \in {"idle", "reserved"}
  PROVE  pc[q] \in {"idle", "reserved"}
<1> USE DEF TypeOK, Goto, Decide, endFrame, streamFrame, cancelFrame, recoveryFrame
<1>1. ASSUME NEW r \in Runs, HandlerStep(r) PROVE pc[q] \in {"idle", "reserved"}
  BY <1>1 DEF HandlerStep, Reject, Attach, Respond, Release, CreateMessage, StartTurn,
     FailUntracked, Inject, FinalizeTracked, FinalizeImage, DeferredFinish, FinishTurn
<1>2. ASSUME NEW r \in Runs, StreamStep(r) PROVE pc[q] \in {"idle", "reserved"}
  BY <1>2 DEF StreamStep, ProviderStarts, ProviderRefuses, Expire, Complete, ImageDone,
     ImageFails, ProviderFails, Overrun, Stop, PersistFails
<1>3. ASSUME NEW r \in Runs,
             CancelStep(r) \/ Poll(r) \/ \E s \in Servers, o \in Outcomes : CancelCommit(r, s, o)
      PROVE  pc[q] \in {"idle", "reserved"}
  BY <1>3 DEF CancelStep, CancelSignal, CancelMark, Poll, CancelCommit
<1>4. ASSUME NEW s \in Servers,
             Crash(s) \/ RecoveryStep(s) \/ \E r \in Runs : Reserve(r, s)
      PROVE  pc[q] \in {"idle", "reserved"}
  BY <1>4 DEF Crash, RecoveryStep, Restart, RecoverTurn, Serve, Reserve
<1> QED
  BY <1>1, <1>2, <1>3, <1>4 DEF Next

\* Cancellation and finalization find a row only once the handler has created it.
THEOREM FreshCorrect == Spec => []Fresh
<1>1. Init => Fresh
  BY DEF Init, Fresh
<1>2. TypeOK /\ Fresh /\ [Next]_vars => Fresh'
  <2>1. TypeOK /\ Fresh /\ Next => Fresh'
    BY RowsKept, NoReturn DEF Fresh, RowKept
  <2>2. Fresh /\ UNCHANGED vars => Fresh'
    BY DEF Fresh, vars, rowVars
  <2> QED
    BY <2>1, <2>2
<1> QED
  BY <1>1, <1>2, TypeCorrect, PTL DEF Spec

\* No step of any handler, process or request takes a cancelled message back.
THEOREM CancellationFinal == Spec => CancelledIsFinal
<1>1. TypeOK /\ Fresh /\ [Next]_vars =>
        [\A r \in Runs : msg[r] = "cancelled" => msg'[r] = "cancelled"]_vars
  BY RowsKept DEF RowKept
<1> QED
  BY <1>1, TypeCorrect, FreshCorrect, PTL DEF Spec, CancelledIsFinal

-----------------------------------------------------------------------------
(* The registry.                                                             *)

\* What makes OneRunPerConversation inductive: a run's entry is in the registry
\* from the reservation to the release, and the live entries of one process
\* belong to different conversations.
Listed(r) == pc[r] \in Active <=> entry[r] # "none"

Exclusive(q, r) ==
  entry[q] # "none" /\ entry[r] # "none" /\ host[q] = host[r]
    /\ Conversation[q] = Conversation[r] => q = r

RegistryInv == (\A r \in Runs : Listed(r)) /\ (\A q, r \in Runs : Exclusive(q, r))

\* Every step but Reserve keeps or drops entries, and Release and Crash drop
\* them together with the handler.
LEMMA RegistryKept ==
  ASSUME TypeOK, RegistryInv, Next,
         ~ \E r \in Runs, s \in Servers : Reserve(r, s)
  PROVE  /\ host' = host
         /\ \A q \in Runs : Listed(q) => Listed(q)'
         /\ \A q \in Runs : entry'[q] # "none" => entry[q] # "none"
<1> DEFINE Kept == /\ host' = host
                   /\ \A q \in Runs : Listed(q) => Listed(q)'
                   /\ \A q \in Runs : entry'[q] # "none" => entry[q] # "none"
<1> USE DEF TypeOK, Goto, Decide, endFrame, streamFrame, cancelFrame, recoveryFrame, Active, Listed
<1>1. ASSUME NEW r \in Runs, HandlerStep(r) PROVE Kept
  <2>1. CASE Release(r)
    BY <2>1 DEF Release
  <2>2. CASE Attach(r)
    BY <2>2 DEF Attach
  <2>3. CASE Reject(r) \/ Respond(r)
    BY <2>3 DEF Reject, Respond
  <2>4. ASSUME NEW o \in Outcomes, CreateMessage(r, o) \/ StartTurn(r, o) \/ FailUntracked(r, o)
        PROVE  Kept
    BY <2>4 DEF CreateMessage, StartTurn, FailUntracked
  <2>5. ASSUME NEW o \in Outcomes, Inject(r, o) \/ FinalizeTracked(r, o) \/ FinalizeImage(r, o)
        PROVE  Kept
    BY <2>5 DEF Inject, FinalizeTracked, FinalizeImage
  <2>6. ASSUME NEW o \in Outcomes, DeferredFinish(r, o) \/ \E noted \in BOOLEAN : FinishTurn(r, noted, o)
        PROVE  Kept
    BY <2>6 DEF DeferredFinish, FinishTurn
  <2> QED
    BY <1>1, <2>1, <2>2, <2>3, <2>4, <2>5, <2>6 DEF HandlerStep
<1>2. ASSUME NEW r \in Runs, StreamStep(r) PROVE Kept
  <2>1. CASE ProviderStarts(r) \/ ProviderRefuses(r) \/ Expire(r) \/ Complete(r)
    BY <2>1 DEF ProviderStarts, ProviderRefuses, Expire, Complete
  <2>2. CASE ImageDone(r) \/ ImageFails(r)
    BY <2>2 DEF ImageDone, ImageFails
  <2>3. ASSUME NEW o \in Outcomes, ProviderFails(r, o) \/ Overrun(r, o) \/ Stop(r, o)
        PROVE  Kept
    BY <2>3 DEF ProviderFails, Overrun, Stop
  <2>4. ASSUME NEW o \in Outcomes, NEW preset \in {"failed", "cancelled"}, PersistFails(r, o, preset)
        PROVE  Kept
    BY <2>4 DEF PersistFails
  <2> QED
    BY <1>2, <2>1, <2>2, <2>3, <2>4 DEF StreamStep
<1>3. ASSUME NEW r \in Runs,
             CancelStep(r) \/ Poll(r) \/ \E s \in Servers, o \in Outcomes : CancelCommit(r, s, o)
      PROVE  Kept
  BY <1>3 DEF CancelStep, CancelSignal, CancelMark, Poll, CancelCommit
<1>4. ASSUME NEW s \in Servers, RecoveryStep(s) PROVE Kept
  BY <1>4 DEF RecoveryStep, Restart, RecoverTurn, Serve
<1>5. ASSUME NEW s \in Servers, Crash(s) PROVE Kept
  BY <1>5 DEF Crash
<1> QED
  BY <1>1, <1>2, <1>3, <1>4, <1>5 DEF Next

\* One process never answers two requests of one conversation at a time.
THEOREM ExclusiveRun == Spec => []OneRunPerConversation
<1>1. Init => RegistryInv
  BY DEF Init, RegistryInv, Listed, Exclusive, Active
<1>2. TypeOK /\ RegistryInv /\ [Next]_vars => RegistryInv'
  <2> SUFFICES ASSUME TypeOK, RegistryInv, [Next]_vars PROVE RegistryInv'
    OBVIOUS
  <2>1. ASSUME NEW r \in Runs, NEW s \in Servers, Reserve(r, s) PROVE RegistryInv'
    <3>1. \A q \in Runs \ {r} : pc'[q] = pc[q] /\ entry'[q] = entry[q] /\ host'[q] = host[q]
      BY <2>1 DEF Reserve, Goto, TypeOK
    <3>2. pc'[r] = "reserved" /\ entry'[r] = "reserved" /\ host'[r] = s
      BY <2>1 DEF Reserve, Goto, TypeOK
    <3>3. \A q \in Runs : ~(host[q] = s /\ Conversation[q] = Conversation[r] /\ entry[q] # "none")
      BY <2>1 DEF Reserve, Busy
    <3>4. ASSUME NEW q \in Runs PROVE Listed(q)'
      BY <3>1, <3>2 DEF RegistryInv, Listed, Active
    <3>5. ASSUME NEW p \in Runs, NEW q \in Runs PROVE Exclusive(p, q)'
      BY <3>1, <3>2, <3>3 DEF RegistryInv, Exclusive
    <3> QED
      BY <3>4, <3>5 DEF RegistryInv
  <2>2. CASE Next /\ ~ \E r \in Runs, s \in Servers : Reserve(r, s)
    <3>1. ASSUME NEW q \in Runs PROVE Listed(q)'
      BY <2>2, RegistryKept DEF RegistryInv
    <3>2. ASSUME NEW p \in Runs, NEW q \in Runs PROVE Exclusive(p, q)'
      BY <2>2, RegistryKept DEF RegistryInv, Exclusive
    <3> QED
      BY <3>1, <3>2 DEF RegistryInv
  <2>3. CASE UNCHANGED vars
    BY <2>3 DEF vars, RegistryInv, Listed, Exclusive
  <2> QED
    BY <2>1, <2>2, <2>3
<1>3. RegistryInv => OneRunPerConversation
  BY DEF RegistryInv, Listed, Exclusive, OneRunPerConversation
<1> QED
  BY <1>1, <1>2, <1>3, TypeCorrect, PTL DEF Spec

-----------------------------------------------------------------------------
(* Everybody who acts on a cancellation acts on a cancelled row.  CancelTruth *)
(* speaks of what is told in the end; it is inductive together with what is   *)
(* under way: the request between its steps, the context, the planned frame.  *)

Told(r) ==
  \/ cancel[r] \in {"committed", "signalled", "acknowledged"} \/ ctx[r] = "cancelled"
  \/ r \in flags \/ reply[r] = "cancelled" \/ frame[r] = "cancelled"

CancelInv == \A r \in Runs : Told(r) => msg[r] = "cancelled"

\* Only a committed cancellation starts to spread.
LEMMA ToldBefore ==
  ASSUME TypeOK, CancelInv, Next, NEW q \in Runs, Told(q)' PROVE Told(q) \/ msg'[q] = "cancelled"
<1> DEFINE Goal == Told(q) \/ msg'[q] = "cancelled"
<1> USE DEF TypeOK, Told, Decide, Retract, rowVars, serverVars, planVars, cancelVars, endFrame,
            streamFrame, cancelFrame, recoveryFrame
<1>1. ASSUME NEW r \in Runs, HandlerStep(r) PROVE Goal
  <2>1. CASE Respond(r)
    BY <2>1 DEF Respond
  <2>2. CASE Reject(r) \/ Attach(r) \/ Release(r)
    BY <2>2 DEF Reject, Attach, Release
  <2>3. ASSUME NEW o \in Outcomes, CreateMessage(r, o) \/ StartTurn(r, o) \/ FailUntracked(r, o)
        PROVE  Goal
    BY <2>3 DEF CreateMessage, StartTurn, FailUntracked
  <2>4. ASSUME NEW o \in Outcomes, Inject(r, o) \/ FinalizeTracked(r, o) \/ FinalizeImage(r, o)
        PROVE  Goal
    BY <2>4 DEF Inject, FinalizeTracked, FinalizeImage
  <2>5. ASSUME NEW o \in Outcomes, DeferredFinish(r, o) \/ \E noted \in BOOLEAN : FinishTurn(r, noted, o)
        PROVE  Goal
    BY <2>5 DEF DeferredFinish, FinishTurn
  <2> QED
    BY <1>1, <2>1, <2>2, <2>3, <2>4, <2>5 DEF HandlerStep
<1>2. ASSUME NEW r \in Runs, StreamStep(r) PROVE Goal
  <2>1. CASE ProviderStarts(r) \/ ProviderRefuses(r) \/ Expire(r) \/ Complete(r)
    BY <2>1 DEF ProviderStarts, ProviderRefuses, Expire, Complete
  <2>2. CASE ImageDone(r) \/ ImageFails(r)
    BY <2>2 DEF ImageDone, ImageFails
  <2>3. ASSUME NEW o \in Outcomes, ProviderFails(r, o) \/ Overrun(r, o) \/ Stop(r, o)
        PROVE  Goal
    BY <2>3 DEF ProviderFails, Overrun, Stop
  <2>4. ASSUME NEW o \in Outcomes, NEW preset \in {"failed", "cancelled"}, PersistFails(r, o, preset)
        PROVE  Goal
    BY <2>4 DEF PersistFails
  <2> QED
    BY <1>2, <2>1, <2>2, <2>3, <2>4 DEF StreamStep
<1>3. ASSUME NEW r \in Runs, CancelSignal(r) \/ Poll(r) PROVE Goal
  BY <1>3 DEF CancelSignal, Poll
<1>4. ASSUME NEW r \in Runs, NEW o \in Outcomes, CancelMark(r, o) PROVE Goal
  BY <1>4 DEF CancelMark
<1>5. ASSUME NEW r \in Runs, NEW s \in Servers, NEW o \in Outcomes, CancelCommit(r, s, o) PROVE Goal
  BY <1>5 DEF CancelCommit, Applied
<1>6. ASSUME NEW s \in Servers, RecoveryStep(s) \/ Crash(s) \/ \E r \in Runs : Reserve(r, s)
      PROVE  Goal
  BY <1>6 DEF RecoveryStep, Restart, RecoverTurn, Serve, Crash, Reserve
<1> QED
  BY <1>1, <1>2, <1>3, <1>4, <1>5, <1>6 DEF Next, CancelStep

\* A cancellation that is acknowledged, streamed or flagged is in the row.
THEOREM CancellationTrue == Spec => []CancelTruth
<1>1. Init => CancelInv
  BY DEF Init, CancelInv, Told
<1>2. TypeOK /\ Fresh /\ CancelInv /\ [Next]_vars => CancelInv'
  <2>1. TypeOK /\ Fresh /\ CancelInv /\ Next => CancelInv'
    BY ToldBefore, RowsKept DEF CancelInv, RowKept
  <2>2. CancelInv /\ UNCHANGED vars => CancelInv'
    BY DEF CancelInv, Told, vars, rowVars, planVars, cancelVars
  <2> QED
    BY <2>1, <2>2
<1>3. CancelInv => CancelTruth
  BY DEF CancelInv, Told, CancelTruth
<1> QED
  BY <1>1, <1>2, <1>3, TypeCorrect, FreshCorrect, PTL DEF Spec

-----------------------------------------------------------------------------
(* message.completed.  The frame is planned with the status, the status is    *)
(* stored before the handler responds, and any error withdraws the frame.     *)

Past == {"ending", "releasing", "done", "dead"}

CompletedInv(r) ==
  /\ reply[r] = "completed" => target[r] = "completed"
  /\ pc[r] = "finishing" => msg[r] = target[r] /\ target[r] # "none"
  /\ pc[r] = "responding" /\ reply[r] = "completed" => msg[r] = "completed"
  /\ frame[r] = "completed" => pc[r] \in Past /\ msg[r] = "completed"

\* A status is planned with its frame; only a stored one keeps message.completed.
LEMMA CompletedKept ==
  ASSUME TypeOK, Fresh, Next, NEW q \in Runs, CompletedInv(q) PROVE CompletedInv(q)'
<1>0. RowKept(q)
  BY RowsKept
<1> USE <1>0 DEF TypeOK, CompletedInv, RowKept, Past, Writing, Terminal, Goto, Decide, Retract, rowVars,
            serverVars, planVars, cancelVars, endFrame, streamFrame, cancelFrame, recoveryFrame
<1>1. ASSUME NEW r \in Runs, HandlerStep(r) PROVE CompletedInv(q)'
  <2>1. CASE Respond(r)
    BY <2>1 DEF Respond
  <2>2. CASE Reject(r) \/ Attach(r) \/ Release(r)
    BY <2>2 DEF Reject, Attach, Release
  <2>3. ASSUME NEW o \in Outcomes, CreateMessage(r, o) \/ StartTurn(r, o) \/ FailUntracked(r, o)
        PROVE  CompletedInv(q)'
    BY <2>3 DEF CreateMessage, StartTurn, FailUntracked
  <2>4. ASSUME NEW o \in Outcomes, Inject(r, o) PROVE CompletedInv(q)'
    BY <2>4 DEF Inject
  <2>5. ASSUME NEW o \in Outcomes, FinalizeTracked(r, o) PROVE CompletedInv(q)'
    BY <2>5 DEF FinalizeTracked, FinalizeRow, Applied
  <2>6. ASSUME NEW o \in Outcomes, FinalizeImage(r, o) PROVE CompletedInv(q)'
    BY <2>6 DEF FinalizeImage, FinalizeRow, Applied
  <2>7. ASSUME NEW o \in Outcomes, DeferredFinish(r, o) PROVE CompletedInv(q)'
    BY <2>7 DEF DeferredFinish
  <2>8. ASSUME NEW o \in Outcomes, NEW noted \in BOOLEAN, FinishTurn(r, noted, o)
        PROVE  CompletedInv(q)'
    BY <2>8 DEF FinishTurn
  <2> QED
    BY <1>1, <2>1, <2>2, <2>3, <2>4, <2>5, <2>6, <2>7, <2>8 DEF HandlerStep
<1>2. ASSUME NEW r \in Runs, StreamStep(r) PROVE CompletedInv(q)'
  <2>1. CASE ProviderStarts(r) \/ ProviderRefuses(r) \/ Expire(r) \/ Complete(r)
    BY <2>1 DEF ProviderStarts, ProviderRefuses, Expire, Complete
  <2>2. CASE ImageDone(r) \/ ImageFails(r)
    BY <2>2 DEF ImageDone, ImageFails
  <2>3. ASSUME NEW o \in Outcomes, ProviderFails(r, o) \/ Overrun(r, o) \/ Stop(r, o)
        PROVE  CompletedInv(q)'
    BY <2>3 DEF ProviderFails, Overrun, Stop
  <2>4. ASSUME NEW o \in Outcomes, NEW preset \in {"failed", "cancelled"}, PersistFails(r, o, preset)
        PROVE  CompletedInv(q)'
    BY <2>4 DEF PersistFails
  <2> QED
    BY <1>2, <2>1, <2>2, <2>3, <2>4 DEF StreamStep
<1>3. ASSUME NEW r \in Runs, CancelStep(r) \/ Poll(r) PROVE CompletedInv(q)'
  BY <1>3 DEF CancelStep, CancelSignal, CancelMark, Poll
<1>4. ASSUME NEW r \in Runs, NEW s \in Servers, NEW o \in Outcomes, CancelCommit(r, s, o)
      PROVE  CompletedInv(q)'
  BY <1>4 DEF CancelCommit
<1>5. ASSUME NEW s \in Servers, RecoveryStep(s) PROVE CompletedInv(q)'
  BY <1>5 DEF RecoveryStep, Restart, RecoverTurn, Serve
<1>6. ASSUME NEW s \in Servers, Crash(s) \/ \E r \in Runs : Reserve(r, s) PROVE CompletedInv(q)'
  BY <1>6 DEF Crash, Reserve, Active
<1> QED
  BY <1>1, <1>2, <1>3, <1>4, <1>5, <1>6 DEF Next

\* message.completed is sent, and stays true, only for a row stored as completed.
THEOREM CompletionTrue == Spec => []CompletedTruth
<1> DEFINE Inv == \A r \in Runs : CompletedInv(r)
<1>1. Init => Inv
  BY DEF Init, CompletedInv
<1>2. TypeOK /\ Fresh /\ Inv /\ [Next]_vars => Inv'
  <2>1. TypeOK /\ Fresh /\ Inv /\ Next => Inv'
    BY CompletedKept
  <2>2. Inv /\ UNCHANGED vars => Inv'
    BY DEF CompletedInv, vars, rowVars, planVars
  <2> QED
    BY <2>1, <2>2
<1>3. Inv => CompletedTruth
  BY DEF CompletedInv, CompletedTruth
<1> QED
  BY <1>1, <1>2, <1>3, TypeCorrect, FreshCorrect, PTL DEF Spec

-----------------------------------------------------------------------------
(* Crashes and recovery.                                                     *)

\* A process that works on a run serves; what died with a process is recovered
\* before it serves again.
HostInv(r) ==
  /\ pc[r] # "idle" => host[r] \in Servers
  /\ pc[r] \in Active => server[host[r]] = "serving"
  /\ pc[r] = "dead" /\ turn[r] = "running" =>
       \/ server[host[r]] = "down"
       \/ server[host[r]] = "recovering" /\ \E p \in pending[host[r]] : p.run = r

\* The handler and the stream of a run move it alone.
LEMMA RunStepLocal ==
  ASSUME TypeOK, NEW r \in Runs, HandlerStep(r) \/ StreamStep(r)
  PROVE  /\ UNCHANGED <<server, pending, host>>
         /\ \A q \in Runs \ {r} : pc'[q] = pc[q] /\ turn'[q] = turn[q]
         /\ pc'[r] # pc[r] \/ turn'[r] # turn[r] => pc[r] \in Active /\ pc'[r] # "dead"
<1> DEFINE Local == /\ UNCHANGED <<server, pending, host>>
                    /\ \A q \in Runs \ {r} : pc'[q] = pc[q] /\ turn'[q] = turn[q]
                    /\ pc'[r] # pc[r] \/ turn'[r] # turn[r] => pc[r] \in Active /\ pc'[r] # "dead"
<1> USE DEF TypeOK, Goto, Decide, rowVars, serverVars, endFrame, streamFrame, Active
<1>1. CASE Reject(r) \/ Attach(r) \/ Respond(r) \/ Release(r)
  BY <1>1 DEF Reject, Attach, Respond, Release
<1>2. ASSUME NEW o \in Outcomes, CreateMessage(r, o) \/ StartTurn(r, o) \/ FailUntracked(r, o)
      PROVE  Local
  BY <1>2 DEF CreateMessage, StartTurn, FailUntracked
<1>3. ASSUME NEW o \in Outcomes, Inject(r, o) \/ FinalizeTracked(r, o) \/ FinalizeImage(r, o)
      PROVE  Local
  BY <1>3 DEF Inject, FinalizeTracked, FinalizeImage
<1>4. ASSUME NEW o \in Outcomes, DeferredFinish(r, o) \/ \E noted \in BOOLEAN : FinishTurn(r, noted, o)
      PROVE  Local
  BY <1>4 DEF DeferredFinish, FinishTurn, EndTurnRow
<1>5. CASE ProviderStarts(r) \/ ProviderRefuses(r) \/ Expire(r) \/ Complete(r)
  BY <1>5 DEF ProviderStarts, ProviderRefuses, Expire, Complete
<1>6. CASE ImageDone(r) \/ ImageFails(r)
  BY <1>6 DEF ImageDone, ImageFails
<1>7. ASSUME NEW o \in Outcomes, ProviderFails(r, o) \/ Overrun(r, o) \/ Stop(r, o)
      PROVE  Local
  BY <1>7 DEF ProviderFails, Overrun, Stop
<1>8. ASSUME NEW o \in Outcomes, NEW preset \in {"failed", "cancelled"}, PersistFails(r, o, preset)
      PROVE  Local
  BY <1>8 DEF PersistFails
<1> HIDE DEF Local
<1>9. Local
  BY <1>1, <1>2, <1>3, <1>4, <1>5, <1>6, <1>7, <1>8 DEF HandlerStep, StreamStep, Local
<1> QED
  BY <1>9 DEF Local

LEMMA CancelStepLocal ==
  ASSUME NEW r \in Runs,
         CancelStep(r) \/ Poll(r) \/ \E s \in Servers, o \in Outcomes : CancelCommit(r, s, o)
  PROVE  UNCHANGED <<server, pending, host, pc, turn>>
BY DEF CancelStep, CancelSignal, CancelMark, Poll, CancelCommit, cancelFrame, rowVars, serverVars

LEMMA HostKept ==
  ASSUME TypeOK, Next, NEW q \in Runs, HostInv(q)
  PROVE  HostInv(q)'
<1> USE DEF TypeOK, HostInv
<1>1. ASSUME NEW r \in Runs, HandlerStep(r) \/ StreamStep(r) PROVE HostInv(q)'
  BY <1>1, RunStepLocal DEF Active
<1>2. ASSUME NEW r \in Runs,
             CancelStep(r) \/ Poll(r) \/ \E s \in Servers, o \in Outcomes : CancelCommit(r, s, o)
      PROVE  HostInv(q)'
  BY <1>2, CancelStepLocal
<1>3. ASSUME NEW r \in Runs, NEW s \in Servers, Reserve(r, s) PROVE HostInv(q)'
  BY <1>3 DEF Reserve, Goto, rowVars, serverVars, Active
<1>4. ASSUME NEW s \in Servers, Crash(s) PROVE HostInv(q)'
  BY <1>4 DEF Crash, rowVars, Active
<1>5. ASSUME NEW s \in Servers, Restart(s) PROVE HostInv(q)'
  <2>1. CASE host[q] = s /\ pc[q] = "dead" /\ turn[q] = "running"
    <3>1. [run |-> q, status |-> msg[q]] \in pending'[s]
      BY <1>5, <2>1 DEF Restart
    <3> QED
      BY <1>5, <2>1, <3>1 DEF Restart, recoveryFrame, rowVars, Active
  <2>2. CASE ~(host[q] = s /\ pc[q] = "dead" /\ turn[q] = "running")
    BY <1>5, <2>2 DEF Restart, recoveryFrame, rowVars
  <2> QED
    BY <2>1, <2>2
<1>6. ASSUME NEW s \in Servers, Serve(s) PROVE HostInv(q)'
  BY <1>6 DEF Serve, recoveryFrame, rowVars
<1>7. ASSUME NEW s \in Servers, NEW p \in pending[s], NEW o \in Outcomes, RecoverTurn(s, p, o)
      PROVE  HostInv(q)'
  <2>1. /\ server[s] = "recovering" /\ p.run \in Runs /\ UNCHANGED <<pc, host>>
        /\ turn'[q] = "running" => turn[q] = "running"
    BY <1>7, NormalizeTyped DEF RecoverTurn, EndTurnRow, recoveryFrame, Terminal
  <2>2. CASE o = "done"
    <3>1. pending' = [pending EXCEPT ![s] = @ \ {p}] /\ UNCHANGED server
          /\ turn'[p.run] # "running"
      BY <1>7, <2>1, <2>2, NormalizeTyped DEF RecoverTurn, EndTurnRow, Applied, Terminal
    <3> QED
      BY <2>1, <3>1
  <2>3. CASE o # "done"
    <3>1. pending' = [pending EXCEPT ![s] = {}] /\ server' = [server EXCEPT ![s] = "down"]
      BY <1>7, <2>3 DEF RecoverTurn
    <3> QED
      BY <2>1, <3>1
  <2> QED
    BY <2>2, <2>3
<1> QED
  BY <1>1, <1>2, <1>3, <1>4, <1>5, <1>6, <1>7 DEF Next, RecoveryStep

HostsInv == \A r \in Runs : HostInv(r)

LEMMA HostsCorrect == Spec => []HostsInv
<1>1. Init => HostsInv
  <2> SUFFICES ASSUME Init, NEW r \in Runs PROVE HostInv(r)
    BY DEF HostsInv
  <2>1. pc[r] = "idle" /\ "idle" \notin Active
    BY DEF Init, Active
  <2> QED
    BY <2>1 DEF HostInv
<1>2. TypeOK /\ HostsInv /\ [Next]_vars => HostsInv'
  <2>1. TypeOK /\ HostsInv /\ Next => HostsInv'
    BY HostKept DEF HostsInv
  <2>2. HostsInv /\ UNCHANGED vars => HostsInv'
    BY DEF HostsInv, HostInv, vars, rowVars, serverVars
  <2> QED
    BY <2>1, <2>2
<1> QED
  BY <1>1, <1>2, TypeCorrect, PTL DEF Spec

\* A process that serves again has ended every turn that died with it, whatever
\* its calls did and however often it crashed meanwhile
\* (RecoverIncompleteChatAgentTurns before ListenAndServe, cmd/api/main.go).
THEOREM OrphansRecovered == Spec => []NoOrphanTurn
<1>1. HostsInv => NoOrphanTurn
  BY DEF HostsInv, HostInv, NoOrphanTurn
<1> QED
  BY <1>1, HostsCorrect, PTL

-----------------------------------------------------------------------------
(* The row of a text run.                                                    *)

\* States of a handler that has not stored the end of its answer.
Early == {"idle", "reserved", "created", "untracked", "tracked", "prepared", "attached",
          "streaming", "completing", "finalizing"}

\* Before its handler ends the answer, only a cancel request does.
OpenRow(r) == Tracked(r) /\ pc[r] \in Early => msg[r] \in {"none", "streaming", "cancelled"}

OneProcess == \A s, t \in Servers : s = t

\* A handler leaves the early states for good, and while it is in them writes
\* no terminal status.
LEMMA OpenRowKept ==
  ASSUME TypeOK, Fresh, HostsInv, OneProcess, Next, NEW q \in Runs, OpenRow(q)
  PROVE  OpenRow(q)'
<1> USE DEF TypeOK, OpenRow, Tracked, Early, Goto, Decide, rowVars, endFrame, streamFrame,
            cancelFrame, recoveryFrame
<1>1. ASSUME NEW r \in Runs, HandlerStep(r) PROVE OpenRow(q)'
  <2>1. CASE Reject(r) \/ Attach(r) \/ Respond(r) \/ Release(r)
    BY <2>1 DEF Reject, Attach, Respond, Release
  <2>2. ASSUME NEW o \in Outcomes, CreateMessage(r, o) PROVE OpenRow(q)'
    BY <2>2 DEF CreateMessage
  <2>3. ASSUME NEW o \in Outcomes, StartTurn(r, o) \/ Inject(r, o) PROVE OpenRow(q)'
    BY <2>3 DEF StartTurn, Inject
  <2>4. ASSUME NEW o \in Outcomes, FailUntracked(r, o) PROVE OpenRow(q)'
    BY <2>4 DEF FailUntracked, FinalizeRow
  <2>5. ASSUME NEW o \in Outcomes, FinalizeTracked(r, o) PROVE OpenRow(q)'
    BY <2>5 DEF FinalizeTracked, FinalizeRow
  <2>6. ASSUME NEW o \in Outcomes, FinalizeImage(r, o) PROVE OpenRow(q)'
    BY <2>6 DEF FinalizeImage, FinalizeRow
  <2>7. ASSUME NEW o \in Outcomes, DeferredFinish(r, o) \/ \E noted \in BOOLEAN : FinishTurn(r, noted, o)
        PROVE  OpenRow(q)'
    BY <2>7 DEF DeferredFinish, FinishTurn, EndTurnRow
  <2> QED
    BY <1>1, <2>1, <2>2, <2>3, <2>4, <2>5, <2>6, <2>7 DEF HandlerStep
<1>2. ASSUME NEW r \in Runs, StreamStep(r) PROVE OpenRow(q)'
  <2>1. CASE ProviderStarts(r) \/ ProviderRefuses(r) \/ Expire(r) \/ Complete(r)
    BY <2>1 DEF ProviderStarts, ProviderRefuses, Expire, Complete
  <2>2. CASE ImageDone(r) \/ ImageFails(r)
    BY <2>2 DEF ImageDone, ImageFails
  <2>3. ASSUME NEW o \in Outcomes, ProviderFails(r, o) \/ Overrun(r, o) \/ Stop(r, o)
        PROVE  OpenRow(q)'
    BY <2>3 DEF ProviderFails, Overrun, Stop
  <2>4. ASSUME NEW o \in Outcomes, NEW preset \in {"failed", "cancelled"}, PersistFails(r, o, preset)
        PROVE  OpenRow(q)'
    BY <2>4 DEF PersistFails
  <2> QED
    BY <1>2, <2>1, <2>2, <2>3, <2>4 DEF StreamStep
<1>3. ASSUME NEW r \in Runs, CancelStep(r) \/ Poll(r) PROVE OpenRow(q)'
  BY <1>3 DEF CancelStep, CancelSignal, CancelMark, Poll
<1>4. ASSUME NEW r \in Runs, NEW s \in Servers, NEW o \in Outcomes, CancelCommit(r, s, o)
      PROVE  OpenRow(q)'
  BY <1>4 DEF CancelCommit
<1>5. ASSUME NEW s \in Servers, Restart(s) \/ Serve(s) \/ Crash(s) PROVE OpenRow(q)'
  BY <1>5 DEF Restart, Serve, Crash, Active
<1>6. ASSUME NEW r \in Runs, NEW s \in Servers, Reserve(r, s) PROVE OpenRow(q)'
  BY <1>6 DEF Reserve
<1>7. ASSUME NEW s \in Servers, NEW p \in pending[s], NEW o \in Outcomes, RecoverTurn(s, p, o)
      PROVE  OpenRow(q)'
  <2>1. pc[q] \in Active => host[q] = s /\ server[host[q]] = "serving"
    BY DEF HostsInv, HostInv, OneProcess, Active
  <2>2. pc[q] \notin Active /\ UNCHANGED pc
    BY <1>7, <2>1 DEF RecoverTurn
  <2>3. pc[q] \in Early => pc[q] = "idle" /\ msg[q] = "none"
    BY <2>2 DEF Active, Fresh
  <2>4. msg[q] = "none" => msg'[q] = "none"
    BY <1>7 DEF RecoverTurn, EndTurnRow
  <2> QED
    BY <2>2, <2>3, <2>4
<1> QED
  BY <1>1, <1>2, <1>3, <1>4, <1>5, <1>6, <1>7 DEF Next, RecoveryStep

\* With one process, no error, retry, cancel request, crash or recovery takes
\* the end of a text answer back (assistantMessageFinalizeSQL and
\* chat_agent_append_event; a second process may recover a turn the first works on).
THEOREM TerminalFinal ==
  ASSUME OneProcess PROVE Spec => TerminalIsFinal
<1> DEFINE Inv == \A r \in Runs : OpenRow(r)
<1>1. Init => Inv
  BY DEF Init, OpenRow
<1>2. TypeOK /\ Fresh /\ HostsInv /\ Inv /\ [Next]_vars => Inv'
  <2>1. TypeOK /\ Fresh /\ HostsInv /\ Inv /\ Next => Inv'
    BY OpenRowKept
  <2>2. Inv /\ UNCHANGED vars => Inv'
    BY DEF OpenRow, vars, rowVars
  <2> QED
    BY <2>1, <2>2
<1>3. TypeOK /\ Fresh /\ Inv /\ [Next]_vars =>
        [\A r \in Runs : Tracked(r) /\ msg[r] \in Terminal => msg'[r] = msg[r]]_vars
  <2> SUFFICES ASSUME TypeOK, Fresh, Inv, Next, NEW r \in Runs, Tracked(r), msg[r] \in Terminal
               PROVE  msg'[r] = msg[r]
    OBVIOUS
  <2>1. RowKept(r)
    BY RowsKept
  <2> QED
    BY <2>1 DEF RowKept, OpenRow, Terminal, Writing, Early
<1> QED
  BY <1>1, <1>2, <1>3, TypeCorrect, FreshCorrect, HostsCorrect, PTL DEF Spec, TerminalIsFinal

-----------------------------------------------------------------------------
(* The event log and the row.  The turn's status is chosen before, or with,   *)
(* the row's: what ties them is that a handler that spent the only fault on a *)
(* preset status has none left to fail the row with.                          *)

\* A turn that ends with status agrees with a row in status m.
Agree(status, m) ==
  /\ status \in {"completed", "cancelled"} => m = status
  /\ status = "failed" => m \in {"failed", "cancelled"}
  /\ status = "interrupted" => m \in Terminal

TurnInv(r) ==
  /\ msg[r] = "none" => turn[r] = "none" /\ pc[r] \in {"idle", "reserved", "releasing", "done", "dead"}
  /\ turn[r] # "none" => Tracked(r)
  /\ pc[r] \in {"idle", "reserved", "created"} => turn[r] = "none" /\ turnFinal[r] = "interrupted"
  /\ pc[r] \in Early => turn[r] \notin {"completed", "failed"} /\ turnFinal[r] # "completed"
  /\ pc[r] \in Early /\ Tracked(r) /\ turn[r] \in {"none", "running"} =>
       msg[r] \in {"none", "streaming", "cancelled"}
  /\ pc[r] \in Early /\ turn[r] = "running" /\ turnFinal[r] # "interrupted" => faults > 0
  /\ pc[r] = "finishing" => turnFinal[r] = msg[r] /\ msg[r] \in Terminal
  /\ pc[r] \in {"responding", "ending"} /\ turn[r] = "running" /\ turnFinal[r] # "interrupted" =>
       Agree(turnFinal[r], msg[r])
  /\ Agree(turn[r], msg[r])

\* What a recovering process has read of a row still holds when it ends the turn.
ReadInv(s) ==
  \A p \in pending[s] :
    /\ turn[p.run] # "none"
    /\ turn[p.run] = "running" /\ p.status \in Terminal => msg[p.run] = p.status

\* A row stays, and stays terminal.
LEMMA RowStays ==
  ASSUME TypeOK, Fresh, Next, NEW q \in Runs
  PROVE  /\ msg[q] # "none" => msg'[q] # "none"
         /\ msg[q] \in Terminal => msg'[q] \in Terminal
<1> DEFINE Stays == /\ msg[q] # "none" => msg'[q] # "none"
                    /\ msg[q] \in Terminal => msg'[q] \in Terminal
<1> USE DEF TypeOK, rowVars, endFrame, streamFrame, cancelFrame, recoveryFrame
<1>1. ASSUME NEW r \in Runs, NEW o, NEW status \in Terminal, FinalizeRow(r, status, o) PROVE Stays
  BY <1>1 DEF FinalizeRow, Terminal
<1>2. ASSUME NEW r \in Runs, NEW o, NEW status, EndTurnRow(r, status, o) PROVE Stays
  BY <1>2 DEF EndTurnRow, Terminal
<1>3. ASSUME UNCHANGED msg PROVE Stays
  BY <1>3
<1> HIDE DEF Stays
<1>4. ASSUME NEW r \in Runs, HandlerStep(r) PROVE Stays
  <2>1. ASSUME NEW o \in Outcomes, CreateMessage(r, o) PROVE Stays
    BY <2>1 DEF CreateMessage, Fresh, Stays, Terminal
  <2>2. ASSUME NEW o \in Outcomes, FailUntracked(r, o) PROVE Stays
    BY <2>2, <1>1, <1>3 DEF FailUntracked, Terminal
  <2>3. ASSUME NEW o \in Outcomes, FinalizeTracked(r, o) PROVE Stays
    <3>1. target[r] \in Terminal
      BY <2>3 DEF FinalizeTracked
    <3> QED
      BY <2>3, <3>1, <1>1 DEF FinalizeTracked
  <2>4. ASSUME NEW o \in Outcomes, FinalizeImage(r, o) PROVE Stays
    <3>1. target[r] \in Terminal
      BY <2>4 DEF FinalizeImage
    <3> QED
      BY <2>4, <3>1, <1>1, <1>3 DEF FinalizeImage
  <2>5. ASSUME NEW o \in Outcomes, DeferredFinish(r, o) \/ \E noted \in BOOLEAN : FinishTurn(r, noted, o)
        PROVE  Stays
    BY <2>5, <1>2 DEF DeferredFinish, FinishTurn
  <2>6. ASSUME \/ Reject(r) \/ Attach(r) \/ Respond(r) \/ Release(r)
               \/ \E o \in Outcomes : StartTurn(r, o) \/ Inject(r, o)
        PROVE  Stays
    BY <2>6, <1>3 DEF Reject, Attach, Respond, Release, StartTurn, Inject
  <2> QED
    BY <1>4, <2>1, <2>2, <2>3, <2>4, <2>5, <2>6 DEF HandlerStep
<1>5. ASSUME NEW r \in Runs, StreamStep(r) PROVE Stays
  <2>1. UNCHANGED msg
    BY <1>5 DEF StreamStep, ProviderStarts, ProviderRefuses, Expire, Complete, ImageDone,
       ImageFails, ProviderFails, Overrun, Stop, PersistFails
  <2> QED
    BY <2>1, <1>3
<1>6. ASSUME NEW r \in Runs, CancelStep(r) \/ Poll(r) PROVE Stays
  BY <1>6, <1>3 DEF CancelStep, CancelSignal, CancelMark, Poll
<1>7. ASSUME NEW r \in Runs, NEW s \in Servers, NEW o \in Outcomes, CancelCommit(r, s, o)
      PROVE  Stays
  BY <1>7 DEF CancelCommit, Terminal, Stays
<1>8. ASSUME NEW s \in Servers, NEW p \in pending[s], NEW o \in Outcomes, RecoverTurn(s, p, o)
      PROVE  Stays
  <2>1. p.run \in Runs
    OBVIOUS
  <2> QED
    BY <1>8, <2>1, <1>2 DEF RecoverTurn
<1>9. ASSUME NEW s \in Servers,
             Crash(s) \/ Restart(s) \/ Serve(s) \/ \E r \in Runs : Reserve(r, s)
      PROVE  Stays
  BY <1>9, <1>3 DEF Crash, Restart, Serve, Reserve
<1>10. Stays
  BY <1>4, <1>5, <1>6, <1>7, <1>8, <1>9 DEF Next, RecoveryStep
<1> QED
  BY <1>10 DEF Stays

OneFault == MaxFaults <= 1

ReadsInv == \A s \in Servers : ReadInv(s)

LEMMA TurnKept ==
  ASSUME TypeOK, Fresh, ReadsInv, OneFault, Next, NEW q \in Runs, TurnInv(q)
  PROVE  TurnInv(q)'
<1>0. RowKept(q) /\ (msg[q] # "none" => msg'[q] # "none") /\ (msg[q] \in Terminal => msg'[q] \in Terminal)
  BY RowsKept, RowStays
<1> USE <1>0 DEF TypeOK, TurnInv, Agree, RowKept, Writing, Terminal, Early, Goto, Decide, Retract, Tracked,
            rowVars, serverVars, planVars, cancelVars, endFrame, streamFrame, cancelFrame, recoveryFrame
<1>1. ASSUME NEW r \in Runs, HandlerStep(r) PROVE TurnInv(q)'
  <2>1. CASE Reject(r) \/ Attach(r) \/ Respond(r) \/ Release(r)
    BY <2>1 DEF Reject, Attach, Respond, Release
  <2>2. ASSUME NEW o \in Outcomes, CreateMessage(r, o) PROVE TurnInv(q)'
    BY <2>2 DEF CreateMessage, Call, Applied
  <2>3. ASSUME NEW o \in Outcomes, StartTurn(r, o) PROVE TurnInv(q)'
    <3>1. CASE q # r
      BY <2>3, <3>1 DEF StartTurn, Call
    <3>2. CASE q = r
      <4>1. /\ pc[q] = "created" /\ Tracked(q) /\ UNCHANGED <<msg, turnFinal>>
            /\ turn'[q] \in {"none", "running"} /\ pc'[q] \in {"tracked", "untracked"}
        BY <2>3, <3>2 DEF StartTurn
      <4> QED
        BY <4>1
    <3> QED
      BY <3>1, <3>2
  <2>4. ASSUME NEW o \in Outcomes, FailUntracked(r, o) PROVE TurnInv(q)'
    BY <2>4 DEF FailUntracked, Call, FinalizeRow
  <2>5. ASSUME NEW o \in Outcomes, Inject(r, o) PROVE TurnInv(q)'
    BY <2>5 DEF Inject, Call
  <2>6. ASSUME NEW o \in Outcomes, FinalizeTracked(r, o) PROVE TurnInv(q)'
    <3>1. CASE q # r
      BY <2>6, <3>1 DEF FinalizeTracked, Call, FinalizeRow
    <3>2. CASE q = r /\ o = "done" /\ Finalizable(r, target[r])
      <4>1. /\ Tracked(q) /\ pc'[q] = "finishing" /\ turnFinal'[q] = target[q] /\ msg'[q] = target[q]
            /\ UNCHANGED turn /\ pc[q] \in {"completing", "finalizing"} /\ target[q] \in Terminal
        BY <2>6, <3>2 DEF FinalizeTracked, FinalizeRow, Applied
      <4> QED
        BY <4>1
    <3>3. CASE q = r /\ ~(o = "done" /\ Finalizable(r, target[r]))
      <4>1. /\ Tracked(q) /\ pc'[q] = "responding" /\ turnFinal'[q] = turnFinal[q] /\ UNCHANGED turn
            /\ pc[q] \in {"completing", "finalizing"}
        BY <2>6, <3>3 DEF FinalizeTracked
      <4>2. ASSUME turn[q] = "running", turnFinal[q] # "interrupted"
            PROVE  Agree(turnFinal[q], msg'[q])
        <5>1. faults > 0
          BY <4>1, <4>2
        <5>2. o = "done"
          BY <2>6, <5>1, BoundsAssumption DEF FinalizeTracked, Call, OneFault
        <5>3. msg[q] = "cancelled"
          BY <3>3, <4>1, <4>2, <5>2 DEF Finalizable
        <5>4. turnFinal[q] \in {"failed", "cancelled"}
          BY <4>1, <4>2
        <5> QED
          BY <5>3, <5>4
      <4> QED
        BY <4>1, <4>2
    <3> QED
      BY <3>1, <3>2, <3>3
  <2>7. ASSUME NEW o \in Outcomes, FinalizeImage(r, o) PROVE TurnInv(q)'
    BY <2>7 DEF FinalizeImage, FinalizeRow, Call
  <2>8. ASSUME NEW o \in Outcomes, DeferredFinish(r, o) PROVE TurnInv(q)'
    <3>1. CASE q # r
      BY <2>8, <3>1 DEF DeferredFinish, Call, EndTurnRow
    <3>2. CASE q = r
      <4>1. pc[q] = "ending" /\ pc'[q] = "releasing" /\ UNCHANGED turnFinal
        BY <2>8, <3>2 DEF DeferredFinish
      <4>2. CASE turn'[q] = turn[q]
        BY <4>1, <4>2
      <4>3. CASE turn[q] = "running" /\ turn'[q] = turnFinal[q]
        <5>1. msg'[q] = IF turnFinal[q] = "interrupted" /\ msg[q] = "streaming" THEN "failed" ELSE msg[q]
          BY <2>8, <3>2, <4>3 DEF DeferredFinish, EndTurnRow
        <5>2. msg[q] # "none"
          BY <4>3
        <5>3. Agree(turn'[q], msg'[q])
          BY <4>1, <4>3, <5>1, <5>2 DEF MsgStatus
        <5> QED
          BY <4>1, <4>3, <5>3
      <4> QED
        BY <2>8, <3>2, <4>2, <4>3 DEF DeferredFinish, EndTurnRow
    <3> QED
      BY <3>1, <3>2
  <2>9. ASSUME NEW o \in Outcomes, NEW noted \in BOOLEAN, FinishTurn(r, noted, o) PROVE TurnInv(q)'
    BY <2>9 DEF FinishTurn, EndTurnRow
  <2> QED
    BY <1>1, <2>1, <2>2, <2>3, <2>4, <2>5, <2>6, <2>7, <2>8, <2>9 DEF HandlerStep
<1>2. ASSUME NEW r \in Runs, StreamStep(r) PROVE TurnInv(q)'
  <2>1. CASE ProviderStarts(r) \/ ProviderRefuses(r) \/ Expire(r) \/ Complete(r)
    BY <2>1 DEF ProviderStarts, ProviderRefuses, Expire, Complete
  <2>2. CASE ImageDone(r) \/ ImageFails(r)
    BY <2>2 DEF ImageDone, ImageFails
  <2>3. ASSUME NEW o \in Outcomes, ProviderFails(r, o) PROVE TurnInv(q)'
    BY <2>3 DEF ProviderFails, WindDown, Call
  <2>4. ASSUME NEW o \in Outcomes, Overrun(r, o) \/ Stop(r, o) PROVE TurnInv(q)'
    BY <2>4 DEF Overrun, Stop, WindDown, Call
  <2>5. ASSUME NEW o \in Outcomes, NEW preset \in {"failed", "cancelled"}, PersistFails(r, o, preset)
        PROVE  TurnInv(q)'
    BY <2>5 DEF PersistFails, Call
  <2> QED
    BY <1>2, <2>1, <2>2, <2>3, <2>4, <2>5 DEF StreamStep
<1>3. ASSUME NEW r \in Runs, CancelStep(r) \/ Poll(r) PROVE TurnInv(q)'
  BY <1>3 DEF CancelStep, CancelSignal, CancelMark, Poll, Call
<1>4. ASSUME NEW r \in Runs, NEW s \in Servers, NEW o \in Outcomes, CancelCommit(r, s, o)
      PROVE  TurnInv(q)'
  BY <1>4 DEF CancelCommit, Call
<1>5. ASSUME NEW s \in Servers, Crash(s) \/ Restart(s) \/ Serve(s) PROVE TurnInv(q)'
  BY <1>5 DEF Crash, Restart, Serve, Active
<1>6. ASSUME NEW r \in Runs, NEW s \in Servers, Reserve(r, s) PROVE TurnInv(q)'
  BY <1>6 DEF Reserve
<1>7. ASSUME NEW s \in Servers, NEW p \in pending[s], NEW o \in Outcomes, RecoverTurn(s, p, o)
      PROVE  TurnInv(q)'
  <2>1. CASE turn'[q] = turn[q] /\ msg'[q] = msg[q]
    <3>1. UNCHANGED <<pc, turnFinal>> /\ (faults > 0 => faults' > 0)
      BY <1>7, BoundsAssumption DEF RecoverTurn, Call
    <3> QED
      BY <2>1, <3>1
  <2>2. CASE q = p.run /\ turn[q] = "running" /\ turn'[q] = Normalize(p.status)
    <3>1. UNCHANGED <<pc, turnFinal>> /\ Normalize(p.status) # "running"
      BY <1>7, NormalizeTyped DEF RecoverTurn
    <3>2. /\ p.status \in Terminal => msg[q] = p.status
          /\ msg'[q] = IF Normalize(p.status) = "interrupted" /\ msg[q] = "streaming"
                       THEN "failed" ELSE msg[q]
      BY <1>7, <2>2 DEF RecoverTurn, EndTurnRow, ReadsInv, ReadInv
    <3>3. msg[q] # "none" /\ msg[q] \in MsgStatus
      BY <2>2
    <3>4. Agree(Normalize(p.status), msg'[q])
      BY <3>2, <3>3 DEF Normalize, MsgStatus
    <3>5. pc[q] \in Early => Normalize(p.status) \in {"cancelled", "interrupted"}
      BY <2>2, <3>2, <3>3 DEF Normalize
    <3>6. pc[q] \notin {"idle", "reserved", "created"} /\ Tracked(q) /\ Normalize(p.status) # "none"
      BY <2>2, NormalizeTyped
    <3> QED
      BY <2>2, <3>1, <3>3, <3>4, <3>5, <3>6
  <2> QED
    <3>1. EndTurnRow(p.run, Normalize(p.status), o) /\ turn \in [Runs -> TurnStatus] /\ msg \in [Runs -> MsgStatus]
      BY <1>7 DEF RecoverTurn, TypeOK
    <3>2. CASE q # p.run \/ turn[q] # "running"
      BY <2>1, <3>1, <3>2 DEF EndTurnRow
    <3>3. CASE q = p.run /\ turn[q] = "running"
      <4>1. (turn'[q] = turn[q] /\ msg'[q] = msg[q]) \/ turn'[q] = Normalize(p.status)
        BY <3>1, <3>3 DEF EndTurnRow
      <4> QED
        BY <2>1, <2>2, <3>3, <4>1
    <3> QED
      BY <3>2, <3>3
<1> QED
  BY <1>1, <1>2, <1>3, <1>4, <1>5, <1>6, <1>7 DEF Next, RecoveryStep

\* A turn is started once.
LEMMA TurnMoves ==
  ASSUME TypeOK, Next, NEW q \in Runs, TurnInv(q)
  PROVE  turn[q] # "none" => turn'[q] # "none" /\ (turn'[q] = "running" => turn[q] = "running")
<1> DEFINE Goal == turn[q] # "none" => turn'[q] # "none" /\ (turn'[q] = "running" => turn[q] = "running")
<1> USE DEF TypeOK, rowVars, endFrame, streamFrame, cancelFrame, recoveryFrame
<1>1. ASSUME NEW r \in Runs, NEW o, NEW status \in Terminal \union {"interrupted"}, EndTurnRow(r, status, o)
      PROVE  Goal
  BY <1>1 DEF EndTurnRow, Terminal
<1>2. ASSUME UNCHANGED turn PROVE Goal
  BY <1>2
<1>3. ASSUME NEW r \in Runs, NEW o \in Outcomes, StartTurn(r, o) PROVE Goal
  BY <1>3 DEF StartTurn, TurnInv
<1> HIDE DEF Goal
<1>4. ASSUME NEW r \in Runs, HandlerStep(r) PROVE Goal
  <2>1. ASSUME NEW o \in Outcomes, DeferredFinish(r, o) \/ \E noted \in BOOLEAN : FinishTurn(r, noted, o)
        PROVE  Goal
    BY <2>1, <1>1 DEF DeferredFinish, FinishTurn
  <2>2. ASSUME \/ Reject(r) \/ Attach(r) \/ Respond(r) \/ Release(r)
               \/ \E o \in Outcomes : \/ CreateMessage(r, o) \/ FailUntracked(r, o) \/ Inject(r, o)
                                      \/ FinalizeTracked(r, o) \/ FinalizeImage(r, o)
        PROVE  Goal
    BY <2>2, <1>2 DEF Reject, Attach, Respond, Release, CreateMessage, FailUntracked, Inject,
       FinalizeTracked, FinalizeImage
  <2> QED
    BY <1>3, <1>4, <2>1, <2>2 DEF HandlerStep
<1>5. ASSUME NEW r \in Runs, StreamStep(r) PROVE Goal
  <2>1. UNCHANGED turn
    BY <1>5 DEF StreamStep, ProviderStarts, ProviderRefuses, Expire, Complete, ImageDone,
       ImageFails, ProviderFails, Overrun, Stop, PersistFails
  <2> QED
    BY <2>1, <1>2
<1>6. ASSUME NEW r \in Runs,
             CancelStep(r) \/ Poll(r) \/ \E s \in Servers, o \in Outcomes : CancelCommit(r, s, o)
      PROVE  Goal
  BY <1>6, <1>2, CancelStepLocal
<1>7. ASSUME NEW s \in Servers, NEW p \in pending[s], NEW o \in Outcomes, RecoverTurn(s, p, o)
      PROVE  Goal
  <2>1. p.run \in Runs
    OBVIOUS
  <2> QED
    BY <1>7, <2>1, <1>1, NormalizeTyped DEF RecoverTurn
<1>8. ASSUME NEW s \in Servers,
             Crash(s) \/ Restart(s) \/ Serve(s) \/ \E r \in Runs : Reserve(r, s)
      PROVE  Goal
  BY <1>8, <1>2 DEF Crash, Restart, Serve, Reserve
<1>9. Goal
  BY <1>4, <1>5, <1>6, <1>7, <1>8 DEF Next, RecoveryStep
<1> QED
  BY <1>9 DEF Goal

\* Only a restart reads rows.
LEMMA ReadsBefore ==
  ASSUME TypeOK, Next, NEW s \in Servers, NEW p \in pending'[s]
  PROVE  \/ p \in pending[s]
         \/ /\ p.run \in Runs /\ p.status = msg[p.run] /\ turn[p.run] = "running"
            /\ UNCHANGED <<msg, turn>>
<1> DEFINE Goal == \/ p \in pending[s]
                   \/ /\ p.run \in Runs /\ p.status = msg[p.run] /\ turn[p.run] = "running"
                      /\ UNCHANGED <<msg, turn>>
<1> USE DEF TypeOK
<1>1. ASSUME UNCHANGED pending PROVE Goal
  BY <1>1
<1>2. ASSUME NEW r \in Runs, HandlerStep(r) \/ StreamStep(r) PROVE Goal
  BY <1>1, <1>2, RunStepLocal
<1>3. ASSUME NEW r \in Runs,
             CancelStep(r) \/ Poll(r) \/ \E u \in Servers, o \in Outcomes : CancelCommit(r, u, o)
      PROVE  Goal
  BY <1>1, <1>3, CancelStepLocal
<1>4. ASSUME NEW r \in Runs, NEW u \in Servers, Reserve(r, u) PROVE Goal
  BY <1>1, <1>4 DEF Reserve, serverVars
<1>5. ASSUME NEW u \in Servers, Crash(u) \/ Serve(u) PROVE Goal
  BY <1>5 DEF Crash, Serve
<1>6. ASSUME NEW u \in Servers, Restart(u) PROVE Goal
  BY <1>6 DEF Restart, rowVars
<1>7. ASSUME NEW u \in Servers, NEW x \in pending[u], NEW o \in Outcomes, RecoverTurn(u, x, o)
      PROVE  Goal
  BY <1>7 DEF RecoverTurn
<1> QED
  BY <1>2, <1>3, <1>4, <1>5, <1>6, <1>7 DEF Next, RecoveryStep

TurnsInv == \A r \in Runs : TurnInv(r)

LEMMA ReadKept ==
  ASSUME TypeOK, Fresh, TurnsInv, Next, NEW s \in Servers, ReadInv(s)
  PROVE  ReadInv(s)'
<1> SUFFICES ASSUME NEW p \in pending'[s]
             PROVE  /\ turn'[p.run] # "none"
                    /\ turn'[p.run] = "running" /\ p.status \in Terminal => msg'[p.run] = p.status
  BY DEF ReadInv
<1>1. CASE p \in pending[s]
  <2>1. p.run \in Runs
    BY <1>1 DEF TypeOK
  <2>2. turn[p.run] # "none" /\ turn'[p.run] # "none"
        /\ (turn'[p.run] = "running" => turn[p.run] = "running")
    BY <1>1, <2>1, TurnMoves DEF ReadInv, TurnsInv
  <2>3. RowKept(p.run) /\ TurnInv(p.run)
    BY <2>1, RowsKept DEF TurnsInv
  <2>4. ASSUME turn'[p.run] = "running", p.status \in Terminal PROVE msg'[p.run] = p.status
    <3>1. msg[p.run] = p.status /\ turn[p.run] = "running"
      BY <1>1, <2>2, <2>4 DEF ReadInv
    <3>2. msg[p.run] = "cancelled" \/ pc[p.run] \notin Writing
      BY <2>3, <2>4, <3>1 DEF TurnInv, Terminal, Writing, Early
    <3> QED
      BY <2>3, <2>4, <3>1, <3>2 DEF RowKept
  <2> QED
    BY <2>2, <2>4
<1>2. CASE /\ p.run \in Runs /\ p.status = msg[p.run] /\ turn[p.run] = "running"
           /\ UNCHANGED <<msg, turn>>
  BY <1>2
<1> QED
  BY <1>1, <1>2, ReadsBefore

\* While a run meets at most one failing call, its event log never contradicts
\* its row, for any number of processes, crashes and cancel requests (the order
\* of finalizeTracked and recorder.finish, and RecoverIncompleteChatAgentTurns).
THEOREM TurnsAgree ==
  ASSUME OneFault PROVE Spec => []TurnAgrees
<1>1. Init => TurnsInv /\ ReadsInv
  <2>1. Init => TurnsInv
    <3> SUFFICES ASSUME Init, NEW r \in Runs PROVE TurnInv(r)
      BY DEF TurnsInv
    <3>1. msg[r] = "none" /\ turn[r] = "none" /\ pc[r] = "idle" /\ turnFinal[r] = "interrupted"
      BY DEF Init
    <3> QED
      BY <3>1 DEF TurnInv, Agree
  <2>2. Init => ReadsInv
    BY DEF Init, ReadsInv, ReadInv
  <2> QED
    BY <2>1, <2>2
<1>2. TypeOK /\ Fresh /\ TurnsInv /\ ReadsInv /\ [Next]_vars => TurnsInv' /\ ReadsInv'
  <2>1. TypeOK /\ Fresh /\ TurnsInv /\ ReadsInv /\ Next => TurnsInv' /\ ReadsInv'
    BY TurnKept, ReadKept DEF TurnsInv, ReadsInv
  <2>2. TurnsInv /\ ReadsInv /\ UNCHANGED vars => TurnsInv' /\ ReadsInv'
    BY DEF TurnsInv, TurnInv, ReadsInv, ReadInv, vars, rowVars, serverVars, planVars
  <2> QED
    BY <2>1, <2>2
<1>3. TurnsInv => TurnAgrees
  BY DEF TurnsInv, TurnInv, Agree, TurnAgrees
<1> QED
  BY <1>1, <1>2, <1>3, TypeCorrect, FreshCorrect, PTL DEF Spec

\* So the documented order, message before turn, holds until a second call of
\* the run fails: the two with which TLC refutes it are the fewest that can.
THEOREM MessageBeforeTurn ==
  ASSUME OneFault PROVE Spec => []TurnAfterMessage
<1>1. TurnAgrees => TurnAfterMessage
  BY DEF TurnAgrees, TurnAfterMessage, Terminal
<1> QED
  BY <1>1, TurnsAgree, PTL
=============================================================================
