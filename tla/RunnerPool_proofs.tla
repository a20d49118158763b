------------------------- MODULE RunnerPool_proofs -------------------------
(***************************************************************************)
(* Proofs about the runner's process pool, for every number of requests,   *)
(* instances, secrets and processes.                                       *)
(*                                                                         *)
(* None of the invariants is inductive.  They hold because a process has   *)
(* one owner at a time: nobody before it is started, the holder of the     *)
(* mutex while it connects, the map while it serves, and from then on the  *)
(* one closer that took it out; and because its count of users is exactly  *)
(* the number of requests that work with it.                               *)
(***************************************************************************)
EXTENDS RunnerPool, FiniteSetTheorems, TLAPS

Holding == {"room", "start", "connect"}
Working == {"using", "invalidate", "force", "release"}
Users(s) == {c \in Calls : call[c].of = s /\ call[c].step \in Working}
Owned(s) == session[s].closer.by # "nobody"

\* The mutex is held by exactly the acquisition that is under way, and for an
\* instance that has no process.
MutexInv == \A c \in Calls :
  /\ mutex = c <=> call[c].step \in Holding
  /\ call[c].step \in Holding => pool[call[c].inst] = 0

\* A process that is connecting belongs to the acquisition that started it.
ConnectInv == \A c \in Calls : call[c].step = "connect" =>
  LET s == call[c].of IN
  /\ s \in Starts /\ session[s].inst = call[c].inst
  /\ ~Owned(s) /\ session[s].child # "none" /\ Users(s) = {}
  /\ workdir[call[c].inst] \in {0, s}

\* A process in the map belongs to the map.
PoolInv == \A i \in Instances : pool[i] # 0 =>
  /\ session[pool[i]].inst = i /\ ~Owned(pool[i]) /\ session[pool[i]].child # "none"
  /\ workdir[i] \in {0, pool[i]}

\* A request works with a process that was started and counts as its user.
UsersInv ==
  /\ \A c \in Calls : call[c].step \in Working =>
       call[c].of \in Starts /\ session[call[c].of].child # "none"
  /\ \A s \in Starts : session[s].active = Cardinality(Users(s))

\* A closer goes through the child first, and found the process unused unless
\* it closes whatever the process does.
CloserInv == \A s \in Starts :
  /\ session[s].child = "none" => ~Owned(s)
  /\ ~Owned(s) => session[s].closer.left = "all"
  /\ session[s].closer.left # "all" => session[s].child = "gone"
  /\ \/ session[s].closer.by = "eviction"
     \/ session[s].closer.by = "reaper" /\ ~session[s].old
     => ~InUse(s)

PoolIInv ==
  /\ MutexInv /\ ConnectInv /\ PoolInv /\ UsersInv /\ CloserInv
  /\ NoForgottenChild /\ DirectoryHandedOver

-----------------------------------------------------------------------------
(* Types.  How far `active` goes follows from UsersInv.                      *)

CallRec == [step: {"idle", "room", "start", "connect", "using",
                   "invalidate", "force", "release"},
            inst: Instances, secret: Secrets, of: 0..MaxStarts]
CloserRec == [by: {"nobody", "replacement", "eviction", "failure", "reaper", "shutdown", "exit"},
              left: {"all", "directory", "nothing"}]
SessionRec == [inst: Instances, secret: Secrets, active: Nat, old: BOOLEAN,
               child: {"none", "up", "gone"}, closer: CloserRec]

PoolTypes ==
  /\ mutex \in Calls \union {Free} /\ closed \in BOOLEAN
  /\ pool \in [Instances -> 0..MaxStarts] /\ workdir \in [Instances -> 0..MaxStarts]
  /\ session \in [Starts -> SessionRec]
  /\ call \in [Calls -> CallRec]

LEMMA IdleIsCall == IdleCall \in CallRec /\ IdleCall.step = "idle"
<1>1. (CHOOSE i \in Instances : TRUE) \in Instances /\ (CHOOSE e \in Secrets : TRUE) \in Secrets
  BY BoundsAssumption
<1> QED
  BY <1>1, BoundsAssumption DEF IdleCall, CallRec

\* One request takes a step, or returns.
LEMMA StepOf ==
  ASSUME PoolTypes, NEW c \in Calls,
         NEW x \in {"idle", "room", "start", "connect", "using",
                    "invalidate", "force", "release"}, Step(c, x)
  PROVE  /\ call' \in [Calls -> CallRec]
         /\ call'[c].step = x /\ call'[c].inst = call[c].inst /\ call'[c].of = call[c].of
         /\ \A d \in Calls \ {c} : call'[d] = call[d]
<1>1. call[c] \in CallRec
  BY DEF PoolTypes
<1>2. [call[c] EXCEPT !.step = x] \in CallRec
  BY <1>1 DEF CallRec
<1>3. call' = [call EXCEPT ![c] = [call[c] EXCEPT !.step = x]]
  BY DEF Step, PoolTypes
<1> QED
  BY <1>1, <1>2, <1>3 DEF PoolTypes, CallRec

\* What taking processes out of the map does to each process.
LEMMA TakenOut ==
  ASSUME PoolTypes, NEW gone \in SUBSET Starts,
         NEW who \in {"replacement", "eviction", "failure", "reaper", "shutdown", "exit"},
         TakeOut(gone, who)
  PROVE  /\ pool' \in [Instances -> 0..MaxStarts] /\ session' \in [Starts -> SessionRec]
         /\ \A i \in Instances : pool'[i] = IF pool[i] \in gone THEN 0 ELSE pool[i]
         /\ \A s \in Starts :
              /\ session'[s].inst = session[s].inst /\ session'[s].active = session[s].active
              /\ session'[s].old = session[s].old /\ session'[s].child = session[s].child
         /\ \A s \in gone : session'[s].closer.by = who /\ session'[s].closer.left = "all"
         /\ \A s \in Starts \ gone : session'[s] = session[s]
<1>1. pool' \in [Instances -> 0..MaxStarts]
      /\ \A i \in Instances : pool'[i] = IF pool[i] \in gone THEN 0 ELSE pool[i]
  BY BoundsAssumption DEF TakeOut, Without, PoolTypes
<1>2. [by |-> who, left |-> "all"] \in CloserRec
  BY DEF CloserRec
<1>3. ASSUME NEW s \in Starts
      PROVE  /\ session'[s] \in SessionRec
             /\ session'[s].inst = session[s].inst /\ session'[s].active = session[s].active
             /\ session'[s].old = session[s].old /\ session'[s].child = session[s].child
             /\ s \in gone => session'[s].closer = [by |-> who, left |-> "all"]
             /\ s \notin gone => session'[s] = session[s]
  <2>1. session[s] \in SessionRec
    BY DEF PoolTypes
  <2>2. session'[s] = IF s \in gone
                      THEN [session[s] EXCEPT !.closer = [by |-> who, left |-> "all"]]
                      ELSE session[s]
    BY DEF TakeOut, Handed
  <2> QED
    BY <2>1, <2>2, <1>2 DEF SessionRec
<1>4. session' \in [Starts -> SessionRec]
  BY <1>3 DEF TakeOut, Handed
<1> QED
  BY <1>1, <1>3, <1>4

\* How requests are counted: nobody comes or goes, one comes, one goes.
LEMMA UsersStay ==
  ASSUME NEW c \in Calls, \A d \in Calls \ {c} : call'[d] = call[d],
         \/ call'[c].step \in Working /\ call[c].step \in Working /\ call'[c].of = call[c].of
         \/ call'[c].step \notin Working /\ call[c].step \notin Working
  PROVE  \A s \in Starts : Users(s)' = Users(s)
BY DEF Users

LEMMA CountUsers == \A s \in Starts : IsFiniteSet(Users(s)) /\ Cardinality(Users(s)) \in 0..Cardinality(Calls)
<1> SUFFICES ASSUME NEW s \in Starts
             PROVE  IsFiniteSet(Users(s)) /\ Cardinality(Users(s)) \in 0..Cardinality(Calls)
  OBVIOUS
<1>1. Users(s) \subseteq Calls
  BY DEF Users
<1>2. IsFiniteSet(Users(s)) /\ Cardinality(Users(s)) <= Cardinality(Calls)
  BY <1>1, FS_Subset, BoundsAssumption
<1> QED
  BY <1>2, FS_CardinalityType, BoundsAssumption

LEMMA PoolIsStarts == PoolTypes => Registered \subseteq Starts /\ Starts \subseteq Nat \ {0}
BY BoundsAssumption DEF Registered, Starts

\* Whoever takes processes of the map out becomes their owner.
LEMMA TakeOutKeeps ==
  ASSUME PoolTypes, PoolIInv, NEW gone \in SUBSET Registered,
         NEW who \in {"replacement", "eviction", "failure", "reaper", "shutdown", "exit"},
         TakeOut(gone, who), UNCHANGED workdir,
         who = "eviction" => \A s \in gone : Idle(s),
         who = "reaper" => \A s \in gone : Idle(s) \/ session[s].old,
         \A s \in Starts : /\ Users(s)' = Users(s)
                           /\ InUse(s)' => InUse(s)
                           /\ Starting(s) => Starting(s)'
  PROVE  /\ PoolInv' /\ CloserInv' /\ NoForgottenChild' /\ DirectoryHandedOver'
         /\ \A s \in Starts : session'[s].active = Cardinality(Users(s)')
<1>1. gone \in SUBSET Starts
  BY PoolIsStarts
<1>2. /\ pool' \in [Instances -> 0..MaxStarts] /\ session' \in [Starts -> SessionRec]
      /\ \A i \in Instances : pool'[i] = IF pool[i] \in gone THEN 0 ELSE pool[i]
      /\ \A s \in Starts :
           /\ session'[s].inst = session[s].inst /\ session'[s].active = session[s].active
           /\ session'[s].old = session[s].old /\ session'[s].child = session[s].child
      /\ \A s \in gone : session'[s].closer.by = who /\ session'[s].closer.left = "all"
      /\ \A s \in Starts \ gone : session'[s] = session[s]
  BY <1>1, TakenOut
<1>3. \A i \in Instances : pool[i] # 0 => pool[i] \in Starts
  BY DEF PoolTypes, Starts
<1>4. \A s \in gone : \E i \in Instances : pool[i] = s
  BY DEF Registered
<1>5. \A s \in gone : s # 0 /\ s \in Starts
  BY <1>1, PoolIsStarts
<1>6. PoolInv'
  BY <1>2, <1>3, <1>5 DEF PoolIInv, PoolInv, Owned
<1>7. \A s \in gone : ~Owned(s) /\ session[s].child # "none" /\ workdir[session[s].inst] \in {0, s}
  BY <1>4, <1>5 DEF PoolIInv, PoolInv
<1>8. \A s \in gone : Idle(s) => ~InUse(s)
  <2> SUFFICES ASSUME NEW s \in gone, Idle(s) PROVE ~InUse(s)
    OBVIOUS
  <2>1. Users(s) = {}
    BY <1>5, CountUsers, FS_EmptySet DEF Idle, PoolIInv, UsersInv
  <2> QED
    BY <2>1 DEF Users, InUse, Working
<1>9. CloserInv'
  <2> SUFFICES ASSUME NEW s \in Starts
               PROVE  /\ session'[s].child = "none" => session'[s].closer.by = "nobody"
                      /\ session'[s].closer.by = "nobody" => session'[s].closer.left = "all"
                      /\ session'[s].closer.left # "all" => session'[s].child = "gone"
                      /\ \/ session'[s].closer.by = "eviction"
                         \/ session'[s].closer.by = "reaper" /\ ~session'[s].old
                         => ~InUse(s)'
    BY DEF CloserInv, Owned
  <2>1. CASE s \in gone
    BY <2>1, <1>2, <1>7, <1>8
  <2>2. CASE s \notin gone
    BY <2>2, <1>2 DEF PoolIInv, CloserInv, Owned
  <2> QED
    BY <2>1, <2>2
<1>10. \A s \in Starts : s \in Registered => s \in Registered' \/ s \in gone
  BY <1>2 DEF Registered
<1>11. NoForgottenChild'
  <2> SUFFICES ASSUME NEW s \in Starts, session'[s].child = "up"
               PROVE  s \in Registered' \/ Starting(s)' \/ (Closing(s)' /\ session'[s].closer.left = "all")
    BY DEF NoForgottenChild, Starts
  <2>1. CASE s \in gone
    BY <2>1, <1>2 DEF Closing
  <2>2. CASE s \notin gone
    BY <2>2, <1>2, <1>10 DEF PoolIInv, NoForgottenChild, Closing
  <2> QED
    BY <2>1, <2>2
<1>12. DirectoryHandedOver'
  <2> SUFFICES ASSUME NEW s \in Starts, ClosedBy(Inside, s)', Closing(s)'
               PROVE  workdir'[session'[s].inst] \in {0, s}
    BY DEF DirectoryHandedOver, Starts
  <2>1. CASE s \in gone
    BY <2>1, <1>2, <1>7
  <2>2. CASE s \notin gone
    BY <2>2, <1>2 DEF PoolIInv, DirectoryHandedOver, Closing, ClosedBy
  <2> QED
    BY <2>1, <2>2
<1> QED
  BY <1>6, <1>9, <1>11, <1>12, <1>2 DEF PoolIInv, UsersInv

\* Ownership does not change, whatever the requests do.
LEMMA OwnersStay ==
  ASSUME PoolTypes, PoolIInv, UNCHANGED <<pool, workdir>>,
         \A s \in Starts :
           /\ session'[s].inst = session[s].inst /\ session'[s].old = session[s].old
           /\ session'[s].child = session[s].child /\ session'[s].closer = session[s].closer
           /\ InUse(s)' => InUse(s) \/ ~Owned(s)
           /\ Starting(s) => Starting(s)'
  PROVE  PoolInv' /\ CloserInv' /\ NoForgottenChild' /\ DirectoryHandedOver'
<1>1. \A i \in Instances : pool[i] # 0 => pool[i] \in Starts
  BY DEF PoolTypes, Starts
<1>2. PoolInv' /\ DirectoryHandedOver'
  BY <1>1 DEF PoolIInv, PoolInv, Owned, DirectoryHandedOver, ClosedBy, Closing, Starts
<1>3. CloserInv'
  BY DEF PoolIInv, CloserInv, Owned, Starts
<1>4. NoForgottenChild'
  BY DEF PoolIInv, NoForgottenChild, Closing, Registered, Starts
<1> QED
  BY <1>2, <1>3, <1>4

\* A request counts itself as a user, or off.
LEMMA ActiveOf ==
  ASSUME PoolTypes, NEW s \in Starts, NEW n \in Nat, session' = [session EXCEPT ![s].active = n]
  PROVE  /\ session' \in [Starts -> SessionRec]
         /\ session'[s].active = n
         /\ \A o \in Starts \ {s} : session'[o] = session[o]
         /\ \A o \in Starts : /\ session'[o].inst = session[o].inst
                              /\ session'[o].old = session[o].old
                              /\ session'[o].child = session[o].child
                              /\ session'[o].closer = session[o].closer
<1>1. session[s] \in SessionRec
  BY DEF PoolTypes
<1>2. session' = [session EXCEPT ![s] = [session[s] EXCEPT !.active = n]]
  BY DEF PoolTypes
<1>3. [session[s] EXCEPT !.active = n] \in SessionRec
  BY <1>1 DEF SessionRec
<1> QED
  BY <1>1, <1>2, <1>3 DEF PoolTypes, SessionRec

LEMMA ReuseStep ==
  ASSUME PoolTypes, PoolIInv, NEW c \in Calls, NEW i \in Instances, NEW e \in Secrets,
         call[c].step = "idle", mutex = Free, Reuse(c, i, e), UNCHANGED <<workdir, closed>>
  PROVE  PoolTypes' /\ PoolIInv'
<1>1. PICK s \in Starts : /\ s = pool[i] /\ s # 0 /\ session[s].inst = i
                          /\ ~Owned(s) /\ session[s].child # "none"
  BY DEF Reuse, PoolTypes, Starts, PoolIInv, PoolInv
<1>2. /\ session[s].active + 1 \in Nat
      /\ session' = [session EXCEPT ![s].active = session[s].active + 1]
  BY <1>1 DEF PoolTypes, SessionRec, Reuse
<1>3. /\ session' \in [Starts -> SessionRec]
      /\ session'[s].active = session[s].active + 1
      /\ \A o \in Starts \ {s} : session'[o] = session[o]
      /\ \A o \in Starts : /\ session'[o].inst = session[o].inst
                           /\ session'[o].old = session[o].old
                           /\ session'[o].child = session[o].child
                           /\ session'[o].closer = session[o].closer
  BY <1>2, ActiveOf
<1>4. [step |-> "using", inst |-> i, secret |-> e, of |-> s] \in CallRec
  BY <1>1 DEF CallRec, Starts
<1>5. /\ call' \in [Calls -> CallRec] /\ call'[c].step = "using" /\ call'[c].of = s
      /\ \A d \in Calls \ {c} : call'[d] = call[d]
  BY <1>1, <1>4 DEF Reuse, PoolTypes
<1>6. PoolTypes'
  BY <1>3, <1>5 DEF PoolTypes, Reuse
<1>7. Users(s)' = Users(s) \union {c} /\ c \notin Users(s)
      /\ \A o \in Starts \ {s} : Users(o)' = Users(o)
  BY <1>5 DEF Users, Working
<1>8. \A o \in Starts : (InUse(o)' => InUse(o) \/ ~Owned(o)) /\ (Starting(o) => Starting(o)')
  BY <1>1, <1>5 DEF InUse, Starting
<1>9. PoolInv' /\ CloserInv' /\ NoForgottenChild' /\ DirectoryHandedOver'
  BY <1>3, <1>8, OwnersStay DEF Reuse
<1>10. \A o \in Starts : session'[o].active = Cardinality(Users(o)')
  <2>1. \A o \in Starts : session[o].active = Cardinality(Users(o))
    BY DEF PoolIInv, UsersInv
  <2>2. Cardinality(Users(s) \union {c}) = Cardinality(Users(s)) + 1
    BY <1>7, CountUsers, FS_AddElement
  <2> QED
    BY <1>3, <1>7, <2>1, <2>2
<1>11. UsersInv'
  BY <1>1, <1>3, <1>5, <1>10 DEF PoolIInv, UsersInv, Starts
<1>12. MutexInv'
  BY <1>5, BoundsAssumption DEF PoolIInv, MutexInv, Holding, Reuse
<1>13. ConnectInv'
  <2> SUFFICES ASSUME NEW d \in Calls, call'[d].step = "connect" PROVE FALSE
    BY DEF ConnectInv
  <2> QED
    BY <1>5, BoundsAssumption DEF PoolIInv, MutexInv, Holding
<1> QED
  BY <1>6, <1>9, <1>11, <1>12, <1>13 DEF PoolIInv

LEMMA AcquireStep ==
  ASSUME PoolTypes, PoolIInv, NEW c \in Calls, NEW i \in Instances, NEW e \in Secrets, Acquire(c, i, e)
  PROVE  PoolTypes' /\ PoolIInv'
<1>1. CASE Reuse(c, i, e)
  BY <1>1, ReuseStep DEF Acquire
<1>2. CASE ~Reuse(c, i, e)
  <2> DEFINE gone == {pool[i]} \ {0}
  <2>1. /\ TakeOut(gone, "replacement") /\ mutex = Free /\ mutex' = c /\ call[c].step = "idle"
        /\ call' = [call EXCEPT ![c] = [step |-> "room", inst |-> i, secret |-> e, of |-> 0]]
        /\ UNCHANGED <<workdir, closed>>
    BY <1>2 DEF Acquire
  <2>2. gone \in SUBSET Registered /\ gone \in SUBSET Starts
    BY DEF Registered, PoolTypes, Starts
  <2> HIDE DEF gone
  <2>3. [step |-> "room", inst |-> i, secret |-> e, of |-> 0] \in CallRec
    BY BoundsAssumption DEF CallRec
  <2>4. /\ call' \in [Calls -> CallRec] /\ call'[c].step = "room" /\ call'[c].inst = i
        /\ \A d \in Calls \ {c} : call'[d] = call[d]
    BY <2>1, <2>3 DEF PoolTypes
  <2>5. \A s \in Starts : Users(s)' = Users(s)
    BY <2>1, <2>4, UsersStay DEF Working
  <2>6. \A s \in Starts : (InUse(s)' => InUse(s)) /\ (Starting(s) => Starting(s)')
    BY <2>1, <2>4 DEF InUse, Starting
  <2>7. /\ PoolInv' /\ CloserInv' /\ NoForgottenChild' /\ DirectoryHandedOver'
        /\ \A s \in Starts : session'[s].active = Cardinality(Users(s)')
    BY <2>1, <2>2, <2>5, <2>6, TakeOutKeeps
  <2>8. /\ pool' \in [Instances -> 0..MaxStarts] /\ session' \in [Starts -> SessionRec]
        /\ \A j \in Instances : pool'[j] = IF pool[j] \in gone THEN 0 ELSE pool[j]
        /\ \A s \in Starts : session'[s].child = session[s].child
    BY <2>1, <2>2, TakenOut
  <2>9. PoolTypes'
    BY <2>1, <2>4, <2>8 DEF PoolTypes
  <2>10. UsersInv'
    BY <2>4, <2>7, <2>8 DEF PoolIInv, UsersInv, Working, Starts
  <2>11. MutexInv'
    BY <2>1, <2>4, <2>8, BoundsAssumption DEF PoolIInv, MutexInv, Holding, gone
  <2>12. \A d \in Calls : call'[d].step # "connect"
    BY <2>1, <2>4, BoundsAssumption DEF PoolIInv, MutexInv, Holding
  <2> QED
    BY <2>7, <2>9, <2>10, <2>11, <2>12 DEF PoolIInv, ConnectInv
<1> QED
  BY <1>1, <1>2

LEMMA LeaveOf ==
  ASSUME PoolTypes, NEW c \in Calls, call' = [call EXCEPT ![c] = IdleCall]
  PROVE  /\ call' \in [Calls -> CallRec] /\ call'[c].step = "idle"
         /\ \A d \in Calls \ {c} : call'[d] = call[d]
BY IdleIsCall DEF PoolTypes

\* A directory that is removed is gone, or still there.
LEMMA RemovedOf ==
  ASSUME PoolTypes, NEW i \in Instances, Removed(i)
  PROVE  /\ workdir' \in [Instances -> 0..MaxStarts]
         /\ \A j \in Instances : workdir'[j] \in {0, workdir[j]}
BY BoundsAssumption DEF Removed, PoolTypes

\* The holder of the mutex goes on, or gives up; it may have lost a directory
\* on the way.
LEMMA HolderMoves ==
  ASSUME PoolTypes, PoolIInv, NEW c \in Calls, call[c].step \in {"room", "start"},
         UNCHANGED <<pool, session, closed>>, workdir' \in [Instances -> 0..MaxStarts],
         \A i \in Instances : workdir'[i] \in {0, workdir[i]},
         \/ Step(c, "start") /\ UNCHANGED mutex
         \/ Leave(c)
  PROVE  PoolTypes' /\ PoolIInv'
<1>1. /\ call' \in [Calls -> CallRec] /\ \A d \in Calls \ {c} : call'[d] = call[d]
      /\ \/ call'[c].step = "start" /\ call'[c].inst = call[c].inst /\ mutex' = mutex
         \/ call'[c].step = "idle" /\ mutex' = Free
  BY StepOf, LeaveOf DEF Leave
<1>2. PoolTypes'
  BY <1>1 DEF PoolTypes
<1>3. \A s \in Starts : Users(s)' = Users(s)
  BY <1>1, UsersStay DEF Working
<1>4. \A s \in Starts : (InUse(s)' => InUse(s)) /\ (Starting(s) => Starting(s)')
  BY <1>1 DEF InUse, Starting
<1>5. mutex = c /\ \A d \in Calls \ {c} : call[d].step \notin Holding
  BY DEF PoolIInv, MutexInv, Holding
<1>6. MutexInv' /\ ConnectInv'
  BY <1>1, <1>5, BoundsAssumption DEF PoolIInv, MutexInv, ConnectInv, Holding
<1>7. UsersInv'
  BY <1>1, <1>3 DEF PoolIInv, UsersInv, Working, Starts
<1>8. CloserInv' /\ NoForgottenChild'
  BY <1>4 DEF PoolIInv, CloserInv, Owned, NoForgottenChild, Closing, Registered, Starts
<1>9. PoolInv'
  BY DEF PoolIInv, PoolInv, Owned
<1>10. DirectoryHandedOver'
  <2>1. \A s \in Starts : session[s].inst \in Instances
    BY DEF PoolTypes, SessionRec
  <2> QED
    BY <2>1 DEF PoolIInv, DirectoryHandedOver, ClosedBy, Closing, Starts
<1> QED
  BY <1>2, <1>6, <1>7, <1>8, <1>9, <1>10 DEF PoolIInv

LEMMA MakeRoomStep ==
  ASSUME PoolTypes, PoolIInv, NEW c \in Calls, MakeRoom(c)
  PROVE  PoolTypes' /\ PoolIInv'
<1>1. call[c].step = "room" /\ UNCHANGED <<workdir, closed>>
  BY DEF MakeRoom
<1>2. CASE UNCHANGED <<pool, session>>
  <2>1. \/ Step(c, "start") /\ UNCHANGED mutex
        \/ Leave(c)
    BY <1>2, StepOf DEF MakeRoom
  <2> QED
    BY <1>1, <1>2, <2>1, HolderMoves DEF PoolTypes
<1>3. ASSUME NEW s \in Registered, Idle(s), TakeOut({s}, "eviction"), Step(c, "start"), UNCHANGED mutex
      PROVE  PoolTypes' /\ PoolIInv'
  <2>1. {s} \in SUBSET Registered /\ {s} \in SUBSET Starts
    BY <1>3, PoolIsStarts
  <2>2. /\ call' \in [Calls -> CallRec] /\ \A d \in Calls \ {c} : call'[d] = call[d]
        /\ call'[c].step = "start" /\ call'[c].inst = call[c].inst
    BY <1>3, StepOf
  <2>3. \A o \in Starts : Users(o)' = Users(o)
    BY <1>1, <2>2, UsersStay DEF Working
  <2>4. \A o \in Starts : (InUse(o)' => InUse(o)) /\ (Starting(o) => Starting(o)')
    BY <1>1, <2>2 DEF InUse, Starting
  <2>5. /\ PoolInv' /\ CloserInv' /\ NoForgottenChild' /\ DirectoryHandedOver'
        /\ \A o \in Starts : session'[o].active = Cardinality(Users(o)')
    BY <1>1, <1>3, <2>1, <2>3, <2>4, TakeOutKeeps
  <2>6. /\ pool' \in [Instances -> 0..MaxStarts] /\ session' \in [Starts -> SessionRec]
        /\ \A j \in Instances : pool'[j] = IF pool[j] \in {s} THEN 0 ELSE pool[j]
        /\ \A o \in Starts : session'[o].child = session[o].child
    BY <1>3, <2>1, TakenOut
  <2>7. PoolTypes'
    BY <1>1, <1>3, <2>2, <2>6 DEF PoolTypes
  <2>8. mutex = c /\ \A d \in Calls \ {c} : call[d].step \notin Holding
    BY <1>1 DEF PoolIInv, MutexInv, Holding
  <2>9. MutexInv' /\ ConnectInv'
    <3>1. c # Free /\ \A d \in Calls : d # Free
      BY BoundsAssumption
    <3>2. /\ mutex' = c /\ \A d \in Calls \ {c} : call'[d].step \notin Holding
          /\ call'[c].step \in Holding
      <4>1. mutex' = c
        BY <1>3, <2>8
      <4>2. \A d \in Calls \ {c} : call'[d].step \notin Holding
        BY <2>2, <2>8
      <4> QED
        BY <2>2, <4>1, <4>2 DEF Holding
    <3>3. call[c].inst \in Instances /\ pool[call[c].inst] = 0
      <4>1. call[c] \in CallRec /\ call[c].step \in Holding
        BY <1>1 DEF PoolTypes, Holding
      <4>2. call[c].step \in Holding => pool[call[c].inst] = 0
        BY DEF PoolIInv, MutexInv
      <4> QED
        BY <4>1, <4>2 DEF CallRec
    <3>4. pool'[call[c].inst] = 0
      BY <2>6, <3>3
    <3>5. MutexInv'
      BY <2>2, <3>2, <3>4 DEF MutexInv
    <3> QED
      BY <2>2, <3>2, <3>5 DEF ConnectInv, Holding
  <2>10. UsersInv'
    BY <2>2, <2>5, <2>6 DEF PoolIInv, UsersInv, Working, Starts
  <2> QED
    BY <2>5, <2>7, <2>9, <2>10 DEF PoolIInv
<1> QED
  BY <1>2, <1>3 DEF MakeRoom

\* A request that works with its process goes on.
LEMMA WorkingStep ==
  ASSUME PoolTypes, PoolIInv, NEW c \in Calls, call[c].step \in Working,
         NEW x \in Working, Step(c, x),
         x \in {"using", "invalidate"} => call[c].step \in {"using", "invalidate"},
         UNCHANGED <<mutex, pool, session, workdir, closed>>
  PROVE  PoolTypes' /\ PoolIInv'
<1>1. /\ call' \in [Calls -> CallRec] /\ \A d \in Calls \ {c} : call'[d] = call[d]
      /\ call'[c].step = x /\ call'[c].of = call[c].of
  BY StepOf DEF Working
<1>2. PoolTypes'
  BY <1>1 DEF PoolTypes
<1>3. \A s \in Starts : Users(s)' = Users(s)
  BY <1>1, UsersStay
<1>4. \A s \in Starts : (InUse(s)' => InUse(s)) /\ (Starting(s) => Starting(s)')
  BY <1>1 DEF InUse, Starting, Working
<1>5. MutexInv' /\ ConnectInv' /\ UsersInv'
  <2>1. MutexInv'
    <3> SUFFICES ASSUME NEW d \in Calls
                 PROVE  /\ mutex = d <=> call'[d].step \in Holding
                        /\ call'[d].step \in Holding => pool[call'[d].inst] = 0
      BY DEF MutexInv
    <3>1. /\ mutex = d <=> call[d].step \in Holding
          /\ call[d].step \in Holding => pool[call[d].inst] = 0
      BY DEF PoolIInv, MutexInv
    <3>2. CASE d = c
      BY <1>1, <3>1, <3>2 DEF Holding, Working
    <3>3. CASE d # c
      BY <1>1, <3>1, <3>3
    <3> QED
      BY <3>2, <3>3
  <2>2. ConnectInv'
    BY <1>1, <1>3 DEF PoolIInv, ConnectInv, Owned, Working, Starts
  <2>3. UsersInv'
    BY <1>1, <1>3 DEF PoolIInv, UsersInv, Starts
  <2> QED
    BY <2>1, <2>2, <2>3
<1>6. PoolInv' /\ CloserInv' /\ NoForgottenChild' /\ DirectoryHandedOver'
  BY <1>4, OwnersStay
<1> QED
  BY <1>2, <1>5, <1>6 DEF PoolIInv

\* Nobody owns, uses or maps a process that was never started.
LEMMA UnusedIsFree ==
  ASSUME PoolTypes, PoolIInv, NEW s \in Unused
  PROVE  /\ s \in Starts /\ ~Owned(s) /\ s \notin Registered /\ Users(s) = {}
         /\ \A c \in Calls : call[c].step = "connect" => call[c].of # s
<1>1. s \in Starts /\ session[s].child = "none"
  BY DEF Unused
<1>2. s # 0
  BY <1>1, PoolIsStarts
<1> QED
  BY <1>1, <1>2 DEF PoolIInv, CloserInv, PoolInv, UsersInv, ConnectInv, Registered, Users

\* startLocked: the directory and the child of the next process.
LEMMA PrepareStep ==
  ASSUME PoolTypes, PoolIInv, NEW c \in Calls, Prepare(c)
  PROVE  PoolTypes' /\ PoolIInv'
<1>1. call[c].step = "start" /\ HasClosed /\ UNCHANGED <<pool, closed>>
  BY DEF Prepare
<1>2. call[c] \in CallRec /\ call[c].inst \in Instances
  BY DEF PoolTypes, CallRec
<1>3. CASE Leave(c) /\ UNCHANGED session
           /\ Removed(call[c].inst)
  <2>1. workdir' \in [Instances -> 0..MaxStarts] /\ \A i \in Instances : workdir'[i] \in {0, workdir[i]}
    BY <1>2, <1>3, RemovedOf
  <2> QED
    BY <1>1, <1>3, <2>1, HolderMoves
<1>4. ASSUME NEW s \in Unused, NEW i \in Instances, i = call[c].inst, UNCHANGED mutex,
             workdir' = [workdir EXCEPT ![i] = s],
             session' = [session EXCEPT ![s] =
               [inst |-> i, secret |-> call[c].secret, active |-> 0, old |-> FALSE,
                child |-> "up", closer |-> NoCloser]],
             call' = [call EXCEPT ![c].step = "connect", ![c].of = s]
      PROVE  PoolTypes' /\ PoolIInv'
  <2>1. call'[c] = [call[c] EXCEPT !.step = "connect", !.of = s]
        /\ DOMAIN call' = Calls /\ call' = [d \in Calls |-> call'[d]]
        /\ \A d \in Calls \ {c} : call'[d] = call[d]
    BY <1>4 DEF PoolTypes
  <2>2. /\ s \in Starts /\ ~Owned(s) /\ s \notin Registered /\ Users(s) = {}
        /\ \A d \in Calls : call[d].step = "connect" => call[d].of # s
    BY UnusedIsFree
  <2>3. [inst |-> i, secret |-> call[c].secret, active |-> 0, old |-> FALSE,
         child |-> "up", closer |-> NoCloser] \in SessionRec
    BY <1>2 DEF SessionRec, CloserRec, NoCloser, CallRec
  <2>4. /\ session' \in [Starts -> SessionRec]
        /\ session'[s].inst = i /\ session'[s].active = 0 /\ session'[s].child = "up"
        /\ session'[s].closer.by = "nobody" /\ session'[s].closer.left = "all"
        /\ \A o \in Starts \ {s} : session'[o] = session[o]
    BY <1>4, <2>2, <2>3 DEF PoolTypes, NoCloser
  <2>5. /\ call'[c] \in CallRec
        /\ call'[c].step = "connect" /\ call'[c].inst = i /\ call'[c].of = s
    BY <1>2, <1>4, <2>1, <2>2 DEF CallRec, Starts
  <2>6. /\ call' \in [Calls -> CallRec] /\ \A d \in Calls \ {c} : call'[d] = call[d]
        /\ call'[c].step = "connect" /\ call'[c].inst = i /\ call'[c].of = s
    BY <2>1, <2>5 DEF PoolTypes
  <2>7. /\ workdir' \in [Instances -> 0..MaxStarts] /\ workdir'[i] = s
        /\ \A j \in Instances \ {i} : workdir'[j] = workdir[j]
    BY <1>4, <2>2 DEF PoolTypes, Starts
  <2>8. PoolTypes'
    BY <1>1, <1>4, <2>4, <2>6, <2>7 DEF PoolTypes
  <2>9. \A o \in Starts : Users(o)' = Users(o)
    BY <1>1, <2>6, UsersStay DEF Working
  <2>10. \A o \in Starts : (InUse(o)' => InUse(o)) /\ (Starting(o) => Starting(o)')
    BY <1>1, <2>6 DEF InUse, Starting
  <2>11. mutex = c /\ pool[i] = 0 /\ \A d \in Calls \ {c} : call[d].step \notin Holding
    BY <1>1, <1>4 DEF PoolIInv, MutexInv, Holding
  <2>12. MutexInv' /\ ConnectInv'
    <3>1. MutexInv'
      BY <1>1, <1>4, <2>6, <2>11 DEF MutexInv, Holding
    <3>2. ConnectInv'
      BY <2>2, <2>4, <2>6, <2>7, <2>9, <2>11 DEF ConnectInv, Owned, Holding
    <3> QED
      BY <3>1, <3>2
  <2>13. PoolInv'
    BY <1>1, <2>2, <2>4, <2>7, <2>11 DEF PoolIInv, PoolInv, Owned, Registered, PoolTypes, Starts
  <2>14. UsersInv'
    <3>1. session'[s].active = Cardinality(Users(s)')
      BY <2>2, <2>4, <2>9, FS_EmptySet
    <3>2. \A d \in Calls : call'[d].step \in Working =>
            call'[d].of \in Starts /\ session'[call'[d].of].child # "none"
      BY <2>4, <2>6 DEF PoolIInv, UsersInv, Working
    <3> QED
      BY <2>4, <2>9, <3>1, <3>2 DEF PoolIInv, UsersInv, Starts
  <2>15. CloserInv'
    BY <2>4, <2>10 DEF PoolIInv, CloserInv, Owned, Starts
  <2>16. NoForgottenChild'
    <3>1. Starting(s)'
      BY <2>6 DEF Starting
    <3> QED
      BY <1>1, <2>4, <2>10, <3>1 DEF PoolIInv, NoForgottenChild, Closing, Registered, Starts
  <2>17. DirectoryHandedOver'
    BY <1>1, <2>4 DEF HasClosed, ClosingInside, DirectoryHandedOver, ClosedBy, Closing, Starts, Inside
  <2> QED
    BY <2>8, <2>12, <2>13, <2>14, <2>15, <2>16, <2>17 DEF PoolIInv
<1>5. Unused # {} => NextStart \in Unused
  BY DEF NextStart
<1> QED
  BY <1>2, <1>3, <1>4, <1>5 DEF Prepare

\* A process that is not taken out of the map ages, dies or is cleaned up:
\* its owner stays its owner and goes on in one direction.
LEMMA ProcessChanges ==
  ASSUME PoolTypes, PoolIInv, NEW s \in Starts, UNCHANGED <<mutex, pool, call, closed>>,
         session' \in [Starts -> SessionRec],
         \A o \in Starts \ {s} : session'[o] = session[o],
         /\ session'[s].inst = session[s].inst /\ session'[s].active = session[s].active
         /\ session'[s].closer.by = session[s].closer.by
         /\ session[s].old => session'[s].old,
         session'[s].child \in {session[s].child, "gone"},
         session[s].child = "none" => session'[s].child = "none",
         ~Owned(s) \/ session'[s].child = "up" =>
           session'[s].closer.left = session[s].closer.left,
         session'[s].closer.left # "all" => session'[s].child = "gone",
         session[s].closer.left = "nothing" => session'[s].closer.left = "nothing",
         workdir' \in [Instances -> 0..MaxStarts],
         \A i \in Instances : workdir'[i] \in {0, workdir[i]}
  PROVE  PoolTypes' /\ PoolIInv'
<1>1. PoolTypes'
  BY DEF PoolTypes
<1>2. MutexInv'
  BY DEF PoolIInv, MutexInv
<1>3. \A o \in Starts : Users(o)' = Users(o) /\ InUse(o)' = InUse(o) /\ Starting(o)' = Starting(o)
  BY DEF Users, InUse, Starting
<1>4. ConnectInv'
  <2>1. \A c \in Calls : call[c].inst \in Instances
    BY DEF PoolTypes, CallRec
  <2> QED
    BY <1>3, <2>1 DEF PoolIInv, ConnectInv, Owned
<1>5. PoolInv'
  BY DEF PoolIInv, PoolInv, Owned, PoolTypes, Starts
<1>6. UsersInv'
  BY <1>3 DEF PoolIInv, UsersInv, Starts
<1>7. CloserInv'
  <2> SUFFICES ASSUME NEW o \in Starts
               PROVE  /\ session'[o].child = "none" => session'[o].closer.by = "nobody"
                      /\ session'[o].closer.by = "nobody" => session'[o].closer.left = "all"
                      /\ session'[o].closer.left # "all" => session'[o].child = "gone"
                      /\ \/ session'[o].closer.by = "eviction"
                         \/ session'[o].closer.by = "reaper" /\ ~session'[o].old
                         => ~InUse(o)'
    BY DEF CloserInv, Owned, Starts
  <2> QED
    BY <1>3 DEF PoolIInv, CloserInv, Owned
<1>8. NoForgottenChild'
  BY <1>3 DEF PoolIInv, NoForgottenChild, Closing, Registered, Starts
<1>9. DirectoryHandedOver'
  <2>1. \A o \in Starts : session[o].inst \in Instances
    BY DEF PoolTypes, SessionRec
  <2> QED
    BY <2>1 DEF PoolIInv, DirectoryHandedOver, ClosedBy, Closing, Starts
<1> QED
  BY <1>1, <1>2, <1>4, <1>5, <1>6, <1>7, <1>8, <1>9 DEF PoolIInv

LEMMA ProcessStep ==
  ASSUME PoolTypes, PoolIInv, NEW s \in Starts, Kill(s) \/ Remove(s) \/ Age(s) \/ Dies(s)
  PROVE  PoolTypes' /\ PoolIInv'
<1>1. /\ session[s] \in SessionRec /\ session[s].closer \in CloserRec
      /\ session[s].inst \in Instances /\ session \in [Starts -> SessionRec]
      /\ workdir \in [Instances -> 0..MaxStarts]
  BY DEF PoolTypes, SessionRec
<1>2. /\ session[s].child = "none" => ~Owned(s)
      /\ ~Owned(s) => session[s].closer.left = "all"
      /\ session[s].closer.left # "all" => session[s].child = "gone"
  BY DEF PoolIInv, CloserInv
<1>3. CASE Kill(s)
  <2> DEFINE r == [session[s] EXCEPT !.child = "gone",
                                     !.closer = [session[s].closer EXCEPT !.left = "directory"]]
  <2>1. session' = [session EXCEPT ![s] = r] /\ UNCHANGED <<mutex, pool, workdir, call, closed>>
        /\ Closing(s) /\ session[s].closer.left = "all"
    BY <1>3 DEF Kill
  <2>2. /\ r \in SessionRec /\ r.inst = session[s].inst /\ r.active = session[s].active
        /\ r.old = session[s].old /\ r.child = "gone"
        /\ r.closer.by = session[s].closer.by /\ r.closer.left = "directory"
    BY <1>1 DEF SessionRec, CloserRec
  <2> HIDE DEF r
  <2>3. session' \in [Starts -> SessionRec] /\ session'[s] = r
        /\ \A o \in Starts \ {s} : session'[o] = session[o]
    BY <1>1, <2>1, <2>2
  <2> QED
    BY <1>1, <1>2, <2>1, <2>2, <2>3, ProcessChanges DEF Closing, Owned
<1>4. CASE Remove(s)
  <2> DEFINE r == [session[s] EXCEPT !.closer = [session[s].closer EXCEPT !.left = "nothing"]]
  <2>1. session' = [session EXCEPT ![s] = r] /\ UNCHANGED <<mutex, pool, call, closed>>
        /\ Closing(s) /\ session[s].closer.left = "directory"
        /\ Removed(session[s].inst)
    BY <1>4 DEF Remove
  <2>2. /\ r \in SessionRec /\ r.inst = session[s].inst /\ r.active = session[s].active
        /\ r.old = session[s].old /\ r.child = session[s].child
        /\ r.closer.by = session[s].closer.by /\ r.closer.left = "nothing"
    BY <1>1 DEF SessionRec, CloserRec
  <2> HIDE DEF r
  <2>3. session' \in [Starts -> SessionRec] /\ session'[s] = r
        /\ \A o \in Starts \ {s} : session'[o] = session[o]
    BY <1>1, <2>1, <2>2
  <2>4. workdir' \in [Instances -> 0..MaxStarts] /\ \A i \in Instances : workdir'[i] \in {0, workdir[i]}
    BY <1>1, <2>1, RemovedOf
  <2> QED
    BY <1>1, <1>2, <2>1, <2>2, <2>3, <2>4, ProcessChanges DEF Closing, Owned
<1>5. CASE Age(s)
  <2> DEFINE r == [session[s] EXCEPT !.old = TRUE]
  <2>1. session' = [session EXCEPT ![s] = r] /\ UNCHANGED <<mutex, pool, workdir, call, closed>>
    BY <1>5 DEF Age
  <2>2. /\ r \in SessionRec /\ r.inst = session[s].inst /\ r.active = session[s].active
        /\ r.old = TRUE /\ r.child = session[s].child /\ r.closer = session[s].closer
    BY <1>1 DEF SessionRec
  <2> HIDE DEF r
  <2>3. session' \in [Starts -> SessionRec] /\ session'[s] = r
        /\ \A o \in Starts \ {s} : session'[o] = session[o]
    BY <1>1, <2>1, <2>2
  <2> QED
    BY <1>1, <1>2, <2>1, <2>2, <2>3, ProcessChanges
<1>6. CASE Dies(s)
  <2> DEFINE r == [session[s] EXCEPT !.child = "gone"]
  <2>1. session' = [session EXCEPT ![s] = r] /\ UNCHANGED <<mutex, pool, workdir, call, closed>>
        /\ session[s].child = "up"
    BY <1>6 DEF Dies
  <2>2. /\ r \in SessionRec /\ r.inst = session[s].inst /\ r.active = session[s].active
        /\ r.old = session[s].old /\ r.child = "gone" /\ r.closer = session[s].closer
    BY <1>1 DEF SessionRec
  <2> HIDE DEF r
  <2>3. session' \in [Starts -> SessionRec] /\ session'[s] = r
        /\ \A o \in Starts \ {s} : session'[o] = session[o]
    BY <1>1, <2>1, <2>2
  <2> QED
    BY <1>1, <1>2, <2>1, <2>2, <2>3, ProcessChanges
<1> QED
  BY <1>3, <1>4, <1>5, <1>6

\* The process answers and is put into the map, or nothing is left of it.
LEMMA ConnectStep ==
  ASSUME PoolTypes, PoolIInv, NEW c \in Calls, Connect(c)
  PROVE  PoolTypes' /\ PoolIInv'
<1>1. PICK i \in Instances, s \in Starts : i = call[c].inst /\ s = call[c].of
  BY DEF Connect, PoolTypes, CallRec, PoolIInv, ConnectInv
<1>2. /\ session[s].inst = i /\ ~Owned(s) /\ session[s].child # "none" /\ Users(s) = {}
      /\ workdir[i] \in {0, s} /\ call[c].step = "connect" /\ closed' = closed
      /\ mutex = c /\ pool[i] = 0 /\ \A d \in Calls \ {c} : call[d].step \notin Holding
      /\ session[s].active = 0 /\ s # 0
  <2>1. Cardinality(Users(s)) = 0 <=> Users(s) = {}
    BY CountUsers, FS_EmptySet
  <2> QED
    BY <1>1, <2>1 DEF Connect, PoolIInv, ConnectInv, MutexInv, UsersInv, Holding, Starts
<1>3. /\ session[s] \in SessionRec /\ session \in [Starts -> SessionRec]
      /\ pool \in [Instances -> 0..MaxStarts] /\ workdir \in [Instances -> 0..MaxStarts]
  BY DEF PoolTypes
<1>4. \A j \in Instances : pool[j] # s
  BY <1>2 DEF PoolIInv, PoolInv
<1>5. CASE session[s].child = "up" /\ pool' = [pool EXCEPT ![i] = s]
           /\ session' = [session EXCEPT ![s].active = 1]
           /\ mutex' = Free /\ Step(c, "using") /\ UNCHANGED workdir
  <2>1. /\ session' \in [Starts -> SessionRec] /\ session'[s].active = 1
        /\ \A o \in Starts \ {s} : session'[o] = session[o]
        /\ \A o \in Starts : /\ session'[o].inst = session[o].inst
                             /\ session'[o].old = session[o].old
                             /\ session'[o].child = session[o].child
                             /\ session'[o].closer = session[o].closer
    BY <1>5, ActiveOf
  <2>2. /\ call' \in [Calls -> CallRec] /\ \A d \in Calls \ {c} : call'[d] = call[d]
        /\ call'[c].step = "using" /\ call'[c].of = s
    BY <1>1, <1>5, StepOf
  <2>3. /\ pool' \in [Instances -> 0..MaxStarts] /\ pool'[i] = s
        /\ \A j \in Instances \ {i} : pool'[j] = pool[j]
    BY <1>3, <1>5 DEF Starts
  <2>4. PoolTypes'
    BY <1>2, <1>5, <2>1, <2>2, <2>3 DEF PoolTypes
  <2>5. Users(s)' = {c} /\ \A o \in Starts \ {s} : Users(o)' = Users(o)
    BY <1>2, <2>2 DEF Users, Working
  <2>6. MutexInv' /\ ConnectInv'
    BY <1>2, <1>5, <2>2, BoundsAssumption DEF MutexInv, ConnectInv, Holding
  <2>7. PoolInv'
    BY <1>2, <1>4, <1>5, <2>1, <2>3 DEF PoolIInv, PoolInv, Owned, PoolTypes, Starts
  <2>8. UsersInv'
    <3>1. Cardinality({c}) = 1
      BY FS_Singleton
    <3>2. ASSUME NEW o \in Starts PROVE session'[o].active = Cardinality(Users(o)')
      <4>1. CASE o = s
        BY <2>1, <2>5, <3>1, <4>1
      <4>2. CASE o # s
        BY <2>1, <2>5, <4>2 DEF PoolIInv, UsersInv
      <4> QED
        BY <4>1, <4>2
    <3> QED
      BY <1>2, <2>1, <2>2, <3>2 DEF PoolIInv, UsersInv, Starts
  <2>9. \A o \in Starts \ {s} : (InUse(o)' => InUse(o)) /\ (Starting(o) => Starting(o)')
    BY <1>1, <1>2, <2>2 DEF InUse, Starting
  <2>10. CloserInv'
    BY <1>2, <2>1, <2>9 DEF PoolIInv, CloserInv, Owned, Starts
  <2>11. s \in Registered' /\ \A o \in Starts \ {s} : o \in Registered => o \in Registered'
    BY <1>2, <2>3 DEF Registered, Starts
  <2>12. NoForgottenChild'
    BY <2>1, <2>9, <2>11 DEF PoolIInv, NoForgottenChild, Closing, Starts
  <2>13. DirectoryHandedOver'
    BY <1>5, <2>1 DEF PoolIInv, DirectoryHandedOver, ClosedBy, Closing, Starts
  <2> QED
    BY <2>4, <2>6, <2>7, <2>8, <2>10, <2>12, <2>13 DEF PoolIInv
<1>6. CASE session' = [session EXCEPT ![s].child = "gone"] /\ Removed(i)
           /\ Leave(c) /\ UNCHANGED pool
  <2> DEFINE r == [session[s] EXCEPT !.child = "gone"]
  <2>1. session' = [session EXCEPT ![s] = r]
    BY <1>3, <1>6
  <2>2. /\ r \in SessionRec /\ r.inst = session[s].inst /\ r.active = session[s].active
        /\ r.old = session[s].old /\ r.child = "gone" /\ r.closer = session[s].closer
    BY <1>3 DEF SessionRec
  <2> HIDE DEF r
  <2>3. session' \in [Starts -> SessionRec] /\ session'[s] = r
        /\ \A o \in Starts \ {s} : session'[o] = session[o]
    BY <1>3, <2>1, <2>2
  <2>4. workdir' \in [Instances -> 0..MaxStarts] /\ \A j \in Instances : workdir'[j] \in {0, workdir[j]}
    BY <1>6, RemovedOf
  <2>5. /\ call' \in [Calls -> CallRec] /\ \A d \in Calls \ {c} : call'[d] = call[d]
        /\ call'[c].step = "idle" /\ mutex' = Free
    BY <1>6, LeaveOf DEF Leave
  <2>6. PoolTypes'
    BY <1>2, <1>6, <2>3, <2>4, <2>5 DEF PoolTypes
  <2>7. \A o \in Starts : Users(o)' = Users(o)
    BY <1>2, <2>5, UsersStay DEF Working
  <2>8. \A o \in Starts : (InUse(o)' => InUse(o)) /\ (o # s => (Starting(o) => Starting(o)'))
    BY <1>1, <1>2, <2>5 DEF InUse, Starting
  <2>9. MutexInv' /\ ConnectInv'
    BY <1>2, <2>5, BoundsAssumption DEF MutexInv, ConnectInv, Holding
  <2>10. PoolInv'
    BY <1>4, <1>6, <2>3, <2>4 DEF PoolIInv, PoolInv, Owned, PoolTypes, Starts
  <2>11. UsersInv'
    BY <2>2, <2>3, <2>5, <2>7 DEF PoolIInv, UsersInv, Working, Starts
  <2>12. CloserInv'
    BY <1>2, <2>2, <2>3, <2>8 DEF PoolIInv, CloserInv, Owned, Starts
  <2>13. NoForgottenChild'
    BY <1>6, <2>2, <2>3, <2>8 DEF PoolIInv, NoForgottenChild, Closing, Registered, Starts
  <2>14. DirectoryHandedOver'
    <3>1. \A o \in Starts : session[o].inst \in Instances
      BY <1>3 DEF SessionRec
    <3> QED
      BY <2>2, <2>3, <2>4, <3>1 DEF PoolIInv, DirectoryHandedOver, ClosedBy, Closing, Starts
  <2> QED
    BY <2>6, <2>9, <2>10, <2>11, <2>12, <2>13, <2>14 DEF PoolIInv
<1> QED
  BY <1>1, <1>5, <1>6 DEF Connect

\* Whoever takes processes out between two acquisitions.
LEMMA TakeOutStep ==
  ASSUME PoolTypes, PoolIInv, NEW gone \in SUBSET Registered,
         NEW who \in {"failure", "reaper", "shutdown", "exit"}, TakeOut(gone, who),
         who = "reaper" => \A s \in gone : Idle(s) \/ session[s].old,
         closed' \in BOOLEAN, UNCHANGED <<mutex, workdir>>,
         \/ UNCHANGED call
         \/ \E c \in Calls : call[c].step = "invalidate" /\ Step(c, "force")
  PROVE  PoolTypes' /\ PoolIInv'
<1>1. /\ call' \in [Calls -> CallRec]
      /\ \A c \in Calls : /\ \/ call'[c] = call[c]
                             \/ call[c].step = "invalidate" /\ call'[c].step = "force"
                          /\ call'[c].inst = call[c].inst /\ call'[c].of = call[c].of
  <2>1. CASE UNCHANGED call
    BY <2>1 DEF PoolTypes
  <2>2. ASSUME NEW c \in Calls, call[c].step = "invalidate", Step(c, "force")
        PROVE  /\ call' \in [Calls -> CallRec]
               /\ \A d \in Calls : /\ \/ call'[d] = call[d]
                                      \/ call[d].step = "invalidate" /\ call'[d].step = "force"
                                   /\ call'[d].inst = call[d].inst /\ call'[d].of = call[d].of
    BY <2>2, StepOf
  <2> QED
    BY <2>1, <2>2
<1>2. \A s \in Starts : Users(s)' = Users(s)
  BY <1>1 DEF Users, Working
<1>3. \A s \in Starts : (InUse(s)' => InUse(s)) /\ (Starting(s) => Starting(s)')
  BY <1>1 DEF InUse, Starting
<1>4. /\ PoolInv' /\ CloserInv' /\ NoForgottenChild' /\ DirectoryHandedOver'
      /\ \A s \in Starts : session'[s].active = Cardinality(Users(s)')
  BY <1>2, <1>3, TakeOutKeeps
<1>5. gone \in SUBSET Starts
  BY PoolIsStarts
<1>6. /\ pool' \in [Instances -> 0..MaxStarts] /\ session' \in [Starts -> SessionRec]
      /\ \A i \in Instances : pool'[i] = IF pool[i] \in gone THEN 0 ELSE pool[i]
      /\ \A s \in Starts : session'[s].inst = session[s].inst /\ session'[s].child = session[s].child
      /\ \A s \in Starts \ gone : session'[s] = session[s]
  BY <1>5, TakenOut
<1>7. PoolTypes'
  BY <1>1, <1>6 DEF PoolTypes
<1>8. MutexInv'
  BY <1>1, <1>6 DEF PoolIInv, MutexInv, Holding, PoolTypes, CallRec
<1>9. ConnectInv'
  <2> SUFFICES ASSUME NEW c \in Calls, call[c].step = "connect", call'[c] = call[c]
               PROVE  LET s == call[c].of IN
                      /\ s \in Starts /\ session'[s].inst = call[c].inst
                      /\ ~Owned(s)' /\ session'[s].child # "none" /\ Users(s)' = {}
                      /\ workdir'[call[c].inst] \in {0, s}
    BY <1>1 DEF ConnectInv, Starts, Owned
  <2>1. PICK s \in Starts : s = call[c].of
    BY DEF PoolIInv, ConnectInv
  <2>2. /\ session[s].inst = call[c].inst /\ pool[call[c].inst] = 0 /\ ~Owned(s)
        /\ session[s].child # "none" /\ Users(s) = {} /\ workdir[call[c].inst] \in {0, s} /\ s # 0
    BY <2>1 DEF PoolIInv, ConnectInv, MutexInv, Holding, Starts
  <2>3. s \notin Registered
    BY <2>2 DEF PoolIInv, PoolInv, Registered
  <2> QED
    BY <1>2, <1>6, <2>1, <2>2, <2>3 DEF Owned
<1>10. UsersInv'
  BY <1>1, <1>4, <1>6 DEF PoolIInv, UsersInv, Working, Starts
<1> QED
  BY <1>4, <1>7, <1>8, <1>9, <1>10 DEF PoolIInv

LEMMA InvalidateStep ==
  ASSUME PoolTypes, PoolIInv, NEW c \in Calls, Invalidate(c)
  PROVE  PoolTypes' /\ PoolIInv'
<1>1. call[c].step = "invalidate" /\ UNCHANGED <<mutex, workdir, closed>>
  BY DEF Invalidate
<1>2. CASE call[c].of \in Registered /\ TakeOut({call[c].of}, "failure") /\ Step(c, "force")
  BY <1>1, <1>2, TakeOutStep DEF PoolTypes
<1>3. CASE Step(c, "release") /\ UNCHANGED <<pool, session>>
  BY <1>1, <1>3, WorkingStep DEF Working
<1> QED
  BY <1>2, <1>3 DEF Invalidate

LEMMA ReleaseStep ==
  ASSUME PoolTypes, PoolIInv, NEW c \in Calls, Release(c)
  PROVE  PoolTypes' /\ PoolIInv'
<1>1. /\ call[c].step = "release" /\ mutex = Free /\ UNCHANGED <<mutex, pool, workdir, closed>>
      /\ call' = [call EXCEPT ![c] = IdleCall]
  BY DEF Release
<1>2. PICK s \in Starts : s = call[c].of
  BY <1>1 DEF PoolIInv, UsersInv, Working
<1>3. c \in Users(s) /\ IsFiniteSet(Users(s)) /\ Cardinality(Users(s)) \in Nat
      /\ session[s].active = Cardinality(Users(s))
  <2>1. c \in Users(s)
    BY <1>1, <1>2 DEF Users, Working
  <2>2. IsFiniteSet(Users(s)) /\ Cardinality(Users(s)) \in Nat
    BY <1>2, CountUsers, BoundsAssumption, FS_CardinalityType
  <2> QED
    BY <1>2, <2>1, <2>2 DEF PoolIInv, UsersInv
<1>4. Cardinality(Users(s) \ {c}) = Cardinality(Users(s)) - 1 /\ Cardinality(Users(s)) # 0
      /\ Cardinality(Users(s)) - 1 \in Nat
  BY <1>3, FS_RemoveElement, FS_EmptySet
<1>5. session' = [session EXCEPT ![s].active = Cardinality(Users(s)) - 1]
  <2>1. session' = [session EXCEPT ![s].active =
                      IF session[s].active > 0 THEN session[s].active - 1 ELSE 0]
    BY <1>2 DEF Release
  <2>2. (IF session[s].active > 0 THEN session[s].active - 1 ELSE 0) = Cardinality(Users(s)) - 1
    BY <1>3, <1>4
  <2> QED
    BY <2>1, <2>2
<1>6. /\ session' \in [Starts -> SessionRec]
      /\ session'[s].active = Cardinality(Users(s)) - 1
      /\ \A o \in Starts \ {s} : session'[o] = session[o]
      /\ \A o \in Starts : /\ session'[o].inst = session[o].inst
                           /\ session'[o].old = session[o].old
                           /\ session'[o].child = session[o].child
                           /\ session'[o].closer = session[o].closer
  BY <1>4, <1>5, ActiveOf
<1>7. /\ call' \in [Calls -> CallRec] /\ call'[c].step = "idle"
      /\ \A d \in Calls \ {c} : call'[d] = call[d]
  BY <1>1, LeaveOf
<1>8. PoolTypes'
  BY <1>1, <1>6, <1>7 DEF PoolTypes
<1>9. Users(s)' = Users(s) \ {c} /\ \A o \in Starts \ {s} : Users(o)' = Users(o)
  BY <1>1, <1>2, <1>7 DEF Users, Working
<1>10. UsersInv'
  <2>1. ASSUME NEW o \in Starts PROVE session'[o].active = Cardinality(Users(o)')
    <3>1. CASE o = s
      BY <1>4, <1>6, <1>9, <3>1
    <3>2. CASE o # s
      BY <1>6, <1>9, <3>2 DEF PoolIInv, UsersInv
    <3> QED
      BY <3>1, <3>2
  <2> QED
    BY <1>6, <1>7, <2>1 DEF PoolIInv, UsersInv, Working, Starts
<1>11. \A o \in Starts : (InUse(o)' => InUse(o)) /\ (Starting(o) => Starting(o)')
  BY <1>1, <1>7 DEF InUse, Starting
<1>12. PoolInv' /\ CloserInv' /\ NoForgottenChild' /\ DirectoryHandedOver'
  BY <1>1, <1>6, <1>11, OwnersStay
<1>13. MutexInv'
  BY <1>1, <1>7 DEF PoolIInv, MutexInv, Holding
<1>14. ConnectInv'
  BY <1>1, <1>6, <1>7, <1>9, BoundsAssumption DEF PoolIInv, ConnectInv, MutexInv, Holding
<1> QED
  BY <1>8, <1>10, <1>12, <1>13, <1>14 DEF PoolIInv

-----------------------------------------------------------------------------
LEMMA PoolStep ==
  ASSUME PoolTypes, PoolIInv, [Next]_vars
  PROVE  PoolTypes' /\ PoolIInv'
<1>1. ASSUME NEW c \in Calls, Fails(c) \/ Answer(c) \/ Forced(c) PROVE PoolTypes' /\ PoolIInv'
  BY <1>1, WorkingStep DEF Fails, Answer, Forced, Working
<1>2. CASE Reap
  <2>1. PICK idle \in SUBSET {s \in Registered : Idle(s)} :
          TakeOut({s \in Registered : session[s].old} \union idle, "reaper")
    BY <1>2 DEF Reap
  <2>2. UNCHANGED <<mutex, workdir, call, closed>>
    BY <1>2 DEF Reap
  <2> QED
    BY <2>1, <2>2, TakeOutStep DEF PoolTypes
<1>3. ASSUME NEW who \in {"shutdown", "exit"}, Close(who) PROVE PoolTypes' /\ PoolIInv'
  <2>1. UNCHANGED <<mutex, workdir, call>> /\ closed' = TRUE /\ TakeOut(Registered, who)
    BY <1>3 DEF Close
  <2> QED
    BY <2>1, TakeOutStep
<1>4. CASE UNCHANGED <<mutex, pool, session, workdir, call, closed>>
  BY <1>4 DEF PoolTypes, PoolIInv, MutexInv, ConnectInv, PoolInv, UsersInv, CloserInv,
              NoForgottenChild, DirectoryHandedOver, Owned, Users, InUse, Starting, Registered,
              Closing, ClosedBy, Starts
<1> QED
  BY <1>1, <1>2, <1>3, <1>4, AcquireStep, MakeRoomStep, PrepareStep, ConnectStep, InvalidateStep,
     ReleaseStep, ProcessStep
     DEF Next, Within, After, Locks, vars, ReaperCloses, MainCloses, Exit

LEMMA PoolInit == Init => PoolTypes /\ PoolIInv
<1> SUFFICES ASSUME Init PROVE PoolTypes /\ PoolIInv
  OBVIOUS
<1>1. IdleCall \in CallRec /\ IdleCall.step = "idle"
  BY IdleIsCall
<1>2. \A s \in Starts : /\ session[s] \in SessionRec /\ session[s].child = "none"
                        /\ session[s].active = 0 /\ session[s].closer = NoCloser
  BY <1>1 DEF Init, SessionRec, CloserRec, NoCloser, CallRec
<1>3. PoolTypes
  <2>1. session \in [Starts -> SessionRec]
    BY <1>2 DEF Init
  <2>2. call \in [Calls -> CallRec]
    BY <1>1 DEF Init
  <2>3. 0 \in 0..MaxStarts
    BY BoundsAssumption
  <2>4. pool \in [Instances -> 0..MaxStarts] /\ workdir \in [Instances -> 0..MaxStarts]
    BY <2>3 DEF Init
  <2>5. mutex \in Calls \union {Free} /\ closed \in BOOLEAN
    BY DEF Init
  <2> QED
    BY <2>1, <2>2, <2>4, <2>5 DEF PoolTypes
<1>4. \A c \in Calls : call[c].step = "idle"
  BY <1>1 DEF Init
<1>5. \A s \in Starts : Users(s) = {} /\ session[s].active = Cardinality(Users(s))
  BY <1>2, <1>4, FS_EmptySet DEF Users, Working
<1>6. MutexInv /\ ConnectInv /\ PoolInv /\ UsersInv
  BY <1>4, <1>5, BoundsAssumption DEF Init, MutexInv, ConnectInv, PoolInv, UsersInv, Holding, Working
<1>7. CloserInv /\ NoForgottenChild /\ DirectoryHandedOver
  BY <1>2 DEF CloserInv, NoForgottenChild, DirectoryHandedOver, NoCloser, Owned, Closing
<1> QED
  BY <1>3, <1>6, <1>7 DEF PoolIInv

\* A process has one owner at a time and its count of users is exact, in every
\* reachable state: the inductive invariant of the pool.
THEOREM PoolCorrect == Spec => [](PoolTypes /\ PoolIInv)
<1>1. PoolTypes /\ PoolIInv /\ [Next]_vars => (PoolTypes /\ PoolIInv)'
  BY PoolStep
<1> QED
  BY <1>1, PoolInit, PTL DEF Spec

-----------------------------------------------------------------------------
(* The limit.  An acquisition that has made room keeps it: it holds the mutex,  *)
(* and all that happens to the map meanwhile makes it smaller.                  *)

HasRoom == {"start", "connect"}
LimitInv ==
  /\ Cardinality(Registered) <= MaxProcesses
  /\ \A c \in Calls : call[c].step \in HasRoom => Cardinality(Registered) < MaxProcesses

LEMMA SomeStarts == \A S \in SUBSET Starts :
  /\ IsFiniteSet(S) /\ Cardinality(S) \in Nat
  /\ \A T \in SUBSET S : Cardinality(T) <= Cardinality(S)
<1>1. IsFiniteSet(Starts)
  BY FS_Interval, BoundsAssumption DEF Starts
<1>2. ASSUME NEW S \in SUBSET Starts PROVE IsFiniteSet(S) /\ Cardinality(S) \in Nat
  BY <1>1, FS_Subset, FS_CardinalityType
<1>3. ASSUME NEW S \in SUBSET Starts, NEW T \in SUBSET S PROVE Cardinality(T) <= Cardinality(S)
  BY <1>2, FS_Subset
<1> QED
  BY <1>2, <1>3

LEMMA RegisteredStarts == Registered \in SUBSET Starts /\ Registered' \in SUBSET Starts
BY DEF Registered, Starts

\* A step that registers nothing, and after which nobody has come to have room.
LEMMA LimitKeeps ==
  ASSUME LimitInv, Registered' \subseteq Registered,
         \A c \in Calls : call'[c].step \in HasRoom => call[c].step \in HasRoom
  PROVE  LimitInv'
<1>1. /\ Cardinality(Registered') <= Cardinality(Registered)
      /\ Cardinality(Registered') \in Nat /\ Cardinality(Registered) \in Nat
  BY RegisteredStarts, SomeStarts
<1> QED
  BY <1>1, BoundsAssumption DEF LimitInv

\* What is taken out of the map leaves it.
LEMMA TakenOutOf ==
  ASSUME PoolTypes, NEW gone \in SUBSET Starts,
         NEW who \in {"replacement", "eviction", "failure", "reaper", "shutdown", "exit"},
         TakeOut(gone, who)
  PROVE  Registered' = Registered \ gone
<1>1. \A i \in Instances : pool'[i] = IF pool[i] \in gone THEN 0 ELSE pool[i]
  BY TakenOut
<1>2. 0 \notin Starts
  BY DEF Starts
<1> QED
  BY <1>1, <1>2 DEF Registered, Starts

LEMMA MakeRoomLimit ==
  ASSUME PoolTypes, PoolIInv, LimitInv, NEW c \in Calls, MakeRoom(c)
  PROVE  LimitInv'
<1>1. Cardinality(Registered) \in Nat /\ IsFiniteSet(Registered)
  BY RegisteredStarts, SomeStarts
<1>2. call[c].step = "room" /\ \A d \in Calls \ {c} : call[d].step \notin HasRoom
  BY DEF MakeRoom, PoolIInv, MutexInv, Holding, HasRoom
<1>3. CASE ~Full /\ Step(c, "start") /\ UNCHANGED pool
  <2>1. Registered' = Registered
    BY <1>3 DEF Registered, Starts
  <2> QED
    BY <1>1, <1>3, <2>1, BoundsAssumption DEF Full, LimitInv
<1>4. ASSUME NEW s \in Registered, TakeOut({s}, "eviction"), Step(c, "start")
      PROVE  LimitInv'
  <2>1. {s} \in SUBSET Starts
    BY RegisteredStarts
  <2>2. Registered' = Registered \ {s}
    BY <1>4, <2>1, TakenOutOf
  <2>3. Cardinality(Registered \ {s}) = Cardinality(Registered) - 1
    BY <1>1, FS_RemoveElement
  <2>4. Cardinality(Registered') = Cardinality(Registered) - 1
    BY <2>2, <2>3
  <2>5. Cardinality(Registered) <= MaxProcesses
    BY DEF LimitInv
  <2>6. Cardinality(Registered') < MaxProcesses
    BY <1>1, <2>4, <2>5, BoundsAssumption
  <2> QED
    BY <1>1, <2>4, <2>5, <2>6, BoundsAssumption DEF LimitInv
<1>5. CASE Leave(c) /\ UNCHANGED pool
  <2>1. \A d \in Calls : call'[d].step \in HasRoom => call[d].step \in HasRoom
    BY <1>5, LeaveOf DEF Leave, HasRoom
  <2>2. Registered' \subseteq Registered
    BY <1>5 DEF Registered, Starts
  <2> QED
    BY <2>1, <2>2, LimitKeeps
<1> QED
  BY <1>3, <1>4, <1>5 DEF MakeRoom

LEMMA ConnectLimit ==
  ASSUME PoolTypes, PoolIInv, LimitInv, NEW c \in Calls, Connect(c)
  PROVE  LimitInv'
<1>1. call[c].step = "connect" /\ call[c].of \in Starts
  BY DEF Connect, PoolIInv, ConnectInv
<1>2. \A d \in Calls \ {c} : call[d].step \notin HasRoom
  BY <1>1 DEF PoolIInv, MutexInv, Holding, HasRoom
<1>3. CASE pool' = [pool EXCEPT ![call[c].inst] = call[c].of] /\ Step(c, "using")
  <2>1. \A d \in Calls : call'[d].step \notin HasRoom
    BY <1>2, <1>3, StepOf DEF HasRoom
  <2>2. Registered' \subseteq Registered \union {call[c].of}
    BY <1>3 DEF Registered, Starts, PoolTypes
  <2>3. /\ Cardinality(Registered) \in Nat /\ IsFiniteSet(Registered)
        /\ Registered \union {call[c].of} \in SUBSET Starts
    BY <1>1, RegisteredStarts, SomeStarts
  <2>4. Cardinality(Registered \union {call[c].of}) <= Cardinality(Registered) + 1
    BY <2>3, FS_AddElement
  <2>5. /\ Cardinality(Registered') <= Cardinality(Registered \union {call[c].of})
        /\ Cardinality(Registered') \in Nat
        /\ Cardinality(Registered \union {call[c].of}) \in Nat
    BY <2>2, <2>3, RegisteredStarts, SomeStarts
  <2>6. Cardinality(Registered) < MaxProcesses
    BY <1>1 DEF LimitInv, HasRoom
  <2>7. Cardinality(Registered') <= MaxProcesses
    BY <2>3, <2>4, <2>5, <2>6, BoundsAssumption
  <2> QED
    BY <2>1, <2>7 DEF LimitInv
<1>4. CASE Leave(c) /\ UNCHANGED pool
  <2>1. \A d \in Calls : call'[d].step \in HasRoom => call[d].step \in HasRoom
    BY <1>4, LeaveOf DEF Leave, HasRoom
  <2>2. Registered' \subseteq Registered
    BY <1>4 DEF Registered, Starts
  <2> QED
    BY <2>1, <2>2, LimitKeeps
<1> QED
  BY <1>3, <1>4 DEF Connect

\* Nothing else registers a process or gives a request room for one.
LEMMA QuietLimit ==
  ASSUME PoolTypes, LimitInv,
         \/ UNCHANGED pool
         \/ \E gone \in SUBSET Starts,
               who \in {"replacement", "failure", "reaper", "shutdown", "exit"} : TakeOut(gone, who),
         \A c \in Calls : call'[c].step \in HasRoom => call[c].step \in HasRoom
  PROVE  LimitInv'
<1>1. CASE UNCHANGED pool
  BY <1>1, LimitKeeps DEF Registered, Starts
<1>2. ASSUME NEW gone \in SUBSET Starts,
             NEW who \in {"replacement", "failure", "reaper", "shutdown", "exit"}, TakeOut(gone, who)
      PROVE  LimitInv'
  BY <1>2, TakenOutOf, LimitKeeps
<1> QED
  BY <1>1, <1>2

LEMMA LimitStep ==
  ASSUME PoolTypes, PoolIInv, LimitInv, [Next]_vars
  PROVE  LimitInv'
<1>1. ASSUME NEW c \in Calls, NEW i \in Instances, NEW e \in Secrets, Acquire(c, i, e)
      PROVE  LimitInv'
  <2>1. call'[c].step \notin HasRoom /\ \A d \in Calls \ {c} : call'[d] = call[d]
    BY <1>1 DEF Acquire, Reuse, PoolTypes, HasRoom
  <2>2. CASE Reuse(c, i, e)
    BY <2>1, <2>2, QuietLimit DEF Reuse
  <2>3. CASE TakeOut({pool[i]} \ {0}, "replacement")
    <3>1. {pool[i]} \ {0} \in SUBSET Starts
      BY DEF PoolTypes, Starts
    <3> QED
      BY <2>1, <2>3, <3>1, QuietLimit
  <2> QED
    BY <1>1, <2>2, <2>3 DEF Acquire
<1>2. ASSUME NEW c \in Calls, Prepare(c) PROVE LimitInv'
  <2>1. UNCHANGED pool /\ call[c].step = "start"
    BY <1>2 DEF Prepare
  <2>2. \A d \in Calls \ {c} : call'[d] = call[d]
    BY <1>2 DEF Prepare, Leave, PoolTypes
  <2> QED
    BY <2>1, <2>2, QuietLimit DEF HasRoom
<1>3. ASSUME NEW c \in Calls, Fails(c) \/ Answer(c) \/ Forced(c) PROVE LimitInv'
  <2>1. UNCHANGED pool /\ \E x \in {"invalidate", "release"} : Step(c, x)
    BY <1>3 DEF Fails, Answer, Forced
  <2>2. \A d \in Calls : call'[d].step \in HasRoom => call[d].step \in HasRoom
    BY <2>1, StepOf DEF HasRoom
  <2> QED
    BY <2>1, <2>2, QuietLimit
<1>4. ASSUME NEW c \in Calls, Invalidate(c) PROVE LimitInv'
  <2>1. \E x \in {"force", "release"} : Step(c, x)
    BY <1>4 DEF Invalidate
  <2>2. \A d \in Calls : call'[d].step \in HasRoom => call[d].step \in HasRoom
    BY <2>1, StepOf DEF HasRoom
  <2>3. CASE UNCHANGED pool
    BY <2>2, <2>3, QuietLimit
  <2>4. CASE call[c].of \in Registered /\ TakeOut({call[c].of}, "failure")
    <3>1. {call[c].of} \in SUBSET Starts
      BY <2>4, RegisteredStarts
    <3> QED
      BY <2>2, <2>4, <3>1, QuietLimit
  <2> QED
    BY <1>4, <2>3, <2>4 DEF Invalidate
<1>5. ASSUME NEW c \in Calls, Release(c) PROVE LimitInv'
  <2>1. UNCHANGED pool /\ call' = [call EXCEPT ![c] = IdleCall]
    BY <1>5 DEF Release
  <2>2. \A d \in Calls : call'[d].step \in HasRoom => call[d].step \in HasRoom
    BY <2>1, LeaveOf DEF HasRoom
  <2> QED
    BY <2>1, <2>2, QuietLimit
<1>6. ASSUME NEW s \in Starts, Kill(s) \/ Remove(s) \/ Age(s) \/ Dies(s) PROVE LimitInv'
  BY <1>6, QuietLimit DEF Kill, Remove, Age, Dies
<1>7. CASE Reap
  <2>1. PICK idle \in SUBSET {s \in Registered : Idle(s)} :
          TakeOut({s \in Registered : session[s].old} \union idle, "reaper")
    BY <1>7 DEF Reap
  <2>2. {s \in Registered : session[s].old} \union idle \in SUBSET Starts
    BY <2>1, RegisteredStarts
  <2> QED
    BY <1>7, <2>1, <2>2, QuietLimit DEF Reap
<1>8. ASSUME NEW who \in {"shutdown", "exit"}, Close(who) PROVE LimitInv'
  BY <1>8, RegisteredStarts, QuietLimit DEF Close
<1>9. CASE UNCHANGED <<pool, call>>
  BY <1>9, QuietLimit
<1> QED
  BY <1>1, <1>2, <1>3, <1>4, <1>5, <1>6, <1>7, <1>8, <1>9, MakeRoomLimit, ConnectLimit
     DEF Next, Within, After, Locks, vars, ReaperCloses, MainCloses, Exit

LEMMA LimitInit == Init => LimitInv
<1> SUFFICES ASSUME Init PROVE LimitInv
  OBVIOUS
<1>1. Registered = {}
  BY DEF Init, Registered, Starts
<1>2. Cardinality(Registered) = 0
  BY <1>1, FS_EmptySet
<1>3. \A c \in Calls : call[c].step \notin HasRoom
  BY IdleIsCall DEF Init, HasRoom
<1> QED
  BY <1>2, <1>3, BoundsAssumption DEF LimitInv

\* The processes in the map and the one being started are never more than
\* allowed, whoever is evicted, replaced, reaped or fails to start: the test
\* Manager.Health makes of the map can fail only after a shutdown.
THEOREM LimitHolds == Spec => []WithinLimit
<1>1. PoolTypes /\ PoolIInv /\ LimitInv => WithinLimit
  <2> SUFFICES ASSUME PoolTypes, PoolIInv, LimitInv PROVE WithinLimit
    OBVIOUS
  <2> DEFINE starting == {s \in Starts : Starting(s)}
  <2>1. CASE \A c \in Calls : call[c].step # "connect"
    <3>1. Registered \union starting = Registered
      BY <2>1 DEF Starting
    <3> QED
      BY <3>1 DEF WithinLimit, LimitInv
  <2>2. ASSUME NEW c \in Calls, call[c].step = "connect" PROVE WithinLimit
    <3>1. \A d \in Calls \ {c} : call[d].step # "connect"
      BY <2>2 DEF PoolIInv, MutexInv, Holding
    <3>2. call[c].of \in Starts
      BY <2>2 DEF PoolIInv, ConnectInv
    <3>3. starting = {call[c].of}
      BY <2>2, <3>1, <3>2 DEF Starting
    <3>4. Cardinality(Registered \union {call[c].of}) <= Cardinality(Registered) + 1
      BY RegisteredStarts, SomeStarts, FS_AddElement
    <3>5. /\ Cardinality(Registered) \in Nat
          /\ Cardinality(Registered \union {call[c].of}) \in Nat
      BY <3>2, RegisteredStarts, SomeStarts
    <3>6. Cardinality(Registered) < MaxProcesses
      BY <2>2 DEF LimitInv, HasRoom
    <3>7. Cardinality(Registered \union {call[c].of}) <= MaxProcesses
      BY <3>4, <3>5, <3>6, BoundsAssumption
    <3> QED
      BY <3>3, <3>7 DEF WithinLimit
  <2> QED
    BY <2>1, <2>2
<1>2. PoolTypes /\ PoolIInv /\ LimitInv /\ [Next]_vars => LimitInv'
  BY LimitStep
<1> QED
  BY <1>1, <1>2, PoolCorrect, LimitInit, PTL DEF Spec

-----------------------------------------------------------------------------
(* The shutdown.  Once the manager is closed nobody can hold the mutex over    *)
(* two steps, and what main itself took out it closes before the runner ends.  *)

Closes == {"room", "start"}
SealInv ==
  /\ runner \in {"serving", "closing", "gone"}
  /\ closed => Registered = {} /\ mutex = Free
  /\ ClosingInside => \E c \in Calls : call[c].step \in Closes
  /\ runner = "serving" => \A s \in Starts : session[s].closer.by # "exit"
  /\ runner # "serving" => closed
  /\ runner = "gone" => ~Busy("exit")

LEMMA HolderMeansOpen ==
  ASSUME PoolIInv, SealInv, NEW c \in Calls, call[c].step \in Holding
  PROVE  ~closed
BY BoundsAssumption DEF PoolIInv, MutexInv, SealInv

\* A step of the pool while main does nothing.
LEMMA SealKeeps ==
  ASSUME SealInv, Alive, UNCHANGED closed,
         closed => Registered' = {} /\ mutex' = Free,
         \A s \in Starts : session'[s].closer.by = "exit" => session[s].closer.by = "exit",
         ClosingInside' => \E c \in Calls : call'[c].step \in Closes
  PROVE  SealInv'
<1>1. runner' = runner /\ runner \in {"serving", "closing"}
  BY DEF Alive, SealInv
<1>2. runner' = "serving" => \A s \in Starts : session'[s].closer.by # "exit"
  BY <1>1 DEF SealInv
<1> QED
  BY <1>1, <1>2 DEF SealInv, Starts

\* Such a step, when the closers of an acquisition are the ones there were and
\* the acquisition still waits for them.
LEMMA SealQuiet ==
  ASSUME SealInv, Alive, UNCHANGED closed,
         closed => Registered' \subseteq Registered /\ mutex' = mutex,
         \A s \in Starts :
           \/ session'[s].closer = session[s].closer
           \/ session'[s].closer.by \in {"nobody", "failure", "reaper"}
           \/ session'[s].closer.by = session[s].closer.by /\ Closing(s),
         \A c \in Calls : call[c].step \in Closes => call'[c].step \in Closes
  PROVE  SealInv'
<1>1. \A s \in Starts : session'[s].closer.by = "exit" => session[s].closer.by = "exit"
  OBVIOUS
<1>2. \A s \in Starts : ClosedBy(Inside, s)' /\ Closing(s)' => ClosedBy(Inside, s) /\ Closing(s)
  BY DEF ClosedBy, Closing, Inside
<1>3. ClosingInside' => ClosingInside
  BY <1>2 DEF ClosingInside, Starts
<1>4. ClosingInside' => \E c \in Calls : call'[c].step \in Closes
  BY <1>3 DEF SealInv
<1>5. closed => Registered' = {} /\ mutex' = Free
  BY DEF SealInv
<1> QED
  BY <1>1, <1>4, <1>5, SealKeeps

\* Who took processes out without the mutex and is no part of a shutdown.
LEMMA SealTakeOut ==
  ASSUME PoolTypes, SealInv, Alive, UNCHANGED <<mutex, closed>>,
         NEW gone \in SUBSET Registered, NEW who \in {"failure", "reaper"}, TakeOut(gone, who),
         \A c \in Calls : call[c].step \in Closes => call'[c].step \in Closes
  PROVE  SealInv'
<1>1. gone \in SUBSET Starts
  BY RegisteredStarts
<1>2. Registered' \subseteq Registered
  BY <1>1, TakenOutOf
<1>3. /\ \A s \in gone : session'[s].closer.by = who
      /\ \A s \in Starts \ gone : session'[s] = session[s]
  BY <1>1, TakenOut
<1> QED
  BY <1>2, <1>3, SealQuiet

LEMMA SealAcquire ==
  ASSUME PoolTypes, PoolIInv, SealInv,
         NEW c \in Calls, NEW i \in Instances, NEW e \in Secrets, Acquire(c, i, e)
  PROVE  SealInv'
<1>1. /\ Alive /\ ~closed /\ UNCHANGED closed /\ call[c].step = "idle"
      /\ \A d \in Calls \ {c} : call'[d] = call[d]
  BY DEF Acquire, Open, Reuse, PoolTypes
<1>2. CASE Reuse(c, i, e)
  <2>1. PICK s \in Starts : s = pool[i]
    BY <1>2 DEF Reuse, PoolTypes, Starts
  <2>2. PICK n \in Nat : session' = [session EXCEPT ![s].active = n]
    <3>1. session[s].active + 1 \in Nat
      BY <2>1 DEF PoolTypes, SessionRec
    <3> QED
      BY <1>2, <2>1, <3>1 DEF Reuse
  <2>3. \A o \in Starts : session'[o].closer = session[o].closer
    BY <2>2, ActiveOf
  <2> QED
    BY <1>1, <2>3, SealQuiet DEF Closes
<1>3. CASE ~Reuse(c, i, e)
  <2> DEFINE gone == {pool[i]} \ {0}
  <2>1. /\ TakeOut(gone, "replacement")
        /\ call' = [call EXCEPT ![c] = [step |-> "room", inst |-> i, secret |-> e, of |-> 0]]
    BY <1>3 DEF Acquire
  <2>2. gone \in SUBSET Starts
    BY DEF PoolTypes, Starts
  <2> HIDE DEF gone
  <2>3. /\ \A s \in gone : session'[s].closer.by = "replacement"
        /\ \A s \in Starts \ gone : session'[s] = session[s]
    BY <2>1, <2>2, TakenOut
  <2>4. call'[c].step \in Closes
    BY <2>1 DEF PoolTypes, Closes
  <2> QED
    BY <1>1, <2>2, <2>3, <2>4, SealKeeps
<1> QED
  BY <1>2, <1>3

LEMMA SealMakeRoom ==
  ASSUME PoolTypes, PoolIInv, SealInv, NEW c \in Calls, MakeRoom(c)
  PROVE  SealInv'
<1>1. Alive /\ UNCHANGED closed /\ ~closed /\ ~ClosingInside
  BY HolderMeansOpen DEF MakeRoom, HasClosed, Holding
<1>2. CASE UNCHANGED session
  <2>1. ~ClosingInside'
    BY <1>1, <1>2 DEF ClosingInside, ClosedBy, Closing, Starts
  <2> QED
    BY <1>1, <1>2, <2>1, SealKeeps
<1>3. ASSUME NEW s \in Registered, TakeOut({s}, "eviction"), Step(c, "start") PROVE SealInv'
  <2>1. {s} \in SUBSET Starts
    BY RegisteredStarts
  <2>2. session'[s].closer.by = "eviction" /\ \A o \in Starts \ {s} : session'[o] = session[o]
    BY <1>3, <2>1, TakenOut
  <2>3. call'[c].step \in Closes
    BY <1>3, StepOf DEF Closes
  <2> QED
    BY <1>1, <2>1, <2>2, <2>3, SealKeeps
<1> QED
  BY <1>2, <1>3 DEF MakeRoom

LEMMA SealPrepare ==
  ASSUME PoolTypes, PoolIInv, SealInv, NEW c \in Calls, Prepare(c)
  PROVE  SealInv'
<1>1. Alive /\ UNCHANGED closed /\ ~closed /\ ~ClosingInside
  BY HolderMeansOpen DEF Prepare, HasClosed, Holding
<1>2. \A s \in Starts : session'[s] = session[s] \/ session'[s].closer.by = "nobody"
  BY DEF Prepare, PoolTypes, NoCloser
<1>3. ~ClosingInside'
  BY <1>1, <1>2 DEF ClosingInside, ClosedBy, Closing, Starts, Inside
<1> QED
  BY <1>1, <1>2, <1>3, SealKeeps

LEMMA SealConnect ==
  ASSUME PoolTypes, PoolIInv, SealInv, NEW c \in Calls, Connect(c)
  PROVE  SealInv'
<1>1. /\ Alive /\ UNCHANGED closed /\ ~closed
      /\ call[c].step = "connect" /\ call[c].of \in Starts
  BY HolderMeansOpen DEF Connect, Holding, PoolIInv, ConnectInv
<1>2. \A d \in Calls \ {c} : call'[d] = call[d]
  BY DEF Connect, Step, Leave, PoolTypes
<1>3. \A s \in Starts : session'[s].closer = session[s].closer
  <2>1. session \in [Starts -> SessionRec]
    BY DEF PoolTypes
  <2>2. \/ session' = [session EXCEPT ![call[c].of].active = 1]
        \/ session' = [session EXCEPT ![call[c].of].child = "gone"]
    BY DEF Connect
  <2> QED
    BY <1>1, <2>1, <2>2 DEF SessionRec
<1> QED
  BY <1>1, <1>2, <1>3, SealQuiet DEF Closes

\* What happens to one process outside the map.
LEMMA SealProcess ==
  ASSUME PoolTypes, SealInv, NEW s \in Starts, Kill(s) \/ Remove(s) \/ Age(s) \/ Dies(s)
  PROVE  SealInv'
<1>1. Alive /\ UNCHANGED <<mutex, pool, call, closed>>
  BY DEF Kill, Remove, Age, Dies
<1>2. session \in [Starts -> SessionRec] /\ session[s] \in SessionRec /\ session[s].closer \in CloserRec
  BY DEF PoolTypes, SessionRec
<1>3. \A o \in Starts \ {s} : session'[o] = session[o]
  BY <1>2 DEF Kill, Remove, Age, Dies
<1>4. CASE Kill(s) \/ Remove(s)
  <2>1. Closing(s)
    BY <1>4 DEF Kill, Remove
  <2>2. session'[s].closer.by = session[s].closer.by
    BY <1>2, <1>4 DEF Kill, Remove, SessionRec, CloserRec
  <2> QED
    BY <1>1, <1>3, <2>1, <2>2, SealQuiet DEF Registered, Starts
<1>5. CASE Age(s) \/ Dies(s)
  <2>1. session'[s].closer = session[s].closer
    BY <1>2, <1>5 DEF Age, Dies, SessionRec
  <2> QED
    BY <1>1, <1>3, <2>1, SealQuiet DEF Registered, Starts
<1> QED
  BY <1>4, <1>5

\* The manager is closed, by the reaper or by main.
LEMMA SealClose ==
  ASSUME PoolTypes, SealInv, NEW who \in {"shutdown", "exit"}, Close(who)
  PROVE  /\ closed' /\ Registered' = {} /\ mutex' = Free
         /\ ClosingInside' => \E c \in Calls : call'[c].step \in Closes
         /\ \A s \in Starts : session'[s].closer.by \in {session[s].closer.by, who}
<1>1. TakeOut(Registered, who) /\ mutex = Free /\ closed' = TRUE /\ UNCHANGED <<mutex, call>>
  BY DEF Close
<1>2. Registered \in SUBSET Starts
  BY RegisteredStarts
<1>3. Registered' = {}
  BY <1>1, <1>2, TakenOutOf
<1>4. /\ \A s \in Registered : session'[s].closer.by = who
      /\ \A s \in Starts \ Registered : session'[s] = session[s]
  BY <1>1, <1>2, TakenOut
<1>5. ClosingInside' => ClosingInside
  BY <1>2, <1>4 DEF ClosingInside, ClosedBy, Closing, Inside, Starts
<1> QED
  BY <1>1, <1>3, <1>4, <1>5 DEF SealInv

LEMMA SealStep ==
  ASSUME PoolTypes, PoolIInv, SealInv, [Next]_vars
  PROVE  SealInv'
<1>1. ASSUME NEW c \in Calls, Fails(c) \/ Answer(c) \/ Forced(c) PROVE SealInv'
  <2>1. /\ Alive /\ UNCHANGED <<mutex, pool, session, closed>>
        /\ call[c].step \notin Closes
    BY <1>1 DEF Fails, Answer, Forced, Closes
  <2>2. \A d \in Calls \ {c} : call'[d] = call[d]
    BY <1>1 DEF Fails, Answer, Forced, Step, PoolTypes
  <2> QED
    BY <2>1, <2>2, SealQuiet DEF Registered, Starts
<1>2. ASSUME NEW c \in Calls, Invalidate(c) PROVE SealInv'
  <2>1. Alive /\ UNCHANGED <<mutex, closed>> /\ call[c].step \notin Closes
    BY <1>2 DEF Invalidate, Closes
  <2>2. \A d \in Calls \ {c} : call'[d] = call[d]
    BY <1>2 DEF Invalidate, Step, PoolTypes
  <2>3. CASE UNCHANGED <<pool, session>>
    BY <2>1, <2>2, <2>3, SealQuiet DEF Registered, Starts
  <2>4. CASE call[c].of \in Registered /\ TakeOut({call[c].of}, "failure")
    BY <2>1, <2>2, <2>4, SealTakeOut
  <2> QED
    BY <1>2, <2>3, <2>4 DEF Invalidate
<1>3. ASSUME NEW c \in Calls, Release(c) PROVE SealInv'
  <2>1. Alive /\ UNCHANGED <<mutex, pool, closed>> /\ call[c].step = "release"
    BY <1>3 DEF Release
  <2>2. \A d \in Calls \ {c} : call'[d] = call[d]
    BY <1>3, LeaveOf DEF Release
  <2>3. PICK s \in Starts : s = call[c].of
    BY <2>1 DEF PoolIInv, UsersInv, Working
  <2>4. PICK n : session' = [session EXCEPT ![s].active = n]
    BY <1>3, <2>3 DEF Release
  <2>5. \A o \in Starts : session'[o].closer = session[o].closer
    BY <2>4 DEF PoolTypes, SessionRec
  <2> QED
    BY <2>1, <2>2, <2>5, SealQuiet DEF Registered, Starts, Closes
<1>4. CASE Reap
  <2>1. PICK idle \in SUBSET {s \in Registered : Idle(s)} :
          TakeOut({s \in Registered : session[s].old} \union idle, "reaper")
    BY <1>4 DEF Reap
  <2>2. Alive /\ UNCHANGED <<mutex, workdir, call, closed>>
    BY <1>4 DEF Reap
  <2> QED
    BY <2>1, <2>2, SealTakeOut
<1>5. CASE ReaperCloses
  <2>1. /\ closed' /\ Registered' = {} /\ mutex' = Free
        /\ ClosingInside' => \E c \in Calls : call'[c].step \in Closes
        /\ \A s \in Starts : session'[s].closer.by \in {session[s].closer.by, "shutdown"}
    BY <1>5, SealClose DEF ReaperCloses
  <2>2. runner = "serving" /\ runner' = "serving"
    BY <1>5 DEF ReaperCloses, Alive, Close, SealInv
  <2> QED
    BY <2>1, <2>2 DEF SealInv
<1>6. CASE MainCloses
  <2>1. CASE Close("exit") /\ runner' = "closing"
    BY <2>1, SealClose DEF SealInv
  <2>2. CASE closed /\ runner' = "gone" /\ UNCHANGED <<mutex, pool, session, workdir, call, closed>>
    <3>1. ~Busy("exit")
      BY <1>6 DEF MainCloses, SealInv, Busy, ClosedBy
    <3> QED
      BY <2>2, <3>1 DEF SealInv, Busy, ClosedBy, Closing, ClosingInside, Registered, Starts
  <2> QED
    BY <1>6, <2>1, <2>2 DEF MainCloses
<1>7. CASE Exit
  BY <1>7 DEF Exit, SealInv, Busy, ClosedBy, Closing, ClosingInside, Registered, Starts
<1>8. CASE UNCHANGED vars
  BY <1>8 DEF vars, SealInv, Busy, ClosedBy, Closing, ClosingInside, Registered, Starts
<1> QED
  BY <1>1, <1>2, <1>3, <1>4, <1>5, <1>6, <1>7, <1>8, SealAcquire, SealMakeRoom, SealPrepare,
     SealConnect, SealProcess DEF Next, Within, After, Locks

LEMMA SealInit == Init => SealInv
BY DEF Init, SealInv, NoCloser, ClosingInside, Closing

\* In every reachable state: a closed manager is empty and unlocked, and main
\* leaves behind nothing it took out itself.
THEOREM ShutdownInvariant == Spec => []SealInv
<1>1. PoolTypes /\ PoolIInv /\ SealInv /\ [Next]_vars => SealInv'
  BY SealStep
<1> QED
  BY <1>1, SealInit, PoolCorrect, PTL DEF Spec

\* However a shutdown races requests, the reaper and failing calls, nothing is
\* or gets into the map of a closed manager, and a child that outlives the
\* runner was left by a goroutine that main does not wait for.
THEOREM ShutdownIsFinal == Spec => []ShutdownSeals
<1>1. PoolTypes /\ PoolIInv /\ SealInv => ShutdownSeals
  <2> SUFFICES ASSUME PoolTypes, PoolIInv, SealInv, runner = "gone",
                      NEW s \in Starts, session[s].child = "up"
               PROVE  ClosedBy({"reaper", "failure", "shutdown"}, s) /\ session[s].closer.left = "all"
    BY DEF ShutdownSeals, SealInv
  <2>1. Registered = {} /\ mutex = Free
    BY DEF SealInv
  <2>2. \A c \in Calls : call[c].step \notin Holding
    BY <2>1, BoundsAssumption DEF PoolIInv, MutexInv
  <2>3. Closing(s) /\ session[s].closer.left = "all"
    BY <2>1, <2>2 DEF PoolIInv, NoForgottenChild, Starting, Holding
  <2>4. ~ClosedBy(Inside, s)
    BY <2>2, <2>3 DEF SealInv, ClosingInside, Closes, Holding
  <2>5. ~ClosedBy({"exit"}, s)
    BY <2>3 DEF SealInv, Busy
  <2>6. session[s].closer \in CloserRec
    BY DEF PoolTypes, SessionRec
  <2> QED
    BY <2>3, <2>4, <2>5, <2>6 DEF Closing, ClosedBy, Inside, CloserRec
<1> QED
  BY <1>1, PoolCorrect, ShutdownInvariant, PTL

\* Every reachable state is well typed, no process has more users than there
\* are requests, and the pool is within its limit.
THEOREM TypeCorrect == Spec => []TypeOK
<1>1. PoolTypes /\ PoolIInv /\ WithinLimit /\ SealInv => TypeOK
  <2> SUFFICES ASSUME PoolTypes, PoolIInv, WithinLimit, SealInv PROVE TypeOK
    OBVIOUS
  <2>1. \A s \in Starts : session[s] \in SessionRec /\ session[s].active \in 0..Cardinality(Calls)
    BY CountUsers DEF PoolTypes, PoolIInv, UsersInv
  <2>2. session \in [Starts -> [inst: Instances, secret: Secrets, active: 0..Cardinality(Calls),
                                old: BOOLEAN, child: {"none", "up", "gone"}, closer: CloserRec]]
    BY <2>1 DEF PoolTypes, SessionRec
  <2> QED
    BY <2>2 DEF PoolTypes, SealInv, TypeOK, CallRec, CloserRec
<1> QED
  BY <1>1, PoolCorrect, LimitHolds, ShutdownInvariant, PTL

\* However requests, the reaper and the shutdown interleave, a running child is
\* in the map, is being started, or is about to be killed by its one closer.
THEOREM ChildrenAccounted == Spec => []NoForgottenChild
BY PoolCorrect, PTL DEF PoolIInv

\* What an acquisition closes gives its directory back before the next process
\* of the instance is given it.
THEOREM DirectoryHandover == Spec => []DirectoryHandedOver
BY PoolCorrect, PTL DEF PoolIInv

\* A process that a request works with is never taken for idle: the count of
\* its users is exact whatever fails between acquire and release.
THEOREM UsedIsNotIdle == Spec => []NotIdleInUse
<1>1. PoolTypes /\ PoolIInv => NotIdleInUse
  <2> SUFFICES ASSUME PoolTypes, PoolIInv, NEW s \in Starts, InUse(s), Closing(s)
               PROVE  ClosedBy({"replacement", "failure", "shutdown", "exit"}, s) \/ session[s].old
    BY DEF NotIdleInUse
  <2>1. session[s].closer \in CloserRec
    BY DEF PoolTypes, SessionRec
  <2> QED
    BY <2>1 DEF PoolIInv, CloserInv, Closing, ClosedBy, CloserRec
<1> QED
  BY <1>1, PoolCorrect, PTL
=============================================================================
