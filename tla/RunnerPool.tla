----------------------------- MODULE RunnerPool -----------------------------
(***************************************************************************)
(* The MCP runner keeps a small pool of child processes, one per instance, *)
(* each in a working directory whose name is derived from the instance     *)
(* (mcprunner/manager.go).  Requests list and call tools of an instance:   *)
(* they take its process, replace it when it is too old or was started     *)
(* with other secrets, or make room and start one, all under one mutex.  A *)
(* reaper, a failed request and the shutdown take processes out of the     *)
(* pool under the mutex and close them after they have released it.  The   *)
(* process of the runner itself ends without waiting for them              *)
(* (cmd/mcp-runner/main.go).                                               *)
(*                                                                         *)
(* A step is what happens under the mutex in one go; the long steps of an  *)
(* acquisition (closing, starting) hold `mutex` from one step to the next. *)
(* Which idle process was used least recently is left open, as is when it  *)
(* has been idle for long enough; validation of the request is left out.   *)
(***************************************************************************)
EXTENDS Integers, FiniteSets

CONSTANTS
  Calls, Instances,
  Secrets,       \* fingerprints of the environment an instance is started with
  Free,
  MaxProcesses,
  MaxStarts      \* bound on the processes started

ASSUME BoundsAssumption ==
  /\ MaxProcesses \in Nat \ {0} /\ MaxStarts \in Nat
  /\ Free \notin Calls /\ IsFiniteSet(Calls)
  /\ Instances # {} /\ Secrets # {}

VARIABLES
  mutex,     \* the acquisition that holds Manager.mu, or Free
  pool,      \* Manager.sessions: the process of each instance, 0 without one
  session,   \* every managedSession ever made, and its child process
  workdir,   \* the process whose directory exists for an instance, or 0
  call,      \* the requests
  closed,    \* Manager.closed
  runner     \* the runner's own process: what main is doing

vars == <<mutex, pool, session, workdir, call, closed, runner>>

\* Goroutines go on until main returns, whatever they are at.
Alive == runner # "gone" /\ UNCHANGED runner

Starts == 1..MaxStarts
Registered == {s \in Starts : \E i \in Instances : pool[i] = s}
Unused == {s \in Starts : session[s].child = "none"}
NextStart == CHOOSE s \in Unused : TRUE

\* Who closes a process, and how far it is: the process first, then its
\* directory.
NoCloser == [by |-> "nobody", left |-> "all"]
Closing(s) == session[s].closer.by # "nobody" /\ session[s].closer.left # "nothing"
ClosedBy(who, s) == session[s].closer.by \in who

\* Closers that run while the acquisition keeps the mutex.
Inside == {"replacement", "eviction"}
ClosingInside == \E s \in Starts : ClosedBy(Inside, s) /\ Closing(s)

IdleCall == [step |-> "idle", inst |-> CHOOSE i \in Instances : TRUE,
             secret |-> CHOOSE e \in Secrets : TRUE, of |-> 0]

Init ==
  /\ mutex = Free /\ closed = FALSE /\ runner = "serving"
  /\ pool = [i \in Instances |-> 0] /\ workdir = [i \in Instances |-> 0]
  /\ session = [s \in Starts |->
       [inst |-> IdleCall.inst, secret |-> IdleCall.secret, active |-> 0,
        old |-> FALSE, child |-> "none", closer |-> NoCloser]]
  /\ call = [c \in Calls |-> IdleCall]

(* ------------------------------ acquisition ---------------------------- *)

Step(c, step) == call' = [call EXCEPT ![c].step = step]

\* Take processes out of the map; whoever does it closes them.
Without(gone) == [i \in Instances |-> IF pool[i] \in gone THEN 0 ELSE pool[i]]
Handed(gone, who) == [s \in Starts |->
  IF s \in gone THEN [session[s] EXCEPT !.closer = [by |-> who, left |-> "all"]]
  ELSE session[s]]
TakeOut(gone, who) == pool' = Without(gone) /\ session' = Handed(gone, who)

Reusable(s, e) == ~session[s].old /\ session[s].secret = e

\* Mutation: a reused process is not counted as in use.
ReuseUncounted(c, i, e) ==
  /\ pool[i] # 0 /\ Reusable(pool[i], e)
  /\ call' = [call EXCEPT ![c] = [step |-> "using", inst |-> i, secret |-> e, of |-> pool[i]]]
  /\ UNCHANGED <<mutex, pool, session>>

Reuse(c, i, e) ==
  /\ pool[i] # 0 /\ Reusable(pool[i], e)
  /\ session' = [session EXCEPT ![pool[i]].active = @ + 1]
  /\ call' = [call EXCEPT ![c] = [step |-> "using", inst |-> i, secret |-> e, of |-> pool[i]]]
  /\ UNCHANGED <<mutex, pool>>

\* Mutation: a request is served after the shutdown.
OpenAlways == TRUE

Open == ~closed

\* Manager.acquire up to the point where it needs room for a new process.
Acquire(c, i, e) ==
  /\ Alive /\ call[c].step = "idle" /\ mutex = Free /\ Open
  /\ \/ Reuse(c, i, e)
     \/ /\ pool[i] # 0 => ~Reusable(pool[i], e)
        /\ TakeOut({pool[i]} \ {0}, "replacement")
        /\ mutex' = c
        /\ call' = [call EXCEPT ![c] = [step |-> "room", inst |-> i, secret |-> e, of |-> 0]]
  /\ UNCHANGED <<workdir, closed>>

\* Mutation: the old process is closed in the background.
HasClosedNever == TRUE

HasClosed == ~ClosingInside

Idle(s) == session[s].active = 0

\* Mutation: an early return forgets the mutex.
LeaveLocked(c) == UNCHANGED mutex /\ call' = [call EXCEPT ![c] = IdleCall]

Leave(c) == mutex' = Free /\ call' = [call EXCEPT ![c] = IdleCall]

\* Mutation: the pool grows by one process too many.
FullLate == Cardinality(Registered) > MaxProcesses

Full == Cardinality(Registered) >= MaxProcesses

\* At capacity an idle process goes, or there is no room.
MakeRoom(c) ==
  /\ Alive /\ call[c].step = "room" /\ HasClosed
  /\ \/ ~Full /\ Step(c, "start") /\ UNCHANGED <<mutex, pool, session>>
     \/ /\ Full
        /\ \E s \in Registered : Idle(s) /\ TakeOut({s}, "eviction")
        /\ Step(c, "start") /\ UNCHANGED mutex
     \/ /\ Full /\ \A s \in Registered : ~Idle(s)
        /\ Leave(c) /\ UNCHANGED <<pool, session>>
  /\ UNCHANGED <<workdir, closed>>

\* The code ignores an error of os.RemoveAll: the directory may stay.
Removed(i) == \E left \in {0, workdir[i]} : workdir' = [workdir EXCEPT ![i] = left]

\* startLocked makes the directory anew and the child in it.  An error of the
\* eviction or of the file system ends the request.
Prepare(c) ==
  /\ Alive /\ call[c].step = "start" /\ HasClosed
  /\ LET i == call[c].inst s == NextStart IN
     \/ /\ Unused # {}
        /\ workdir' = [workdir EXCEPT ![i] = s]
        /\ session' = [session EXCEPT ![s] =
             [inst |-> i, secret |-> call[c].secret, active |-> 0, old |-> FALSE,
              child |-> "up", closer |-> NoCloser]]
        /\ call' = [call EXCEPT ![c].step = "connect", ![c].of = s]
        /\ UNCHANGED mutex
     \/ Leave(c) /\ Removed(i) /\ UNCHANGED session
  /\ UNCHANGED <<pool, closed>>

\* The process answers within two minutes and is registered, or its process
\* group is killed and its directory removed.
Connect(c) ==
  /\ Alive /\ call[c].step = "connect"
  /\ LET i == call[c].inst s == call[c].of IN
     \/ /\ session[s].child = "up"
        /\ pool' = [pool EXCEPT ![i] = s]
        /\ session' = [session EXCEPT ![s].active = 1]
        /\ mutex' = Free /\ Step(c, "using")
        /\ UNCHANGED workdir
     \/ /\ session' = [session EXCEPT ![s].child = "gone"]
        /\ Removed(i) /\ Leave(c) /\ UNCHANGED pool
  /\ UNCHANGED closed

(* --------------------------- use and release --------------------------- *)

\* The session answers, or the request fails: its child is gone, the caller
\* has cancelled, the protocol broke.
Answer(c) ==
  /\ Alive /\ call[c].step = "using" /\ session[call[c].of].child = "up"
  /\ Step(c, "release") /\ UNCHANGED <<mutex, pool, session, workdir, closed>>

Fails(c) ==
  /\ Alive /\ call[c].step = "using"
  /\ Step(c, "invalidate") /\ UNCHANGED <<mutex, pool, session, workdir, closed>>

\* Mutation: the request takes the session out of the map and leaves it.
InvalidateOnly(c) ==
  /\ Alive /\ call[c].step = "invalidate" /\ mutex = Free
  /\ pool' = Without({call[c].of}) /\ Step(c, "release")
  /\ UNCHANGED <<mutex, session, workdir, closed>>

\* Manager.invalidate: unless somebody took the session out already, the
\* request does, and closes it by force.
Invalidate(c) ==
  /\ Alive /\ call[c].step = "invalidate" /\ mutex = Free
  /\ LET s == call[c].of IN
     \/ /\ s \in Registered
        /\ TakeOut({s}, "failure") /\ Step(c, "force")
     \/ s \notin Registered /\ Step(c, "release") /\ UNCHANGED <<pool, session>>
  /\ UNCHANGED <<mutex, workdir, closed>>

Forced(c) ==
  /\ Alive /\ call[c].step = "force" /\ ~Closing(call[c].of)
  /\ Step(c, "release") /\ UNCHANGED <<mutex, pool, session, workdir, closed>>

Release(c) ==
  /\ Alive /\ call[c].step = "release" /\ mutex = Free
  /\ session' = [session EXCEPT ![call[c].of].active = IF @ > 0 THEN @ - 1 ELSE 0]
  /\ call' = [call EXCEPT ![c] = IdleCall]
  /\ UNCHANGED <<mutex, pool, workdir, closed>>

(* --------------------------- reaper and shutdown ----------------------- *)

Busy(who) == \E s \in Starts : ClosedBy({who}, s) /\ Closing(s)

\* Manager.reap: every process past its lifetime, also one in use, and those
\* that have been idle for long.
Reap ==
  /\ Alive /\ mutex = Free /\ ~closed /\ ~Busy("reaper")
  /\ LET aged == {s \in Registered : session[s].old} IN
     \E idle \in SUBSET {s \in Registered : Idle(s)} :
       aged \union idle # {} /\ TakeOut(aged \union idle, "reaper")
  /\ UNCHANGED <<mutex, workdir, call, closed>>

\* Manager.Close, by the reaper's goroutine or by main: whoever comes first
\* takes every process out.
Close(who) ==
  /\ mutex = Free /\ ~closed /\ closed' = TRUE
  /\ TakeOut(Registered, who)
  /\ UNCHANGED <<mutex, workdir, call>>

\* A signal, or an error of the listener, cancels the context; it may come at
\* any time and does nothing else to the pool.  RunReaper sees it once it is
\* through with what it reaped.
ReaperCloses == Alive /\ ~Busy("reaper") /\ Close("shutdown")

\* main gives the requests ten seconds and calls Close on its way out.  When
\* the reaper was first, Close returns at once and the process ends.
MainCloses ==
  /\ runner = "serving" /\ mutex = Free
  /\ \/ Close("exit") /\ runner' = "closing"
     \/ /\ closed /\ runner' = "gone"
        /\ UNCHANGED <<mutex, pool, session, workdir, call, closed>>

\* When main was first, it closes every process before the runner ends.
Exit ==
  /\ runner = "closing" /\ ~Busy("exit") /\ runner' = "gone"
  /\ UNCHANGED <<mutex, pool, session, workdir, call, closed>>

\* The reaper and a shutdown close one process after the other.
Turn(s) == ClosedBy({"reaper", "shutdown", "exit"}, s) =>
  \A o \in Starts \ {s} :
    session[o].closer.by = session[s].closer.by => session[o].closer.left # "directory"

\* closeManagedSession and forceCloseManagedSession: first the child, whose
\* process group the runner started itself and may kill.
Kill(s) ==
  /\ Alive /\ Closing(s) /\ session[s].closer.left = "all" /\ Turn(s)
  /\ session' = [session EXCEPT ![s].child = "gone", ![s].closer.left = "directory"]
  /\ UNCHANGED <<mutex, pool, workdir, call, closed>>

\* Then the directory of that name, whoever works in it.
Remove(s) ==
  /\ Alive /\ Closing(s) /\ session[s].closer.left = "directory"
  /\ session' = [session EXCEPT ![s].closer.left = "nothing"]
  /\ Removed(session[s].inst)
  /\ UNCHANGED <<mutex, pool, call, closed>>

\* A process reaches the end of its lifetime; a process dies.  What becomes of
\* it after the runner has ended is left out.
Age(s) ==
  /\ Alive /\ s \in Registered /\ ~session[s].old
  /\ session' = [session EXCEPT ![s].old = TRUE]
  /\ UNCHANGED <<mutex, pool, workdir, call, closed>>

Dies(s) ==
  /\ Alive /\ session[s].child = "up"
  /\ session' = [session EXCEPT ![s].child = "gone"]
  /\ UNCHANGED <<mutex, pool, workdir, call, closed>>

Within(c) == MakeRoom(c) \/ Prepare(c) \/ Connect(c)
After(c)  == Fails(c) \/ Answer(c) \/ Forced(c)
Locks(c)  == Invalidate(c) \/ Release(c)

Next ==
  \/ \E c \in Calls : \/ \E i \in Instances, e \in Secrets : Acquire(c, i, e)
                      \/ Within(c) \/ After(c) \/ Locks(c)
  \/ \E s \in Starts : Kill(s) \/ Remove(s) \/ Age(s) \/ Dies(s)
  \/ Reap \/ ReaperCloses \/ MainCloses \/ Exit

Spec == Init /\ [][Next]_vars

\* Goroutines run; every wait inside an acquisition and inside a request has a
\* time limit; a Go mutex lets a waiting goroutine in before late-comers.  All
\* of it ends with the runner.
FairSpec ==
  /\ Spec
  /\ \A c \in Calls : /\ WF_vars(Within(c)) /\ WF_vars(After(c))
                      /\ SF_vars(Invalidate(c)) /\ SF_vars(Release(c))
  /\ \A s \in Starts : WF_vars(Kill(s)) /\ WF_vars(Remove(s))

(* ------------------------------ properties ----------------------------- *)

Starting(s) == \E c \in Calls : call[c].step = "connect" /\ call[c].of = s

\* What Manager.Health relies on: the processes in the map and the one being
\* started are no more than allowed.  Those being closed come on top.
WithinLimit == Cardinality(Registered \union {s \in Starts : Starting(s)}) <= MaxProcesses

\* Types; no process has more users than there are requests, and the pool is
\* within its limit.
TypeOK ==
  /\ WithinLimit
  /\ mutex \in Calls \union {Free} /\ closed \in BOOLEAN
  /\ runner \in {"serving", "closing", "gone"}
  /\ pool \in [Instances -> 0..MaxStarts] /\ workdir \in [Instances -> 0..MaxStarts]
  /\ session \in [Starts -> [inst: Instances, secret: Secrets, active: 0..Cardinality(Calls), old: BOOLEAN,
       child: {"none", "up", "gone"},
       closer: [by: {"nobody", "replacement", "eviction", "failure", "reaper", "shutdown", "exit"},
                left: {"all", "directory", "nothing"}]]]
  /\ call \in [Calls -> [step: {"idle", "room", "start", "connect", "using",
                                 "invalidate", "force", "release"},
                          inst: Instances, secret: Secrets, of: 0..MaxStarts]]

\* However requests, reaper and shutdown interleave, a running child is in the
\* map, is being started by the holder of the mutex, or is about to be killed
\* by whoever took it out: none is forgotten.
NoForgottenChild ==
  \A s \in Starts : session[s].child = "up" =>
    s \in Registered \/ Starting(s) \/ (Closing(s) /\ session[s].closer.left = "all")

\* A process a request still works with is not taken for idle, neither to make
\* room nor by the reaper before its time.
InUse(s) == \E c \in Calls : call[c].of = s /\ call[c].step \in {"using", "invalidate"}
NotIdleInUse ==
  \A s \in Starts : InUse(s) /\ Closing(s) =>
    ClosedBy({"replacement", "failure", "shutdown", "exit"}, s) \/ session[s].old

\* What an acquisition closes is gone, directory and all, before the next
\* process of the instance is given the directory.
DirectoryHandedOver ==
  \A s \in Starts : ClosedBy(Inside, s) /\ Closing(s) =>
    workdir[session[s].inst] \in {0, s}

\* A request ends, whatever fails, unless the runner ends first.
CallReturns == \A c \in Calls :
  call[c].step # "idle" ~> call[c].step = "idle" \/ runner = "gone"

\* What a shutdown does achieve, however it races requests, reaper and failing
\* calls: once the manager is closed no process is in the map and no acquisition
\* that could add one is under way, and a child that outlives the runner is one
\* that a goroutine main does not wait for had taken out and not yet killed.
ShutdownSeals ==
  /\ closed => Registered = {} /\ mutex = Free
  /\ runner = "gone" => \A s \in Starts : session[s].child = "up" =>
       ClosedBy({"reaper", "failure", "shutdown"}, s) /\ session[s].closer.left = "all"

\* Documented, and refuted: mcprunner/DESIGN.md:45 says that on shutdown every
\* process group is terminated.
ShutdownTerminates == runner = "gone" => \A s \in Starts : session[s].child # "up"
=============================================================================
