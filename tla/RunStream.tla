----------------------------- MODULE RunStream -----------------------------
(***************************************************************************)
(* Delivery of one chat run's SSE frames to a browser that may lose its    *)
(* connection and resume from a cursor.                                    *)
(*                                                                         *)
(* Server: the bounded ring of backend/internal/chat/active_run_stream.go, *)
(* the primary socket of stream_delivery.go and the resume endpoint        *)
(* (Handler.resumeRunEvents).  Client: the cursor checks and the bounded   *)
(* resume loop of frontend/.../server/chatApi.ts.                          *)
(*                                                                         *)
(* A frame is its sequence number; frames are published in increasing      *)
(* order, so the Go slice `frames`, a subscription's `Replay` and the      *)
(* buffered channel `Updates` are sets of numbers read from the smallest.  *)
(***************************************************************************)
EXTENDS Integers, FiniteSets, FiniteSetsExt

CONSTANTS
  Conns,            \* resume requests the server can be serving
  NoConn,           \* the client reads none of them
  Sizes,            \* encoded sizes of a frame
  MaxFrames,        \* activeRunStreamMaxFrames
  MaxBytes,         \* activeRunStreamMaxBytes
  SubscriberQueue,  \* activeRunStreamSubscriberQueue
  MaxSubscribers,   \* activeRunStreamMaxSubscribers
  MaxAttempts,      \* resume attempts of the client
  MaxSkip,          \* sequence numbers one publish may jump over
  MaxSequence       \* bound on the frames of the run

ASSUME ConnsAssumption == IsFiniteSet(Conns) /\ NoConn \notin Conns
ASSUME SizesAssumption == Sizes \subseteq Nat \ {0}
ASSUME LimitsAssumption ==
  /\ MaxFrames \in Nat \ {0} /\ MaxBytes \in Nat
  /\ SubscriberQueue \in Nat \ {0} /\ MaxSubscribers \in Nat \ {0}
  /\ MaxAttempts \in Nat /\ MaxSkip \in Nat /\ MaxSequence \in Nat

VARIABLES
  \* the ring
  frames,          \* sequence numbers retained
  size,            \* size[s]: encoded bytes of the retained frame s
  latest,          \* latestSequence
  droppedThrough,
  closed,
  listed,          \* the registry still finds the stream (streamForUser)
  subscribers,     \* connections whose channel is registered and open
  \* the request serving connection c (resumeRunEvents)
  serving,         \* connections whose handler has not returned
  after,           \* after[c]: the cursor the request came with
  gap,             \* oldestSequence of the gap event, 0 without one
  gapUnsent,       \* connections whose gap event is not written yet
  replay,          \* replay frames not written yet
  queue,           \* frames buffered in the channel
  written,         \* history: frames written on c
  detached,        \* a write to the primary socket has failed
  \* the run
  published,       \* history: frames published
  terminal,        \* sequence of the terminal frame, 0 before it
  persisted,       \* the message row has its final status
  \* the client
  phase,           \* "primary", "resume", "reading", "recover", "done"
  conn,            \* connection it reads, or NoConn
  last,            \* lastSequenceByRunId, 0 when unset
  attempts,
  seen,            \* history: frames dispatched to the handlers
  noticed,         \* history: numbers a gap notice told it were skipped
  result           \* "none", "terminal", "recovered", "failed"

ringVars   == <<frames, size, latest, droppedThrough>>
runVars    == <<published, terminal, persisted>>
serveVars  == <<serving, after, gap>>
pipeVars   == <<subscribers, gapUnsent, replay, queue, written>>
clientVars == <<phase, conn, last, attempts, seen, noticed, result>>
vars == <<ringVars, closed, listed, detached, runVars, serveVars, pipeVars, clientVars>>

Sequences == 1..MaxSequence

-----------------------------------------------------------------------------
Init ==
  /\ frames = {} /\ size = [s \in Sequences |-> 0]
  /\ latest = 0 /\ droppedThrough = 0
  /\ closed = FALSE /\ listed = TRUE
  /\ subscribers = {} /\ serving = {} /\ gapUnsent = {}
  /\ after = [c \in Conns |-> 0] /\ gap = [c \in Conns |-> 0]
  /\ replay = [c \in Conns |-> {}] /\ queue = [c \in Conns |-> {}]
  /\ written = [c \in Conns |-> {}]
  /\ detached = FALSE
  /\ published = {} /\ terminal = 0 /\ persisted = FALSE
  /\ phase = "primary" /\ conn = NoConn /\ last = 0 /\ attempts = 0
  /\ seen = {} /\ noticed = {} /\ result = "none"

-----------------------------------------------------------------------------
(* The client's checks on one sequenced event (shouldDispatchSequencedEvent *)
(* and the terminal cases of dispatchStreamEvent).                          *)

\* The event is the next one: it moves the cursor and reaches the handlers.
Dispatch(s) ==
  /\ last' = s /\ seen' = seen \union {s}
  /\ IF s = terminal'
       THEN result' = "terminal" /\ phase' = "done" /\ conn' = NoConn
       ELSE UNCHANGED <<result, phase, conn>>
  /\ UNCHANGED <<attempts, noticed>>

\* A recoverable failure of the stream being read: the resume loop runs
\* another attempt.  A stream that broke before message.started names no run,
\* so there is nothing to resume.
Interrupted ==
  /\ conn' = NoConn
  /\ IF last = 0 THEN phase' = "done" /\ result' = "failed"
                 ELSE phase' = "resume" /\ UNCHANGED result
  /\ UNCHANGED <<last, attempts, seen, noticed>>

ClientReceive(s) ==
  \/ s <= last     /\ UNCHANGED clientVars
  \/ s = last + 1  /\ Dispatch(s)
  \/ s > last + 1  /\ Interrupted

-----------------------------------------------------------------------------
(* publish *)

Bytes(S, sz) == MapThenSumSet(LAMBDA s : sz[s], S)
Fits(S, sz)  == Cardinality(S) <= MaxFrames /\ Bytes(S, sz) <= MaxBytes
Above(S, n)  == {s \in S : s > n}
Oldest(s, S) == s \in S /\ \A r \in S : s <= r
MaxOf(a, b)  == IF a > b THEN a ELSE b

\* The frame joins the ring, and frames leave it from the oldest until both
\* limits hold: d is the last one dropped (0 for none).
EvictThrough(d, s, n) ==
  LET all == frames \union {s}
      sz  == [size EXCEPT ![s] = n]
  IN /\ Fits(Above(all, d), sz)
     /\ \A e \in all \union {0} : e < d => ~Fits(Above(all, e), sz)
     /\ frames' = Above(all, d)
     /\ size' = [k \in Sequences |-> IF k \in Above(all, d) THEN sz[k] ELSE 0]

\* Mutation: an evicted frame is not recorded in droppedThrough.
AppendFrameForget(s, n, base) ==
  \E d \in frames \union {s, 0} : EvictThrough(d, s, n) /\ droppedThrough' = base

AppendFrame(s, n, base) ==
  \E d \in frames \union {s, 0} :
    EvictThrough(d, s, n) /\ droppedThrough' = MaxOf(base, d)

\* A frame larger than the whole ring is not retained.
Retain(s, n) ==
  LET base == IF s > latest + 1 THEN MaxOf(droppedThrough, s - 1)
                                ELSE droppedThrough
  IN IF n <= MaxBytes THEN AppendFrame(s, n, base)
     ELSE droppedThrough' = MaxOf(base, s) /\ UNCHANGED <<frames, size>>

\* Every subscriber gets the frame without waiting; the channel of one that
\* lags a full queue behind is closed and forgotten.
Broadcast(s) ==
  LET ready == {c \in subscribers : Cardinality(queue[c]) < SubscriberQueue}
  IN /\ queue' = [c \in Conns |-> IF c \in ready THEN queue[c] \union {s}
                                                  ELSE queue[c]]
     /\ subscribers' = ready

\* WriteSSEEvent: publish, then write to the primary socket, where the first
\* failed write detaches delivery and nothing is reported to the run.
WritePrimary(s) ==
  \/ /\ phase = "primary" /\ ~detached
     /\ UNCHANGED detached /\ ClientReceive(s)
  \/ /\ phase # "primary"
     /\ detached' \in {detached, TRUE} /\ UNCHANGED clientVars

Publish(s, n, isTerminal) ==
  /\ ~closed /\ terminal = 0
  /\ s > latest /\ s <= latest + 1 + MaxSkip
  /\ latest = 0 => s = 1
  /\ latest' = s
  /\ Retain(s, n)
  /\ Broadcast(s)
  /\ published' = published \union {s}
  /\ terminal' = IF isTerminal THEN s ELSE 0
  /\ WritePrimary(s)
  /\ UNCHANGED <<closed, listed, persisted, serveVars, gapUnsent, replay, written>>

\* The message row gets its final status (FinalizeAssistantMessage).
Persist ==
  /\ ~closed /\ ~persisted /\ persisted' = TRUE
  /\ UNCHANGED <<ringVars, closed, listed, detached, published, terminal,
                 serveVars, pipeVars, clientVars>>

EndRun ==
  /\ ~closed /\ closed' = TRUE
  /\ IF phase = "primary" THEN Interrupted ELSE UNCHANGED clientVars
  /\ UNCHANGED <<ringVars, listed, detached, runVars, serveVars,
                 gapUnsent, replay, queue, written>>

\* activeRunRegistry.finish: the stream closes every channel, the primary
\* response ends with the handler.
Finish == EndRun /\ subscribers' = {}

\* The retention timer, or pruneFinishedLocked for another run, drops the entry.
Forget ==
  /\ closed /\ listed /\ listed' = FALSE
  /\ UNCHANGED <<ringVars, closed, detached, runVars, serveVars, pipeVars, clientVars>>

-----------------------------------------------------------------------------
(* The resume endpoint *)

\* The first retained frame after the client's cursor, or the next number.
OldestRetained(s) == Oldest(s, Above(frames, last) \union {latest + 1})

Subscribe(c) ==
  LET missed == last < droppedThrough
  IN \E oldest \in Sequences \union {latest + 1} :
       /\ OldestRetained(oldest)
       /\ gap' = [gap EXCEPT ![c] = IF missed THEN oldest ELSE 0]
       /\ gapUnsent' = IF missed THEN gapUnsent \union {c} ELSE gapUnsent
       /\ serving' = serving \union {c}
       /\ after' = [after EXCEPT ![c] = last]
       /\ replay' = [replay EXCEPT ![c] = Above(frames, last)]
       /\ subscribers' = IF ~closed /\ Cardinality(subscribers) < MaxSubscribers
                            THEN subscribers \union {c} ELSE subscribers
       /\ UNCHANGED <<queue, written>>

Attempt(c) ==
  /\ c \notin serving
  /\ Subscribe(c)
  /\ phase' = "reading" /\ conn' = c /\ attempts' = attempts + 1
  /\ UNCHANGED <<ringVars, closed, listed, detached, runVars,
                 last, seen, noticed, result>>

\* One attempt of resumeInterruptedRunStream that finds the stream.
Resume(c) ==
  phase = "resume" /\ attempts < MaxAttempts /\ listed /\ Attempt(c)

ToRecover ==
  /\ phase = "resume" /\ phase' = "recover"
  /\ UNCHANGED <<ringVars, closed, listed, detached, runVars, serveVars, pipeVars,
                 conn, last, attempts, seen, noticed, result>>

\* Mutation: a stream that is gone is retried like any other failure.
GiveUpExhausted == attempts >= MaxAttempts /\ ToRecover

\* No attempt is left, or RUN_STREAM_NOT_FOUND, which is not recoverable.
GiveUp == (attempts >= MaxAttempts \/ ~listed) /\ ToRecover

\* recoverTerminalRunResult: the persisted message decides.
Recover ==
  /\ phase = "recover" /\ phase' = "done"
  /\ result' = IF persisted THEN "recovered" ELSE "failed"
  /\ UNCHANGED <<ringVars, closed, listed, detached, runVars, serveVars, pipeVars,
                 conn, last, attempts, seen, noticed>>

\* Mutation: a connection the client has given up still moves its cursor.
WriteGapStale(c) ==
  /\ c \in serving /\ c \in gapUnsent
  /\ gapUnsent' = gapUnsent \ {c}
  /\ last' = gap[c] - 1
  /\ noticed' = noticed \union (after[c] + 1)..(gap[c] - 1)
  /\ UNCHANGED <<phase, conn, attempts, seen, result>>
  /\ UNCHANGED <<ringVars, closed, listed, detached, runVars, serveVars,
                 subscribers, replay, queue, written>>

\* applyStreamGap: the notice resets the cursor in front of the oldest frame.
WriteGap(c) ==
  /\ c \in serving /\ c \in gapUnsent
  /\ gapUnsent' = gapUnsent \ {c}
  /\ IF conn = c
       THEN /\ last' = gap[c] - 1
            /\ noticed' = noticed \union (after[c] + 1)..(gap[c] - 1)
            /\ UNCHANGED <<phase, conn, attempts, seen, result>>
       ELSE UNCHANGED clientVars
  /\ UNCHANGED <<ringVars, closed, listed, detached, runVars, serveVars,
                 subscribers, replay, queue, written>>

\* Writing frame s on connection c; a client that left receives nothing.
Write(c, s) ==
  /\ written' = [written EXCEPT ![c] = written[c] \union {s}]
  /\ UNCHANGED <<ringVars, closed, listed, detached, runVars, serveVars,
                 subscribers, gapUnsent>>
  /\ IF conn = c THEN ClientReceive(s) ELSE UNCHANGED clientVars

WriteReplay(c) ==
  /\ c \in serving /\ c \notin gapUnsent
  /\ \E s \in replay[c] :
       /\ Oldest(s, replay[c])
       /\ replay' = [replay EXCEPT ![c] = replay[c] \ {s}] /\ Write(c, s)
  /\ UNCHANGED queue

WriteUpdate(c) ==
  /\ c \in serving /\ c \notin gapUnsent /\ replay[c] = {}
  /\ \E s \in queue[c] :
       /\ Oldest(s, queue[c])
       /\ queue' = [queue EXCEPT ![c] = queue[c] \ {s}] /\ Write(c, s)
  /\ UNCHANGED replay

\* The handler returns; its deferred Unsubscribe removes the channel.
Return(c) ==
  /\ serving' = serving \ {c} /\ subscribers' = subscribers \ {c}
  /\ gapUnsent' = gapUnsent \ {c}
  /\ replay' = [replay EXCEPT ![c] = {}]
  /\ queue' = [queue EXCEPT ![c] = {}]
  /\ written' = [written EXCEPT ![c] = {}]
  /\ after' = [after EXCEPT ![c] = 0] /\ gap' = [gap EXCEPT ![c] = 0]
  /\ UNCHANGED <<ringVars, closed, listed, detached, runVars>>

\* Everything is written and the channel is closed: the response ends.
ServeEnd(c) ==
  /\ c \in serving /\ c \notin gapUnsent /\ replay[c] = {} /\ queue[c] = {}
  /\ c \notin subscribers
  /\ Return(c)
  /\ IF conn = c THEN Interrupted ELSE UNCHANGED clientVars

\* The handler notices that its client is gone (write error, r.Context().Done).
ServeAbandoned(c) ==
  /\ c \in serving /\ conn # c
  /\ Return(c) /\ UNCHANGED clientVars

\* The network drops the connection the client reads.
ConnLost ==
  /\ phase = "reading" /\ Interrupted
  /\ UNCHANGED <<ringVars, closed, listed, detached, runVars, serveVars, pipeVars>>

PrimaryLost ==
  /\ phase = "primary" /\ Interrupted
  /\ UNCHANGED <<ringVars, closed, listed, detached, runVars, serveVars, pipeVars>>

-----------------------------------------------------------------------------
Serve(c) == WriteGap(c) \/ WriteReplay(c) \/ WriteUpdate(c)
              \/ ServeEnd(c) \/ ServeAbandoned(c)

Next ==
  \/ \E s \in Sequences, n \in Sizes, t \in BOOLEAN : Publish(s, n, t)
  \/ Persist \/ Finish \/ Forget
  \/ \E c \in Conns : Resume(c)
  \/ \E c \in Conns : Serve(c)
  \/ GiveUp \/ Recover \/ ConnLost \/ PrimaryLost
  \/ closed /\ phase = "done" /\ UNCHANGED vars

Spec == Init /\ [][Next]_vars

\* The Go runtime schedules every handler that can run, the run ends, and the
\* browser drives its own loop; losing a connection is never obligatory.
Fairness ==
  /\ WF_vars(Finish)
  /\ WF_vars(\E c \in Conns : Resume(c))
  /\ \A c \in Conns : WF_vars(Serve(c))
  /\ WF_vars(GiveUp) /\ WF_vars(Recover)

FairSpec == Spec /\ Fairness

-----------------------------------------------------------------------------
TypeOK ==
  /\ frames \subseteq Sequences /\ size \in [Sequences -> Nat]
  /\ latest \in 0..MaxSequence /\ droppedThrough \in 0..MaxSequence
  /\ closed \in BOOLEAN /\ listed \in BOOLEAN
  /\ subscribers \subseteq Conns /\ serving \subseteq Conns /\ gapUnsent \subseteq Conns
  /\ after \in [Conns -> 0..MaxSequence] /\ gap \in [Conns -> 0..(MaxSequence + 1)]
  /\ gapUnsent \subseteq serving /\ \A c \in gapUnsent : gap[c] > 0
  /\ replay \in [Conns -> SUBSET Sequences] /\ queue \in [Conns -> SUBSET Sequences]
  /\ written \in [Conns -> SUBSET Sequences]
  /\ detached \in BOOLEAN
  /\ published \subseteq Sequences /\ terminal \in 0..MaxSequence
  /\ persisted \in BOOLEAN
  /\ phase \in {"primary", "resume", "reading", "recover", "done"}
  /\ conn \in Conns \union {NoConn} /\ last \in 0..MaxSequence
  /\ attempts \in 0..MaxAttempts
  /\ seen \subseteq Sequences /\ noticed \subseteq Sequences
  /\ result \in {"none", "terminal", "recovered", "failed"}

\* On a resumed connection without a stream.gap event no published frame after
\* the cursor is jumped over: the frames written are the exact suffix, in
\* order, whatever was evicted, closed or dropped for being slow meanwhile
\* (active_run_stream.go publish/subscribe, resumeRunEvents).
NoSilentSkip ==
  \A c \in Conns : gap[c] = 0 =>
    \A s \in published, w \in written[c] :
      after[c] < s /\ s < w => s \in written[c]

\* The ring never hands out a hole it does not admit: everything published
\* after droppedThrough is still retained.
RingSuffix == \A s \in published : s > droppedThrough => s \in frames

(* NoSilentSkip is not inductive: it holds because of what is still in the    *)
(* pipe behind a connection and because the ring admits every hole.           *)

Pipe(c) == written[c] \union replay[c] \union queue[c]
Before(S, T) == \A s \in S, t \in T : s < t

RingInv ==
  /\ published \subseteq 1..latest /\ frames \subseteq published
  /\ droppedThrough <= latest
  /\ RingSuffix

ConnInv(c) ==
  /\ Pipe(c) \subseteq published
  /\ Before(written[c], replay[c]) /\ Before(written[c], queue[c])
  /\ Before(replay[c], queue[c])
  /\ gap[c] = 0 => \A s \in published, w \in Pipe(c) :
                     after[c] < s /\ s < w => s \in Pipe(c)
  /\ gap[c] = 0 /\ c \in subscribers =>
       \A s \in published : after[c] < s => s \in Pipe(c)
  /\ c \notin serving => Pipe(c) = {}

\* Everything published after the cursor of a gap-free connection is written,
\* waiting to be written in order, or later than the moment the connection
\* stopped being a subscriber; the ring retains all it does not admit to lack.
DeliveryInv == RingInv /\ subscribers \subseteq serving /\ \A c \in Conns : ConnInv(c)

\* The client's call returns: with the terminal frame, with the persisted
\* message, or with a failure after its bounded attempts.
ClientEnds == <>(phase = "done")

\* The ring, the resume endpoint and the browser's loop together are the one
\* ordered feed of RunDelivery: every step of every handler, eviction, lost
\* connection and retry is one step of that feed, or none.
Feed == INSTANCE RunDelivery WITH cursor <- last, outcome <- result
ImplementsFeed == Feed!Spec
=============================================================================
