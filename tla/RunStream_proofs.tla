-------------------------- MODULE RunStream_proofs --------------------------
(***************************************************************************)
(* Proofs about the run stream, for every size of the ring, every number   *)
(* of connections and every length of the run.                             *)
(***************************************************************************)
EXTENDS RunStream, TLAPS

\* The state of the client alone.
ClientTypeOK ==
  /\ phase \in {"primary", "resume", "reading", "recover", "done"}
  /\ conn \in Conns \union {NoConn} /\ last \in 0..MaxSequence
  /\ attempts \in 0..MaxAttempts
  /\ seen \subseteq Sequences /\ noticed \subseteq Sequences
  /\ result \in {"none", "terminal", "recovered", "failed"}

\* An interrupted client, and one that receives a frame, stay well typed.
LEMMA ClientTyped ==
  ASSUME ClientTypeOK,
         Interrupted \/ (\E s \in Sequences : ClientReceive(s)) \/ UNCHANGED clientVars
  PROVE  ClientTypeOK'
<1> USE DEF ClientTypeOK, Sequences
<1>1. CASE Interrupted
  BY <1>1 DEF Interrupted
<1>2. CASE UNCHANGED clientVars
  BY <1>2 DEF clientVars
<1>3. ASSUME NEW s \in Sequences, ClientReceive(s) PROVE ClientTypeOK'
  <2>1. CASE Dispatch(s)
    BY <2>1 DEF Dispatch
  <2> QED
    BY <1>1, <1>2, <1>3, <2>1 DEF ClientReceive
<1> QED
  BY <1>1, <1>2, <1>3

\* Publishing keeps the ring well typed.
LEMMA RetainTyped ==
  ASSUME TypeOK, NEW s \in Sequences, NEW n \in Sizes, Retain(s, n)
  PROVE  /\ frames' \subseteq Sequences /\ size' \in [Sequences -> Nat]
         /\ droppedThrough' \in 0..MaxSequence
<1> DEFINE base == IF s > latest + 1 THEN MaxOf(droppedThrough, s - 1)
                                     ELSE droppedThrough
<1>1. /\ frames \subseteq Sequences /\ size \in [Sequences -> Nat] /\ n \in Nat
      /\ s \in 0..MaxSequence /\ base \in 0..MaxSequence
  BY LimitsAssumption, SizesAssumption DEF TypeOK, Sequences, MaxOf
<1>2. CASE n <= MaxBytes
  <2>1. AppendFrame(s, n, base)
    BY <1>2 DEF Retain
  <2>2. PICK d \in frames \union {s, 0} :
          /\ frames' = Above(frames \union {s}, d)
          /\ size' = [k \in Sequences |->
                       IF k \in Above(frames \union {s}, d)
                         THEN [size EXCEPT ![s] = n][k] ELSE 0]
          /\ droppedThrough' = MaxOf(base, d)
    BY <2>1 DEF AppendFrame, EvictThrough
  <2>3. d \in 0..MaxSequence
    BY <1>1, <2>2, LimitsAssumption DEF Sequences
  <2>4. droppedThrough' \in 0..MaxSequence
    BY <1>1, <2>2, <2>3 DEF MaxOf
  <2>5. size' \in [Sequences -> Nat]
    BY <1>1, <2>2
  <2> QED
    BY <1>1, <2>2, <2>4, <2>5 DEF Above
<1>3. CASE ~(n <= MaxBytes)
  <2>1. droppedThrough' = MaxOf(base, s) /\ UNCHANGED <<frames, size>>
    BY <1>3 DEF Retain
  <2> QED
    BY <1>1, <2>1 DEF MaxOf
<1> QED
  BY <1>2, <1>3

-----------------------------------------------------------------------------
\* Every reachable state of the delivery model is well typed.
THEOREM TypeCorrect == Spec => []TypeOK
<1>1. Init => TypeOK
  <2> SUFFICES ASSUME Init PROVE TypeOK
    OBVIOUS
  <2>1. /\ after \in [Conns -> 0..MaxSequence] /\ gap \in [Conns -> 0..(MaxSequence + 1)]
        /\ size \in [Sequences -> Nat]
    BY LimitsAssumption DEF Init
  <2>2. /\ replay \in [Conns -> SUBSET Sequences]
        /\ queue \in [Conns -> SUBSET Sequences]
        /\ written \in [Conns -> SUBSET Sequences]
    BY DEF Init
  <2>3. closed \in BOOLEAN /\ listed \in BOOLEAN /\ detached \in BOOLEAN
        /\ persisted \in BOOLEAN
    BY DEF Init
  <2> QED
    BY <2>1, <2>2, <2>3, LimitsAssumption DEF Init, TypeOK
<1>2. TypeOK /\ [Next]_vars => TypeOK'
  <2> SUFFICES ASSUME TypeOK, [Next]_vars PROVE TypeOK'
    OBVIOUS
  <2> USE LimitsAssumption, SizesAssumption DEF ringVars, runVars, serveVars, pipeVars
  <2>0. ClientTypeOK
    BY DEF TypeOK, ClientTypeOK
  <2>1. ASSUME NEW s \in Sequences, NEW n \in Sizes, NEW t \in BOOLEAN, Publish(s, n, t)
        PROVE TypeOK'
    <3>1. ClientTypeOK'
      BY <2>0, <2>1, ClientTyped DEF Publish, WritePrimary
    <3>2. /\ frames' \subseteq Sequences /\ size' \in [Sequences -> Nat]
          /\ droppedThrough' \in 0..MaxSequence
      BY <2>1, RetainTyped DEF Publish
    <3>3. queue' \in [Conns -> SUBSET Sequences] /\ subscribers' \subseteq Conns
      BY <2>1 DEF Publish, Broadcast, TypeOK, Sequences
    <3>4. detached' \in BOOLEAN
      BY <2>1, Zenon DEF Publish, WritePrimary, TypeOK
    <3>5. latest' \in 0..MaxSequence /\ terminal' \in 0..MaxSequence
          /\ published' \subseteq Sequences
      BY <2>1 DEF Publish, TypeOK, Sequences
    <3> QED
      BY <2>1, <3>1, <3>2, <3>3, <3>4, <3>5 DEF Publish, TypeOK, ClientTypeOK
  <2>2. CASE Persist
    BY <2>2 DEF Persist, TypeOK, clientVars
  <2>3. CASE Finish
    <3>1. ClientTypeOK'
      BY <2>0, <2>3, ClientTyped DEF Finish, EndRun
    <3> QED
      BY <2>3, <3>1 DEF Finish, EndRun, TypeOK, ClientTypeOK
  <2>4. CASE Forget
    BY <2>4 DEF Forget, TypeOK, clientVars
  <2>5. ASSUME NEW c \in Conns, Resume(c) PROVE TypeOK'
    <3>1. PICK oldest \in Sequences \union {latest + 1} :
            gap' = [gap EXCEPT ![c] = IF last < droppedThrough THEN oldest ELSE 0]
      BY <2>5 DEF Resume, Attempt, Subscribe
    <3>2. oldest \in 1..(MaxSequence + 1)
      BY DEF Above, TypeOK, Sequences
    <3>3. /\ gap' \in [Conns -> 0..(MaxSequence + 1)]
          /\ \A k \in gapUnsent' : gap'[k] > 0
      <4>1. CASE last < droppedThrough
        BY <2>5, <3>1, <3>2, <4>1 DEF Resume, Attempt, Subscribe, TypeOK
      <4>2. CASE ~(last < droppedThrough)
        <5>1. c \notin gapUnsent /\ gapUnsent' = gapUnsent
          BY <2>5, <4>2 DEF Resume, Attempt, Subscribe, TypeOK
        <5> QED
          BY <3>1, <4>2, <5>1 DEF TypeOK
      <4> QED
        BY <4>1, <4>2
    <3>4. /\ after' \in [Conns -> 0..MaxSequence]
          /\ replay' \in [Conns -> SUBSET Sequences]
          /\ attempts' \in 0..MaxAttempts
      BY <2>5 DEF Resume, Attempt, Subscribe, TypeOK, Above
    <3> QED
      BY <2>5, <3>3, <3>4 DEF Resume, Attempt, Subscribe, TypeOK
  <2>6. CASE GiveUp
    BY <2>6 DEF GiveUp, ToRecover, TypeOK
  <2>7. CASE Recover
    BY <2>7 DEF Recover, TypeOK
  <2>8. CASE ConnLost \/ PrimaryLost
    <3>1. ClientTypeOK'
      BY <2>0, <2>8, ClientTyped DEF ConnLost, PrimaryLost
    <3> QED
      BY <2>8, <3>1 DEF ConnLost, PrimaryLost, TypeOK, ClientTypeOK
  <2>9. ASSUME NEW c \in Conns, WriteGap(c) PROVE TypeOK'
    <3>1. gap[c] \in 1..(MaxSequence + 1) /\ after[c] \in 0..MaxSequence
      BY <2>9 DEF WriteGap, TypeOK
    <3>2. (after[c] + 1)..(gap[c] - 1) \subseteq Sequences
      BY <3>1 DEF Sequences
    <3>3. ClientTypeOK'
      BY <2>0, <2>9, <3>1, <3>2 DEF WriteGap, ClientTypeOK, clientVars
    <3> QED
      BY <2>9, <3>3 DEF WriteGap, TypeOK, ClientTypeOK
  <2>10. ASSUME NEW c \in Conns, WriteReplay(c) PROVE TypeOK'
    <3>1. ClientTypeOK'
      BY <2>0, <2>10, ClientTyped DEF WriteReplay, Write, TypeOK
    <3> QED
      BY <2>10, <3>1 DEF WriteReplay, Write, TypeOK, ClientTypeOK
  <2>11. ASSUME NEW c \in Conns, WriteUpdate(c) PROVE TypeOK'
    <3>1. ClientTypeOK'
      BY <2>0, <2>11, ClientTyped DEF WriteUpdate, Write, TypeOK
    <3> QED
      BY <2>11, <3>1 DEF WriteUpdate, Write, TypeOK, ClientTypeOK
  <2>12. ASSUME NEW c \in Conns, ServeEnd(c) \/ ServeAbandoned(c) PROVE TypeOK'
    <3>1. ClientTypeOK'
      BY <2>0, <2>12, ClientTyped DEF ServeEnd, ServeAbandoned
    <3>2. Return(c)
      BY <2>12 DEF ServeEnd, ServeAbandoned
    <3>3. /\ after' \in [Conns -> 0..MaxSequence]
          /\ gap' \in [Conns -> 0..(MaxSequence + 1)]
          /\ replay' \in [Conns -> SUBSET Sequences]
          /\ queue' \in [Conns -> SUBSET Sequences]
          /\ written' \in [Conns -> SUBSET Sequences]
      BY <3>2 DEF Return, TypeOK
    <3>4. \A k \in gapUnsent' : gap'[k] > 0
      BY <3>2 DEF Return, TypeOK
    <3> QED
      BY <3>1, <3>2, <3>3, <3>4 DEF Return, TypeOK, ClientTypeOK
  <2>13. CASE UNCHANGED vars
    BY <2>13 DEF vars, clientVars, TypeOK
  <2> QED
    BY <2>1, <2>2, <2>3, <2>4, <2>5, <2>6, <2>7, <2>8, <2>9, <2>10, <2>11, <2>12, <2>13
    DEF Next, Serve
<1> QED
  BY <1>1, <1>2, PTL DEF Spec

-----------------------------------------------------------------------------
(* No silent skip.  The ring part and the connection part of DeliveryInv are  *)
(* preserved by publishing, subscribing and writing; everything else leaves   *)
(* them alone or empties a pipe.                                              *)

\* Publishing keeps the ring honest about what it dropped: eviction, an
\* oversize frame and a skipped number all raise droppedThrough.
LEMMA PublishRing ==
  ASSUME TypeOK, RingInv, NEW s \in Sequences, NEW n \in Sizes, NEW t \in BOOLEAN,
         Publish(s, n, t)
  PROVE  RingInv'
<1> DEFINE base == IF s > latest + 1 THEN MaxOf(droppedThrough, s - 1)
                                     ELSE droppedThrough
<1>1. /\ s \in Nat /\ s >= 1 /\ s > latest /\ latest' = s /\ published' = published \union {s}
      /\ latest \in Nat /\ droppedThrough \in Nat /\ frames \subseteq Nat
      /\ published \subseteq Nat /\ Retain(s, n)
  BY LimitsAssumption DEF Publish, TypeOK, Sequences
<1>2. base \in Nat /\ base >= droppedThrough /\ base <= s
  BY <1>1 DEF MaxOf, RingInv
<1>3. CASE n <= MaxBytes
  <2>1. AppendFrame(s, n, base)
    BY <1>1, <1>3 DEF Retain
  <2>2. PICK d \in frames \union {s, 0} :
          /\ frames' = Above(frames \union {s}, d)
          /\ droppedThrough' = MaxOf(base, d)
    BY <2>1 DEF AppendFrame, EvictThrough
  <2>3. d \in Nat /\ d <= s
    BY <1>1, <2>2 DEF RingInv
  <2>4. /\ droppedThrough' \in Nat /\ droppedThrough' >= droppedThrough
        /\ droppedThrough' >= d /\ droppedThrough' <= s
    BY <1>1, <1>2, <2>2, <2>3 DEF MaxOf
  <2>5. frames' \subseteq published'
    BY <1>1, <2>2, <2>3 DEF RingInv, Above
  <2>6. ASSUME NEW k \in published', k > droppedThrough' PROVE k \in frames'
    <3>1. k \in Nat /\ k > d /\ k > droppedThrough
      BY <1>1, <2>3, <2>4, <2>6
    <3> QED
      BY <1>1, <2>2, <2>6, <3>1 DEF RingInv, RingSuffix, Above
  <2> QED
    BY <1>1, <2>4, <2>5, <2>6 DEF RingInv, RingSuffix
<1>4. CASE ~(n <= MaxBytes)
  <2>1. droppedThrough' = MaxOf(base, s) /\ frames' = frames
    BY <1>1, <1>4 DEF Retain
  <2>2. droppedThrough' = s
    BY <1>1, <1>2, <2>1 DEF MaxOf
  <2> QED
    BY <1>1, <2>1, <2>2 DEF RingInv, RingSuffix, Sequences
<1> QED
  BY <1>3, <1>4

\* A published frame goes to every channel that stays registered, and leaves
\* the pipe of every other connection as it was.
LEMMA PublishConn ==
  ASSUME TypeOK, RingInv, subscribers \subseteq serving,
         NEW s \in Sequences, NEW n \in Sizes, NEW t \in BOOLEAN, Publish(s, n, t),
         NEW c \in Conns, ConnInv(c)
  PROVE  ConnInv(c)'
<1>1. /\ s \in Nat /\ published' = published \union {s}
      /\ \A k \in published : k \in Nat /\ k < s
      /\ after' = after /\ gap' = gap /\ replay' = replay /\ written' = written
      /\ serving' = serving /\ after[c] \in Nat
  BY LimitsAssumption DEF Publish, TypeOK, Sequences, serveVars, RingInv
<1>2. CASE c \in subscribers'
  <2>1. c \in subscribers /\ queue'[c] = queue[c] \union {s}
    BY <1>2 DEF Publish, Broadcast
  <2>2. Pipe(c)' = Pipe(c) \union {s}
    BY <1>1, <2>1 DEF Pipe
  <2>3. /\ Before(written[c], replay[c])' /\ Before(written[c], queue[c])'
        /\ Before(replay[c], queue[c])'
    BY <1>1, <2>1 DEF Before, ConnInv, Pipe
  <2> QED
    BY <1>1, <1>2, <2>1, <2>2, <2>3 DEF ConnInv
<1>3. CASE c \notin subscribers'
  <2>1. queue'[c] = queue[c]
    BY <1>3 DEF Publish, Broadcast
  <2>2. Pipe(c)' = Pipe(c)
    BY <1>1, <2>1 DEF Pipe
  <2> QED
    BY <1>1, <1>3, <2>1, <2>2 DEF ConnInv, Before
<1> QED
  BY <1>2, <1>3

\* A subscription without a gap starts with everything published after its
\* cursor, because the ring retains all that droppedThrough does not cover.
LEMMA SubscribeConn ==
  ASSUME TypeOK, DeliveryInv, NEW c \in Conns, Resume(c), NEW k \in Conns
  PROVE  ConnInv(k)'
<1>1. /\ published' = published /\ queue' = queue /\ written' = written
      /\ after' = [after EXCEPT ![c] = last]
      /\ replay' = [replay EXCEPT ![c] = Above(frames, last)]
      /\ serving' = serving \union {c} /\ c \notin serving
      /\ subscribers' \subseteq subscribers \union {c}
      /\ last \in Nat
  BY LimitsAssumption DEF Resume, Attempt, Subscribe, runVars, TypeOK
<1>2. PICK oldest \in Sequences \union {latest + 1} :
        gap' = [gap EXCEPT ![c] = IF last < droppedThrough THEN oldest ELSE 0]
  BY DEF Resume, Attempt, Subscribe
<1>3. CASE k # c
  <2>1. /\ written'[k] = written[k] /\ replay'[k] = replay[k] /\ queue'[k] = queue[k]
        /\ after'[k] = after[k] /\ gap'[k] = gap[k]
    BY <1>1, <1>2, <1>3 DEF TypeOK
  <2>2. Pipe(k)' = Pipe(k) /\ ConnInv(k)
    BY <2>1 DEF Pipe, DeliveryInv
  <2> QED
    BY <1>1, <1>3, <2>1, <2>2 DEF ConnInv
<1>4. CASE k = c
  <2>1. written[c] = {} /\ queue[c] = {}
    BY <1>1 DEF DeliveryInv, ConnInv, Pipe
  <2>2. /\ written'[c] = {} /\ queue'[c] = {} /\ replay'[c] = Above(frames, last)
        /\ after'[c] = last
        /\ gap'[c] = IF last < droppedThrough THEN oldest ELSE 0
    BY <1>1, <1>2, <2>1 DEF TypeOK
  <2>3. Pipe(c)' = Above(frames, last)
    BY <2>2 DEF Pipe
  <2>4. oldest \in Nat /\ oldest # 0
    BY DEF TypeOK, Sequences, Above
  <2>5. gap'[c] = 0 => \A s \in published : last < s => s \in Above(frames, last)
    <3> SUFFICES ASSUME gap'[c] = 0, NEW s \in published, last < s
                 PROVE  s \in Above(frames, last)
      OBVIOUS
    <3>1. droppedThrough <= last
      BY <2>2, <2>4, <1>1 DEF TypeOK
    <3>2. s \in Nat /\ s > droppedThrough
      BY <1>1, <3>1 DEF TypeOK, Sequences
    <3> QED
      BY <3>2 DEF DeliveryInv, RingInv, RingSuffix, Above
  <2>6. Above(frames, last) \subseteq published
    BY DEF Above, DeliveryInv, RingInv
  <2> QED
    BY <1>1, <1>4, <2>2, <2>3, <2>5, <2>6 DEF ConnInv, Before
<1> QED
  BY <1>3, <1>4

\* The handler writes the oldest frame that waits: the pipe keeps its content
\* and its order.
LEMMA WriteConn ==
  ASSUME TypeOK, DeliveryInv, NEW c \in Conns, WriteReplay(c) \/ WriteUpdate(c),
         NEW k \in Conns
  PROVE  ConnInv(k)'
<1>1. /\ published' = published /\ subscribers' = subscribers /\ serving' = serving
      /\ after' = after /\ gap' = gap
  BY DEF WriteReplay, WriteUpdate, Write, runVars, serveVars
<1>2. PICK s \in Sequences :
        /\ written' = [written EXCEPT ![c] = written[c] \union {s}]
        /\ \/ /\ Oldest(s, replay[c]) /\ queue' = queue
              /\ replay' = [replay EXCEPT ![c] = replay[c] \ {s}]
           \/ /\ replay[c] = {} /\ Oldest(s, queue[c]) /\ replay' = replay
              /\ queue' = [queue EXCEPT ![c] = queue[c] \ {s}]
  BY DEF WriteReplay, WriteUpdate, Write, TypeOK
<1>3. ConnInv(k)
  BY DEF DeliveryInv
<1>4. CASE k # c
  <2>1. written'[k] = written[k] /\ replay'[k] = replay[k] /\ queue'[k] = queue[k]
    BY <1>2, <1>4 DEF TypeOK
  <2> QED
    BY <1>1, <1>3, <2>1 DEF ConnInv, Pipe, Before
<1>5. CASE k = c
  <2>1. written'[c] = written[c] \union {s} /\ s \in Nat
    BY <1>2 DEF TypeOK, Sequences
  <2>2. written[c] \subseteq Nat /\ replay[c] \subseteq Nat /\ queue[c] \subseteq Nat
    <3>1. /\ written \in [Conns -> SUBSET Sequences] /\ replay \in [Conns -> SUBSET Sequences]
          /\ queue \in [Conns -> SUBSET Sequences]
      BY DEF TypeOK
    <3>2. Sequences \subseteq Nat
      BY DEF Sequences
    <3> QED
      BY <3>1, <3>2
  <2>3. CASE Oldest(s, replay[c]) /\ queue' = queue
             /\ replay' = [replay EXCEPT ![c] = replay[c] \ {s}]
    <3>1. queue'[c] = queue[c] /\ replay'[c] = replay[c] \ {s}
      BY <2>3 DEF TypeOK
    <3>2. Pipe(c)' = Pipe(c)
      BY <2>1, <2>3, <3>1 DEF Pipe, Oldest
    <3>3. /\ Before(written[c], replay[c])' /\ Before(written[c], queue[c])'
          /\ Before(replay[c], queue[c])'
      BY <1>3, <1>5, <2>1, <2>2, <2>3, <3>1 DEF ConnInv, Before, Oldest
    <3> QED
      BY <1>1, <1>3, <1>5, <3>2, <3>3 DEF ConnInv
  <2>4. CASE replay[c] = {} /\ Oldest(s, queue[c]) /\ replay' = replay
             /\ queue' = [queue EXCEPT ![c] = queue[c] \ {s}]
    <3>1. queue'[c] = queue[c] \ {s} /\ replay'[c] = replay[c]
      BY <2>4 DEF TypeOK
    <3>2. Pipe(c)' = Pipe(c)
      BY <2>1, <2>4, <3>1 DEF Pipe, Oldest
    <3>3. /\ Before(written[c], replay[c])' /\ Before(written[c], queue[c])'
          /\ Before(replay[c], queue[c])'
      BY <1>3, <1>5, <2>1, <2>2, <2>4, <3>1 DEF ConnInv, Before, Oldest
    <3> QED
      BY <1>1, <1>3, <1>5, <3>2, <3>3 DEF ConnInv
  <2> QED
    BY <1>2, <2>3, <2>4
<1> QED
  BY <1>4, <1>5

\* A handler that returns takes its subscription and its pipe with it.
LEMMA ReturnConn ==
  ASSUME TypeOK, DeliveryInv, NEW c \in Conns, Return(c), NEW k \in Conns
  PROVE  ConnInv(k)'
<1>1. /\ published' = published
      /\ subscribers' = subscribers \ {c} /\ serving' = serving \ {c}
  BY DEF Return, runVars
<1>2. ConnInv(k)
  BY DEF DeliveryInv
<1>3. CASE k # c
  <2>1. /\ written'[k] = written[k] /\ replay'[k] = replay[k] /\ queue'[k] = queue[k]
        /\ after'[k] = after[k] /\ gap'[k] = gap[k]
    BY <1>3 DEF Return, TypeOK
  <2>2. Pipe(k)' = Pipe(k)
    BY <2>1 DEF Pipe
  <2> QED
    BY <1>1, <1>2, <1>3, <2>1, <2>2 DEF ConnInv
<1>4. CASE k = c
  <2>1. written'[c] = {} /\ replay'[c] = {} /\ queue'[c] = {}
    BY DEF Return, TypeOK
  <2>2. Pipe(c)' = {}
    BY <2>1 DEF Pipe
  <2> QED
    BY <1>1, <1>4, <2>1, <2>2 DEF ConnInv, Before
<1> QED
  BY <1>3, <1>4

\* The strengthened invariant holds in every reachable state: the ring admits
\* every hole and each pipe holds the frames its connection is owed.
THEOREM DeliveryCorrect == Spec => []DeliveryInv
<1>1. Init => DeliveryInv
  BY DEF Init, DeliveryInv, RingInv, RingSuffix, ConnInv, Pipe, Before
<1>2. TypeOK /\ DeliveryInv /\ [Next]_vars => DeliveryInv'
  <2> SUFFICES ASSUME TypeOK, DeliveryInv, [Next]_vars PROVE DeliveryInv'
    OBVIOUS
  <2> USE DEF ringVars, runVars, serveVars, pipeVars
  <2>1. ASSUME NEW s \in Sequences, NEW n \in Sizes, NEW t \in BOOLEAN, Publish(s, n, t)
        PROVE  DeliveryInv'
    <3>1. RingInv'
      BY <2>1, PublishRing DEF DeliveryInv
    <3>2. \A c \in Conns : ConnInv(c)'
      BY <2>1, PublishConn DEF DeliveryInv
    <3> QED
      BY <2>1, <3>1, <3>2 DEF Publish, Broadcast, DeliveryInv
  <2>2. CASE Finish
    BY <2>2 DEF Finish, EndRun, DeliveryInv, RingInv, RingSuffix, ConnInv, Pipe, Before
  <2>3. ASSUME NEW c \in Conns, Resume(c) PROVE DeliveryInv'
    <3>1. \A k \in Conns : ConnInv(k)'
      BY <2>3, SubscribeConn
    <3> QED
      BY <2>3, <3>1 DEF Resume, Attempt, Subscribe, DeliveryInv, RingInv, RingSuffix
  <2>4. ASSUME NEW c \in Conns, WriteReplay(c) \/ WriteUpdate(c) PROVE DeliveryInv'
    <3>1. \A k \in Conns : ConnInv(k)'
      BY <2>4, WriteConn
    <3> QED
      BY <2>4, <3>1 DEF WriteReplay, WriteUpdate, Write, DeliveryInv, RingInv, RingSuffix
  <2>5. ASSUME NEW c \in Conns, ServeEnd(c) \/ ServeAbandoned(c) PROVE DeliveryInv'
    <3>1. Return(c)
      BY <2>5 DEF ServeEnd, ServeAbandoned
    <3>2. \A k \in Conns : ConnInv(k)'
      BY <3>1, ReturnConn
    <3> QED
      BY <3>1, <3>2 DEF Return, DeliveryInv, RingInv, RingSuffix
  <2>6. CASE \/ Persist \/ Forget \/ GiveUp \/ Recover \/ ConnLost \/ PrimaryLost
             \/ (\E c \in Conns : WriteGap(c)) \/ UNCHANGED vars
    <3>1. UNCHANGED <<ringVars, published, subscribers, serving, after, gap,
                      replay, queue, written>>
      BY <2>6 DEF Persist, Forget, GiveUp, ToRecover, Recover, ConnLost, PrimaryLost, WriteGap, vars
    <3> QED
      BY <3>1 DEF DeliveryInv, RingInv, RingSuffix, ConnInv, Pipe, Before
  <2> QED
    BY <2>1, <2>2, <2>3, <2>4, <2>5, <2>6 DEF Next, Serve
<1> QED
  BY <1>1, <1>2, TypeCorrect, PTL DEF Spec

\* A resumed connection that got no stream.gap event never jumps over a
\* published frame, for every ring size, queue length and eviction order.
THEOREM SuffixDelivered == Spec => []NoSilentSkip
<1>1. TypeOK /\ DeliveryInv => NoSilentSkip
  <2> SUFFICES ASSUME TypeOK, DeliveryInv, NEW c \in Conns, gap[c] = 0,
                      NEW s \in published, NEW w \in written[c],
                      after[c] < s, s < w
               PROVE  s \in written[c]
    BY DEF NoSilentSkip
  <2>1. s \in Pipe(c) /\ ConnInv(c)
    BY DEF DeliveryInv, ConnInv, Pipe
  <2>2. s \in Int /\ w \in Int
    BY DEF TypeOK, Sequences
  <2> QED
    BY <2>1, <2>2 DEF ConnInv, Before, Pipe
<1> QED
  BY <1>1, TypeCorrect, DeliveryCorrect, PTL

-----------------------------------------------------------------------------
(* The refinement of RunDelivery.                                            *)

\* Where the browser stands in the feed.  It has a result exactly when it is
\* done, it reads a connection exactly in that phase, and the notice it is about
\* to read starts at its cursor and ends before what is still to come.
ClientInv ==
  /\ result = "none" <=> phase # "done"
  /\ conn = NoConn <=> phase # "reading"
  /\ latest # 0 => latest \in published
  /\ \A c \in gapUnsent : conn = c =>
       after[c] = last /\ last < gap[c] /\ gap[c] <= latest + 1

\* A client that may still receive something takes the next frame of the feed,
\* stops, or stays where it is.
LEMMA ReceiveFeeds ==
  ASSUME TypeOK, result = "none", NEW s \in published',
         ClientReceive(s) \/ Interrupted \/ UNCHANGED clientVars
  PROVE  Feed!Take \/ Feed!Stop \/ UNCHANGED Feed!reader
<1>1. CASE UNCHANGED clientVars
  BY <1>1 DEF clientVars, Feed!reader
<1>2. CASE Interrupted
  BY <1>2 DEF Interrupted, Feed!reader, Feed!Stop
<1>3. CASE s = last + 1 /\ Dispatch(s)
  BY <1>3 DEF Dispatch, Feed!Take
<1> QED
  BY <1>1, <1>2, <1>3 DEF ClientReceive

\* A gap notice starts behind the cursor and ends where the ring begins.
LEMMA SubscribeNotice ==
  ASSUME TypeOK, RingInv, ClientInv, NEW c \in Conns, Subscribe(c), c \in gapUnsent',
         gapUnsent \subseteq serving, c \notin serving
  PROVE  after'[c] = last /\ last < gap'[c] /\ gap'[c] <= latest + 1
<1>1. PICK oldest \in Sequences \union {latest + 1} :
        /\ OldestRetained(oldest)
        /\ gap' = [gap EXCEPT ![c] = IF last < droppedThrough THEN oldest ELSE 0]
        /\ gapUnsent' = IF last < droppedThrough THEN gapUnsent \union {c} ELSE gapUnsent
        /\ after' = [after EXCEPT ![c] = last]
  BY DEF Subscribe
<1>2. last < droppedThrough /\ after'[c] = last /\ gap'[c] = oldest
  BY <1>1 DEF TypeOK
<1>3. oldest \in Above(frames, last) \union {latest + 1} /\ oldest <= latest + 1
  BY <1>1, <1>2 DEF OldestRetained, Oldest, TypeOK
<1>4. last < oldest
  BY <1>2, <1>3 DEF Above, RingInv, TypeOK
<1> QED
  BY <1>2, <1>3, <1>4

LEMMA ClientStep ==
  ASSUME TypeOK, TypeOK', DeliveryInv, ClientInv, [Next]_vars
  PROVE  ClientInv'
<1> USE ConnsAssumption DEF ClientInv
<1>0. gapUnsent \subseteq Conns
  BY DEF TypeOK
<1>1. ASSUME NEW s \in Sequences, NEW n \in Sizes, NEW t \in BOOLEAN, Publish(s, n, t)
      PROVE  ClientInv'
  <2>1. latest' \in published' /\ latest <= latest' /\ gapUnsent' = gapUnsent
        /\ after' = after /\ gap' = gap
    BY <1>1 DEF Publish, serveVars, TypeOK, Sequences
  <2>2. /\ result' = "none" <=> phase' # "done"
        /\ conn' = NoConn <=> phase' # "reading"
        /\ conn' # NoConn => conn' = conn /\ last' = last
    BY <1>1 DEF Publish, WritePrimary, ClientReceive, Dispatch, Interrupted, clientVars
  <2>3. latest \in Nat /\ latest' \in Nat /\ \A c \in Conns : gap[c] \in Nat /\ gap'[c] = gap[c]
    BY <2>1 DEF TypeOK, Sequences
  <2>4. ASSUME NEW c \in gapUnsent', conn' = c
        PROVE  after'[c] = last' /\ last' < gap'[c] /\ gap'[c] <= latest' + 1
    <3>1. c \in Conns /\ conn = c /\ last' = last /\ c \in gapUnsent
      BY <1>0, <2>1, <2>2, <2>4
    <3>2. after[c] = last /\ last < gap[c] /\ gap[c] <= latest + 1
      BY <3>1
    <3> QED
      BY <2>1, <2>3, <3>1, <3>2
  <2> QED
    BY <2>1, <2>2, <2>4
<1>2. ASSUME NEW c \in Conns, Resume(c) PROVE ClientInv'
  <2>1. /\ phase' = "reading" /\ conn' = c /\ last' = last /\ result' = result
        /\ latest' = latest /\ published' = published /\ phase = "resume"
        /\ c \notin serving /\ Subscribe(c)
    BY <1>2 DEF Resume, Attempt, ringVars, runVars
  <2>2. c \in gapUnsent' => after'[c] = last /\ last < gap'[c] /\ gap'[c] <= latest + 1
    BY <2>1, SubscribeNotice DEF DeliveryInv, TypeOK
  <2> QED
    BY <2>1, <2>2
<1>3. ASSUME NEW c \in Conns, WriteGap(c) PROVE ClientInv'
  BY <1>3 DEF WriteGap, ringVars, runVars, serveVars, clientVars
<1>4. ASSUME NEW c \in Conns, WriteReplay(c) \/ WriteUpdate(c) PROVE ClientInv'
  <2>1. PICK s : Write(c, s) /\ c \notin gapUnsent
    BY <1>4 DEF WriteReplay, WriteUpdate
  <2>2. CASE conn = c
    BY <2>1, <2>2, <1>0 DEF Write, ClientReceive, Dispatch, Interrupted, clientVars,
                            ringVars, runVars, serveVars
  <2>3. CASE conn # c
    BY <2>1, <2>3 DEF Write, clientVars, ringVars, runVars, serveVars
  <2> QED
    BY <2>2, <2>3
<1>5. ASSUME NEW c \in Conns, ServeEnd(c) \/ ServeAbandoned(c) PROVE ClientInv'
  <2>1. /\ Return(c)
        /\ \/ conn = c /\ Interrupted
           \/ conn # c /\ UNCHANGED clientVars
           \/ UNCHANGED clientVars /\ c \notin gapUnsent
    BY <1>5 DEF ServeEnd, ServeAbandoned
  <2>2. /\ gapUnsent' = gapUnsent \ {c} /\ latest' = latest /\ published' = published
        /\ \A k \in Conns \ {c} : after'[k] = after[k] /\ gap'[k] = gap[k]
    BY <2>1 DEF Return, ringVars, runVars, TypeOK
  <2> QED
    BY <2>1, <2>2, <1>0 DEF Interrupted, clientVars
<1>6. CASE \/ Persist \/ Finish \/ Forget \/ GiveUp \/ Recover \/ ConnLost \/ PrimaryLost
           \/ UNCHANGED vars
  <2>1. UNCHANGED <<latest, published, gapUnsent, after, gap, last>>
    BY <1>6 DEF Persist, Finish, EndRun, Forget, GiveUp, ToRecover, Recover, ConnLost, PrimaryLost,
                Interrupted, ringVars, runVars, serveVars, pipeVars, clientVars, vars
  <2>2. /\ result' = "none" <=> phase' # "done"
        /\ conn' = NoConn <=> phase' # "reading"
        /\ conn' # NoConn => conn' = conn
    BY <1>6 DEF Persist, Finish, EndRun, Forget, GiveUp, ToRecover, Recover, ConnLost, PrimaryLost,
                Interrupted, clientVars, vars
  <2> QED
    BY <2>1, <2>2, <1>0
<1> QED
  BY <1>1, <1>2, <1>3, <1>4, <1>5, <1>6 DEF Next, Serve

\* The browser's phase, result, connection and cursor fit each other in every
\* reachable state.
THEOREM ClientCorrect == Spec => []ClientInv
<1>1. Init => ClientInv
  BY DEF Init, ClientInv
<1> QED
  BY <1>1, ClientStep, TypeCorrect, DeliveryCorrect, PTL DEF Spec

\* Every step of a handler, of the ring or of the browser is a step of the feed
\* or leaves it alone.
LEMMA FeedStep ==
  ASSUME TypeOK, TypeOK', DeliveryInv, ClientInv, [Next]_vars
  PROVE  [Feed!Next]_(Feed!vars)
<1>1. ASSUME NEW s \in Sequences, NEW n \in Sizes, NEW t \in BOOLEAN, Publish(s, n, t)
      PROVE  Feed!Produce(s, t)
  <2>1. /\ terminal = 0 /\ published' = published \union {s}
        /\ terminal' = IF t THEN s ELSE 0
        /\ s > latest /\ WritePrimary(s)
    BY <1>1 DEF Publish
  <2>2. \A p \in published : p < s
    BY <2>1 DEF DeliveryInv, RingInv, TypeOK, Sequences
  <2>3. CASE phase = "primary" /\ ClientReceive(s)
    <3>1. Feed!Take \/ Feed!Stop \/ UNCHANGED Feed!reader
      BY <2>1, <2>3, ReceiveFeeds DEF ClientInv
    <3> QED
      BY <2>1, <2>2, <3>1 DEF Feed!Produce
  <2>4. CASE UNCHANGED clientVars
    BY <2>1, <2>2, <2>4 DEF Feed!Produce, Feed!reader, clientVars
  <2> QED
    BY <2>1, <2>3, <2>4 DEF WritePrimary
<1>2. ASSUME NEW c \in Conns, WriteGap(c), conn = c PROVE Feed!Read
  <2>1. /\ c \in gapUnsent /\ last' = gap[c] - 1
        /\ noticed' = noticed \union (after[c] + 1)..(gap[c] - 1)
        /\ UNCHANGED <<seen, result, published, terminal>>
    BY <1>2 DEF WriteGap, runVars
  <2>2. after[c] = last /\ last < gap[c] /\ gap[c] <= latest + 1 /\ result = "none"
    BY <1>2, <2>1, ConnsAssumption DEF ClientInv
  <2>3. last \in Nat /\ latest \in 0..MaxSequence /\ gap[c] \in Int /\ MaxSequence \in Int
    BY LimitsAssumption DEF TypeOK
  <2>4. gap[c] - 1 \in last..MaxSequence
    BY <2>2, <2>3
  <2>5. gap[c] - 1 = last \/ \E p \in published : gap[c] - 1 <= p
    BY <2>2, <2>3 DEF ClientInv
  <2>6. Feed!Skip(gap[c] - 1)
    BY <2>1, <2>2, <2>5 DEF Feed!Skip
  <2> QED
    BY <2>1, <2>4, <2>6 DEF Feed!Read
<1>3. ASSUME NEW c \in Conns, WriteReplay(c) \/ WriteUpdate(c)
      PROVE  Feed!Read \/ UNCHANGED Feed!vars
  <2>1. PICK s : Write(c, s) /\ s \in replay[c] \union queue[c]
    BY <1>3 DEF WriteReplay, WriteUpdate
  <2>2. s \in published' /\ UNCHANGED <<published, terminal>>
    BY <2>1 DEF Write, runVars, DeliveryInv, ConnInv, Pipe
  <2>3. CASE conn = c
    <3>1. ClientReceive(s) /\ result = "none"
      BY <2>1, <2>3, ConnsAssumption DEF Write, ClientInv
    <3>2. Feed!Take \/ Feed!Stop \/ UNCHANGED Feed!reader
      BY <2>2, <3>1, ReceiveFeeds
    <3> QED
      BY <2>2, <3>2 DEF Feed!Read, Feed!vars
  <2>4. CASE conn # c
    BY <2>1, <2>2, <2>4 DEF Write, clientVars, Feed!vars, Feed!reader
  <2> QED
    BY <2>3, <2>4
<1>4. ASSUME Interrupted, phase # "done", UNCHANGED <<published, terminal>>
      PROVE  Feed!Read \/ UNCHANGED Feed!vars
  BY <1>4 DEF Interrupted, ClientInv, Feed!Read, Feed!Stop, Feed!vars, Feed!reader
<1>5. ASSUME Recover PROVE Feed!Read
  BY <1>5 DEF Recover, runVars, ClientInv, Feed!Read, Feed!Stop
<1>6. CASE Finish \/ ConnLost \/ PrimaryLost \/ \E c \in Conns : ServeEnd(c) \/ ServeAbandoned(c)
  <2>1. UNCHANGED <<published, terminal>>
    BY <1>6 DEF Finish, EndRun, ConnLost, PrimaryLost, ServeEnd, ServeAbandoned, Return, runVars
  <2>2. (Interrupted /\ phase # "done") \/ UNCHANGED clientVars
    BY <1>6, ConnsAssumption
    DEF Finish, EndRun, ConnLost, PrimaryLost, ServeEnd, ServeAbandoned, ClientInv
  <2> QED
    BY <2>1, <2>2, <1>4 DEF clientVars, Feed!vars, Feed!reader, Feed!Next
<1>7. CASE \/ Persist \/ Forget \/ GiveUp \/ (\E c \in Conns : Resume(c))
           \/ (\E c \in Conns : WriteGap(c) /\ conn # c) \/ UNCHANGED vars
  BY <1>7 DEF Persist, Forget, GiveUp, ToRecover, Resume, Attempt, WriteGap, runVars,
              clientVars, vars, Feed!vars, Feed!reader
<1> QED
  BY <1>1, <1>2, <1>3, <1>5, <1>6, <1>7 DEF Next, Serve, Feed!Next, Sequences

\* The ring, the resume endpoint and the browser's loop implement the one
\* ordered feed, for every ring, queue, number of connections and of attempts:
\* whatever is evicted, lost or retried, the reader takes the frame after its
\* cursor, is told what it will not get, or stops.
THEOREM FeedImplemented == Spec => ImplementsFeed
<1>1. Init => Feed!Init
  BY DEF Init, Feed!Init
<1> QED
  BY <1>1, FeedStep, TypeCorrect, DeliveryCorrect, ClientCorrect, PTL
  DEF Spec, ImplementsFeed, Feed!Spec

Delivered == INSTANCE RunDelivery_proofs WITH cursor <- last, outcome <- result

LEMMA BrowserIsReader == Spec => Delivered!Spec
<1>1. Feed!Init <=> Delivered!Init
  BY DEF Feed!Init, Delivered!Init
<1>2. [Feed!Next]_(Feed!vars) <=> [Delivered!Next]_(Delivered!vars)
  BY DEF Feed!Next, Feed!Read, Feed!Take, Feed!Stop, Feed!Skip, Feed!Produce, Feed!reader, Feed!vars,
         Delivered!Next, Delivered!Read, Delivered!Take, Delivered!Stop, Delivered!Skip,
         Delivered!Produce, Delivered!reader, Delivered!vars
<1> QED
  BY <1>1, <1>2, FeedImplemented, PTL DEF ImplementsFeed, Feed!Spec, Delivered!Spec

\* What the feed promises its reader holds of the browser: up to its cursor it
\* was given each frame or told that it is lost, and a result from the terminal
\* frame means that it knows of every frame there is.
THEOREM BrowserLosesNothing == Spec => []Delivered!NothingLost
BY BrowserIsReader, Delivered!FeedIsComplete, LimitsAssumption, PTL

\* No retry, gap notice or late connection takes the browser's cursor back, and
\* what it dispatched stays dispatched.
THEOREM BrowserGoesForward == Spec => Delivered!Forward
BY BrowserIsReader, Delivered!FeedGoesForward, LimitsAssumption, PTL
=============================================================================
