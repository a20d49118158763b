------------------------- MODULE MemoryJobs_proofs -------------------------
(***************************************************************************)
(* Proofs about the memory worker's queue and what it makes of a turn, for *)
(* every number of lanes, turns and attempts.                              *)
(*                                                                         *)
(* The rows of memory_jobs and memory_outbox agree because a job is        *)
(* written before it was ever leased, and a lease is taken and given up on *)
(* both rows at once.  A turn makes one memory because its candidate       *)
(* leaves the state it is promoted from in the same step, and the row lock *)
(* keeps everybody else off while a promotion is between its check and its *)
(* insert.                                                                 *)
(***************************************************************************)
EXTENDS MemoryJobs, TLAPS

JobStatus == {"none", "pending", "processing", "completed", "dead_letter"}
JobRec  == [status: JobStatus, attempts: 0..LongAttempts, live: BOOLEAN]
OutRec  == [status: JobStatus, lease: Leases \union {NoLease},
            attempts: 0..LongAttempts, cap: 0..LongAttempts]
LaneRec == [step: {"idle", "claimed", "ask", "promote", "insert", "complete", "retry"},
            lease: Leases \union {NoLease}, terminal: BOOLEAN]

JobsTypes ==
  /\ job \in [Jobs -> JobRec] /\ outbox \in [Events -> OutRec] /\ lane \in [Lanes -> LaneRec]
  /\ draft \in [Turns -> {"none", "empty", "shadow", "recorded", "pending",
                           "accepted", "rejected", "expired"}]
  /\ memory \in [Turns -> {"none", "active", "deleted", "purged"}]
  /\ source \in [Turns -> {"current", "changed", "deleted", "reprofiled"}]
  /\ learn \in {"on", "rollback", "off"} /\ overdue \subseteq Turns
  /\ changes \in 0..MaxChanges /\ faults \in 0..MaxFaults

Extract(t) == <<"extract", t>>
Wiping(t)  == <<"expire", t>>
Purging(t) == <<"purge", t>>
TurnEvent(t)   == <<"turn", t>>
DeleteEvent(t) == <<"deleted", t>>

\* The two tables: they agree, attempts stay within the limit of the row, and
\* the clean-up job of a turn comes after its extraction and raises the limit.
RowInv ==
  /\ \A j \in Jobs : job[j].attempts <= MaxAttempts(j)
  /\ \A e \in Events : /\ outbox[e].attempts <= outbox[e].cap
                       /\ (outbox[e].lease # NoLease) <=> (outbox[e].status = "processing")
CapInv == \A t \in Turns :
  /\ job[Extract(t)].status = "none" =>
       job[Wiping(t)].status = "none" /\ outbox[TurnEvent(t)].attempts = 0
  /\ job[Wiping(t)].status # "none" => outbox[TurnEvent(t)].cap = LongAttempts
  /\ outbox[TurnEvent(t)].cap >= ExtractAttempts /\ outbox[DeleteEvent(t)].cap = LongAttempts
QueueInv == QueueAgrees /\ RowInv /\ CapInv

\* A clean-up job exists only for what it cleans up.
DraftInv ==
  /\ MemoryOfDraft
  /\ \A t \in Turns :
       /\ draft[t] = "none" => job[Wiping(t)].status = "none"
       /\ memory[t] \in {"none", "active"} <=> job[Purging(t)].status = "none"

\* A lane works on the lease it was given.  Between the check and the insert of
\* a promotion the candidate is where the check found it, and one lane's alone.
LaneInv ==
  /\ \A l \in Lanes :
       /\ ~AtStep(l, "idle") => lane[l].lease \in Leases
       /\ lane[l].step \in {"ask", "promote", "insert"} => JobOf(l)[1] = "extract"
       /\ AtStep(l, "insert") => draft[TurnOf(l)] = "shadow"
  /\ \A l, k \in Lanes : AtStep(l, "insert") /\ AtStep(k, "insert") /\ TurnOf(l) = TurnOf(k) => l = k

JobsInv == JobsTypes /\ QueueInv /\ DraftInv /\ LaneInv

-----------------------------------------------------------------------------
(* Jobs, their events and their leases.                                      *)

LEMMA JobNames ==
  /\ \A t \in Turns : /\ Extract(t) \in Jobs /\ Wiping(t) \in Jobs /\ Purging(t) \in Jobs
                      /\ TurnEvent(t) \in Events /\ DeleteEvent(t) \in Events
                      /\ EventOf(Extract(t)) = TurnEvent(t) /\ EventOf(Wiping(t)) = TurnEvent(t)
                      /\ EventOf(Purging(t)) = DeleteEvent(t)
  /\ \A j \in Jobs : /\ j[1] \in Stages /\ j[2] \in Turns /\ EventOf(j) \in Events
                     /\ j[1] = "extract" => j = Extract(j[2])
                     /\ j[1] = "expire" => j = Wiping(j[2])
                     /\ j[1] = "purge" => j = Purging(j[2])
  /\ \A e \in Events : \E t \in Turns : e = TurnEvent(t) \/ e = DeleteEvent(t)
BY DEF Extract, Wiping, Purging, TurnEvent, DeleteEvent, Jobs, Events, Stages, EventOf

LEMMA JobsApart == \A t, u \in Turns :
  /\ Extract(t) # Wiping(u) /\ Extract(t) # Purging(u) /\ Wiping(t) # Purging(u)
  /\ TurnEvent(t) # DeleteEvent(u)
  /\ t # u => /\ Extract(t) # Extract(u) /\ Wiping(t) # Wiping(u) /\ Purging(t) # Purging(u)
              /\ TurnEvent(t) # TurnEvent(u) /\ DeleteEvent(t) # DeleteEvent(u)
BY DEF Extract, Wiping, Purging, TurnEvent, DeleteEvent

LEMMA EventJobs == \A k \in Jobs, u \in Turns :
  /\ EventOf(k) = DeleteEvent(u) <=> k = Purging(u)
  /\ EventOf(k) = TurnEvent(u) <=> k \in {Extract(u), Wiping(u)}
BY DEF EventOf, Extract, Wiping, Purging, TurnEvent, DeleteEvent, Jobs, Stages

LEMMA Limits ==
  /\ ExtractAttempts \in Nat /\ LongAttempts \in Nat /\ 0 < ExtractAttempts
  /\ ExtractAttempts <= LongAttempts
  /\ \A j \in Jobs : MaxAttempts(j) \in 1..LongAttempts
  /\ \A t \in Turns : /\ MaxAttempts(Extract(t)) = ExtractAttempts
                      /\ MaxAttempts(Wiping(t)) = LongAttempts
                      /\ MaxAttempts(Purging(t)) = LongAttempts
BY AttemptsAssumption DEF MaxAttempts, Extract, Wiping, Purging

LEMMA LeaseParts ==
  /\ \A x \in Leases : x[1] \in Jobs /\ x[2] \in 1..LongAttempts
  /\ \A j \in Jobs, n \in 1..LongAttempts : <<j, n>> \in Leases
  /\ \A x \in Leases : x # NoLease
BY NoLeaseAssumption DEF Leases

LEMMA LeaseOf ==
  ASSUME NEW j \in Jobs
  PROVE  /\ job[j].status = "processing" => Lease(j) = <<j, job[j].attempts>>
         /\ job[j].status # "processing" => Lease(j) = NoLease
BY DEF Lease

-----------------------------------------------------------------------------
(* Writing a job.                                                            *)

LEMMA EnqueueRows ==
  ASSUME JobsTypes, NEW j \in Jobs, NEW cap \in 0..LongAttempts, Enqueue(j, cap)
  PROVE  /\ job' \in [Jobs -> JobRec] /\ outbox' \in [Events -> OutRec]
         /\ \A k \in Jobs \ {j} : job'[k] = job[k]
         /\ job'[j].status = "pending" /\ job'[j].attempts = job[j].attempts
         /\ \A e \in Events \ {EventOf(j)} : outbox'[e] = outbox[e]
         /\ outbox'[EventOf(j)].status = IF outbox[EventOf(j)].status = "none" THEN "pending"
                                         ELSE outbox[EventOf(j)].status
         /\ outbox'[EventOf(j)].lease = outbox[EventOf(j)].lease
         /\ outbox'[EventOf(j)].attempts = outbox[EventOf(j)].attempts
         /\ outbox'[EventOf(j)].cap = cap
<1>1. PICK e \in Events : e = EventOf(j)
  BY JobNames
<1> DEFINE st == IF outbox[e].status = "none" THEN "pending" ELSE outbox[e].status
           r  == [job[j] EXCEPT !.status = "pending"]
           o  == [outbox[e] EXCEPT !.status = st, !.cap = cap]
<1>2. job[j] \in JobRec /\ outbox[e] \in OutRec /\ job \in [Jobs -> JobRec] /\ outbox \in [Events -> OutRec]
  BY DEF JobsTypes
<1>3. job' = [job EXCEPT ![j] = r]
  BY <1>2 DEF Enqueue
<1>4. /\ DOMAIN outbox' = Events /\ outbox' = [x \in Events |-> outbox'[x]]
      /\ outbox'[e] = o /\ \A x \in Events \ {e} : outbox'[x] = outbox[x]
  BY <1>1, <1>2 DEF Enqueue
<1>5. r \in JobRec /\ r.status = "pending" /\ r.attempts = job[j].attempts
  BY <1>2 DEF JobRec, JobStatus
<1>6. st \in JobStatus
  BY <1>2 DEF OutRec, JobStatus
<1>7. o \in OutRec /\ o.status = st /\ o.lease = outbox[e].lease /\ o.attempts = outbox[e].attempts
      /\ o.cap = cap
  <2> HIDE DEF st
  <2> QED
    BY <1>2, <1>6 DEF OutRec
<1> HIDE DEF r, o
<1>8. job' \in [Jobs -> JobRec] /\ job'[j] = r /\ \A k \in Jobs \ {j} : job'[k] = job[k]
  BY <1>2, <1>3, <1>5
<1>9. outbox' \in [Events -> OutRec]
  BY <1>2, <1>4, <1>7
<1> QED
  BY <1>1, <1>4, <1>5, <1>7, <1>8, <1>9

\* A job is written once, the extraction of a turn before its clean-up.
LEMMA EnqueueKeeps ==
  ASSUME JobsTypes, QueueInv, NEW j \in Jobs, NEW t \in Turns, NEW cap \in 0..LongAttempts,
         job[j].status = "none", Enqueue(j, cap),
         \/ j = Extract(t) /\ cap = ExtractAttempts
         \/ j = Wiping(t) /\ cap = LongAttempts /\ job[Extract(t)].status # "none"
         \/ j = Purging(t) /\ cap = LongAttempts
  PROVE  QueueInv'
<1>1. PICK e \in Events : e = EventOf(j)
  BY JobNames
<1>2. /\ job' \in [Jobs -> JobRec] /\ outbox' \in [Events -> OutRec]
      /\ \A k \in Jobs \ {j} : job'[k] = job[k]
      /\ job'[j].status = "pending" /\ job'[j].attempts = job[j].attempts
      /\ \A x \in Events \ {e} : outbox'[x] = outbox[x]
      /\ outbox'[e].status = IF outbox[e].status = "none" THEN "pending" ELSE outbox[e].status
      /\ outbox'[e].lease = outbox[e].lease
      /\ outbox'[e].attempts = outbox[e].attempts
      /\ outbox'[e].cap = cap
  BY <1>1, EnqueueRows
<1>3. \A k \in Jobs : k # j => Lease(k)' = Lease(k)
  BY <1>2 DEF Lease
<1>4. \A x \in Events : /\ outbox'[x].lease = outbox[x].lease
                        /\ outbox'[x].status = "processing" <=> outbox[x].status = "processing"
                        /\ outbox'[x].attempts = outbox[x].attempts
  BY <1>2
<1>5. ASSUME NEW x \in Events, outbox'[x].status = "processing"
      PROVE  \E k \in JobsOf(x)' : Lease(k)' = outbox'[x].lease
  <2>1. PICK k \in JobsOf(x) : Lease(k) = outbox[x].lease
    BY <1>4, <1>5 DEF QueueInv, QueueAgrees
  <2>2. k \in Jobs /\ outbox[x].lease # NoLease
    BY <1>4, <1>5 DEF JobsOf, QueueInv, RowInv
  <2>3. k # j
    BY <2>1, <2>2, LeaseOf
  <2> QED
    BY <1>3, <1>4, <2>1, <2>2, <2>3 DEF JobsOf
<1>6. ASSUME NEW x \in Events, outbox'[x].status = "pending"
      PROVE  \E k \in JobsOf(x)' : job'[k].status = "pending"
  <2>1. CASE x = e
    BY <1>1, <1>2, <2>1 DEF JobsOf
  <2>2. CASE x # e
    <3>1. PICK k \in JobsOf(x) : job[k].status = "pending"
      BY <1>2, <1>6, <2>2 DEF QueueInv, QueueAgrees
    <3> QED
      BY <1>2, <3>1 DEF JobsOf
  <2> QED
    BY <2>1, <2>2
<1>7. \A u \in Turns : job'[Purging(u)].status = outbox'[DeleteEvent(u)].status
  <2> SUFFICES ASSUME NEW u \in Turns
               PROVE  job'[Purging(u)].status = outbox'[DeleteEvent(u)].status
    OBVIOUS
  <2>1. /\ job[Purging(u)].status = outbox[DeleteEvent(u)].status
        /\ Purging(u) \in Jobs /\ DeleteEvent(u) \in Events /\ EventOf(Purging(u)) = DeleteEvent(u)
    BY JobNames DEF QueueInv, QueueAgrees, Purging, DeleteEvent
  <2>2. CASE j = Purging(u)
    BY <1>1, <1>2, <2>1, <2>2
  <2>3. CASE j # Purging(u)
    <3>1. e # DeleteEvent(u)
      BY <1>1, <2>3, JobNames, JobsApart
    <3> QED
      BY <1>2, <2>1, <2>3, <3>1
  <2> QED
    BY <2>2, <2>3
<1>8. QueueAgrees'
  BY <1>5, <1>6, <1>7 DEF QueueAgrees, Purging, DeleteEvent
<1>9. CapInv'
  <2> SUFFICES ASSUME NEW u \in Turns
      PROVE  /\ job'[Extract(u)].status = "none" =>
                  job'[Wiping(u)].status = "none" /\ outbox'[TurnEvent(u)].attempts = 0
             /\ job'[Wiping(u)].status # "none" => outbox'[TurnEvent(u)].cap = LongAttempts
             /\ outbox'[TurnEvent(u)].cap >= ExtractAttempts /\ outbox'[DeleteEvent(u)].cap = LongAttempts
    BY DEF CapInv
  <2>1. /\ job[Extract(u)].status = "none" =>
             job[Wiping(u)].status = "none" /\ outbox[TurnEvent(u)].attempts = 0
        /\ job[Wiping(u)].status # "none" => outbox[TurnEvent(u)].cap = LongAttempts
        /\ outbox[TurnEvent(u)].cap >= ExtractAttempts /\ outbox[DeleteEvent(u)].cap = LongAttempts
        /\ Extract(u) \in Jobs /\ Wiping(u) \in Jobs /\ TurnEvent(u) \in Events /\ DeleteEvent(u) \in Events
    BY JobNames DEF QueueInv, CapInv
  <2>2. CASE j = Extract(t)
    BY <1>1, <1>2, <1>4, <2>1, <2>2, JobNames, JobsApart, Limits
  <2>3. CASE j = Wiping(t)
    BY <1>1, <1>2, <1>4, <2>1, <2>3, JobNames, JobsApart, Limits
  <2>4. CASE j = Purging(t)
    BY <1>1, <1>2, <1>4, <2>1, <2>4, JobNames, JobsApart, Limits
  <2> QED
    BY <2>2, <2>3, <2>4
<1>10. RowInv'
  <2>1. \A k \in Jobs : job'[k].attempts <= MaxAttempts(k)
    BY <1>2 DEF QueueInv, RowInv
  <2>2. outbox'[e].attempts <= cap
    <3>1. CASE j = Extract(t)
      BY <1>1, <1>2, <3>1, JobNames, Limits DEF QueueInv, CapInv
    <3>2. CASE cap = LongAttempts
      BY <1>2, <3>2, Limits DEF JobsTypes, OutRec
    <3> QED
      BY <3>1, <3>2
  <2>3. \A x \in Events : outbox'[x].attempts <= outbox'[x].cap
    BY <1>2, <2>2 DEF QueueInv, RowInv
  <2>4. \A x \in Events : (outbox'[x].lease # NoLease) <=> (outbox'[x].status = "processing")
    BY <1>4 DEF QueueInv, RowInv
  <2> QED
    BY <2>1, <2>3, <2>4 DEF RowInv
<1> QED
  BY <1>8, <1>9, <1>10 DEF QueueInv

-----------------------------------------------------------------------------
(* Burying spent jobs and leasing another.                                   *)

\* A function with one value replaced.
LEMMA ExceptOne ==
  ASSUME NEW S, NEW T, NEW f \in [S -> T], NEW x \in S, NEW y \in T
  PROVE  /\ [f EXCEPT ![x] = y] \in [S -> T] /\ [f EXCEPT ![x] = y][x] = y
         /\ \A z \in S \ {x} : [f EXCEPT ![x] = y][z] = f[z]
OBVIOUS

\* The lease of the event goes with the job that held it.
Buried(e) == /\ outbox[e].status = "processing"
             /\ \E j \in Jobs : Spent(j) /\ EventOf(j) = e /\ outbox[e].lease = Lease(j)

LEMMA SweptRows ==
  ASSUME JobsTypes
  PROVE  /\ SweptJobs \in [Jobs -> JobRec] /\ SweptOutbox \in [Events -> OutRec]
         /\ \A j \in Jobs : /\ SweptJobs[j].attempts = job[j].attempts
                            /\ ~Spent(j) => SweptJobs[j] = job[j]
                            /\ Spent(j) => SweptJobs[j].status = "dead_letter"
         /\ \A e \in Events : /\ SweptOutbox[e].attempts = outbox[e].attempts
                              /\ SweptOutbox[e].cap = outbox[e].cap
                              /\ ~Buried(e) => SweptOutbox[e] = outbox[e]
                              /\ Buried(e) => /\ SweptOutbox[e].status = "dead_letter"
                                              /\ SweptOutbox[e].lease = NoLease
<1>1. ASSUME NEW j \in Jobs
      PROVE  /\ SweptJobs[j] \in JobRec /\ SweptJobs[j].attempts = job[j].attempts
             /\ ~Spent(j) => SweptJobs[j] = job[j]
             /\ Spent(j) => SweptJobs[j].status = "dead_letter"
  <2>1. job[j] \in JobRec
    BY DEF JobsTypes
  <2>2. SweptJobs[j] = IF Spent(j) THEN [job[j] EXCEPT !.status = "dead_letter"] ELSE job[j]
    BY DEF SweptJobs
  <2> QED
    BY <2>1, <2>2 DEF JobRec, JobStatus
<1>2. ASSUME NEW e \in Events
      PROVE  /\ SweptOutbox[e] \in OutRec
             /\ SweptOutbox[e].attempts = outbox[e].attempts /\ SweptOutbox[e].cap = outbox[e].cap
             /\ ~Buried(e) => SweptOutbox[e] = outbox[e]
             /\ Buried(e) => SweptOutbox[e].status = "dead_letter" /\ SweptOutbox[e].lease = NoLease
  <2>1. outbox[e] \in OutRec
    BY DEF JobsTypes
  <2>2. SweptOutbox[e] = IF Buried(e)
                         THEN [outbox[e] EXCEPT !.status = "dead_letter", !.lease = NoLease]
                         ELSE outbox[e]
    BY DEF SweptOutbox, Buried
  <2> QED
    BY <2>1, <2>2 DEF OutRec, JobStatus
<1>3. /\ SweptJobs = [j \in Jobs |-> SweptJobs[j]]
      /\ SweptOutbox = [e \in Events |-> SweptOutbox[e]]
  BY DEF SweptJobs, SweptOutbox
<1>4. SweptJobs \in [Jobs -> JobRec] /\ SweptOutbox \in [Events -> OutRec]
  BY <1>1, <1>2, <1>3
<1> QED
  BY <1>1, <1>2, <1>4

\* A deleted memory's event is buried with its one job.
LEMMA SweptPurge ==
  ASSUME JobsTypes, QueueInv, NEW u \in Turns
  PROVE  SweptJobs[Purging(u)].status = SweptOutbox[DeleteEvent(u)].status
<1>1. /\ Purging(u) \in Jobs /\ DeleteEvent(u) \in Events
      /\ EventOf(Purging(u)) = DeleteEvent(u)
      /\ \A k \in Jobs : EventOf(k) = DeleteEvent(u) => k = Purging(u)
  BY JobNames, EventJobs
<1>2. job[Purging(u)].status = outbox[DeleteEvent(u)].status
  BY DEF QueueInv, QueueAgrees, Purging, DeleteEvent
<1>3. Spent(Purging(u)) <=> Buried(DeleteEvent(u))
  <2>1. ASSUME Spent(Purging(u)) PROVE Buried(DeleteEvent(u))
    <3>1. outbox[DeleteEvent(u)].status = "processing"
      BY <1>2, <2>1 DEF Spent
    <3>2. \E k \in JobsOf(DeleteEvent(u)) : Lease(k) = outbox[DeleteEvent(u)].lease
      BY <1>1, <3>1 DEF QueueInv, QueueAgrees
    <3> QED
      BY <1>1, <2>1, <3>1, <3>2 DEF JobsOf, Buried
  <2>2. ASSUME Buried(DeleteEvent(u)) PROVE Spent(Purging(u))
    BY <1>1, <2>2 DEF Buried
  <2> QED
    BY <2>1, <2>2
<1> QED
  BY <1>1, <1>2, <1>3, SweptRows

LEMMA SweptLease ==
  ASSUME JobsTypes, NEW k \in Jobs, ~Spent(k), job'[k] = SweptJobs[k]
  PROVE  Lease(k)' = Lease(k)
BY SweptRows DEF Lease

\* What the sweep does to the rows that nobody leases.
LEMMA SweptAgrees ==
  ASSUME JobsTypes, QueueInv, NEW Others \in SUBSET Events,
         \A x \in Others : outbox'[x] = SweptOutbox[x],
         \A k \in Jobs : EventOf(k) \in Others => job'[k] = SweptJobs[k]
  PROVE  \A x \in Others :
           /\ outbox'[x].status = "processing" => \E k \in JobsOf(x)' : Lease(k)' = outbox'[x].lease
           /\ outbox'[x].status = "pending" => \E k \in JobsOf(x)' : job'[k].status = "pending"
           /\ outbox'[x].attempts <= outbox'[x].cap
           /\ (outbox'[x].lease # NoLease) <=> (outbox'[x].status = "processing")
<1> SUFFICES ASSUME NEW x \in Others
    PROVE  /\ outbox'[x].status = "processing" => \E k \in JobsOf(x)' : Lease(k)' = outbox'[x].lease
           /\ outbox'[x].status = "pending" => \E k \in JobsOf(x)' : job'[k].status = "pending"
           /\ outbox'[x].attempts <= outbox'[x].cap
           /\ (outbox'[x].lease # NoLease) <=> (outbox'[x].status = "processing")
  OBVIOUS
<1>1. /\ x \in Events /\ outbox'[x] = SweptOutbox[x]
      /\ \A k \in Jobs : EventOf(k) = x => job'[k] = SweptJobs[k]
      /\ outbox[x].attempts <= outbox[x].cap
      /\ (outbox[x].lease # NoLease) <=> (outbox[x].status = "processing")
  BY DEF QueueInv, RowInv
<1>2. /\ SweptOutbox[x].attempts = outbox[x].attempts /\ SweptOutbox[x].cap = outbox[x].cap
      /\ ~Buried(x) => SweptOutbox[x] = outbox[x]
      /\ Buried(x) => SweptOutbox[x].status = "dead_letter" /\ SweptOutbox[x].lease = NoLease
      /\ \A k \in Jobs : ~Spent(k) => SweptJobs[k] = job[k]
  BY <1>1, SweptRows
<1>3. CASE Buried(x)
  BY <1>1, <1>2, <1>3
<1>4. CASE ~Buried(x)
  <2>1. ASSUME outbox[x].status = "processing"
        PROVE  \E k \in JobsOf(x)' : Lease(k)' = outbox'[x].lease
    <3>1. PICK k \in JobsOf(x) : Lease(k) = outbox[x].lease
      BY <1>1, <2>1 DEF QueueInv, QueueAgrees
    <3>2. k \in Jobs /\ EventOf(k) = x
      BY DEF JobsOf
    <3>3. ~Spent(k)
      BY <1>4, <2>1, <3>1, <3>2 DEF Buried
    <3>4. Lease(k)' = Lease(k)
      BY <1>1, <3>2, <3>3, SweptLease
    <3> QED
      BY <1>1, <1>2, <1>4, <3>1, <3>2, <3>4 DEF JobsOf
  <2>2. ASSUME outbox[x].status = "pending"
        PROVE  \E k \in JobsOf(x)' : job'[k].status = "pending"
    <3>1. PICK k \in JobsOf(x) : job[k].status = "pending"
      BY <1>1, <2>2 DEF QueueInv, QueueAgrees
    <3>2. k \in Jobs /\ EventOf(k) = x /\ ~Spent(k)
      BY <3>1 DEF JobsOf, Spent
    <3> QED
      BY <1>1, <1>2, <3>1, <3>2 DEF JobsOf
  <2> QED
    BY <1>1, <1>2, <1>4, <2>1, <2>2
<1> QED
  BY <1>3, <1>4

\* What the sweep and a claim keep of the data: no row comes or goes.
RowsStay == \A j \in Jobs : job'[j].status = "none" <=> job[j].status = "none"

LEMMA SweepKeeps ==
  ASSUME JobsTypes, QueueInv, job' = SweptJobs, outbox' = SweptOutbox
  PROVE  /\ job' \in [Jobs -> JobRec] /\ outbox' \in [Events -> OutRec]
         /\ QueueInv' /\ RowsStay
<1>1. /\ job' \in [Jobs -> JobRec] /\ outbox' \in [Events -> OutRec]
      /\ \A j \in Jobs : job'[j].attempts = job[j].attempts
      /\ \A e \in Events : outbox'[e].attempts = outbox[e].attempts /\ outbox'[e].cap = outbox[e].cap
  BY SweptRows
<1>2. RowsStay
  BY SweptRows DEF RowsStay, Spent
<1>3. \A x \in Events :
        /\ outbox'[x].status = "processing" => \E k \in JobsOf(x)' : Lease(k)' = outbox'[x].lease
        /\ outbox'[x].status = "pending" => \E k \in JobsOf(x)' : job'[k].status = "pending"
        /\ outbox'[x].attempts <= outbox'[x].cap
        /\ (outbox'[x].lease # NoLease) <=> (outbox'[x].status = "processing")
  BY SweptAgrees
<1>4. \A u \in Turns : job'[Purging(u)].status = outbox'[DeleteEvent(u)].status
  BY SweptPurge
<1>5. QueueAgrees'
  BY <1>3, <1>4 DEF QueueAgrees, Purging, DeleteEvent
<1>6. RowInv'
  BY <1>1, <1>3 DEF QueueInv, RowInv
<1>7. CapInv'
  BY <1>1, <1>2, JobNames DEF QueueInv, CapInv, RowsStay
<1> QED
  BY <1>1, <1>2, <1>5, <1>6, <1>7 DEF QueueInv

\* The n-th lease of job j, for event e.
Leased(j, e, n) ==
  /\ job' = [SweptJobs EXCEPT ![j] = [status |-> "processing", attempts |-> n, live |-> TRUE]]
  /\ outbox' = [SweptOutbox EXCEPT ![e] =
                  [@ EXCEPT !.status = "processing", !.lease = <<j, n>>, !.attempts = n]]

LEMMA ClaimKeeps ==
  ASSUME JobsTypes, QueueInv, NEW j \in Jobs, NEW e \in Events, NEW n \in Nat,
         e = EventOf(j), n = job[j].attempts + 1, Claimable(j), Leased(j, e, n)
  PROVE  /\ job' \in [Jobs -> JobRec] /\ outbox' \in [Events -> OutRec]
         /\ QueueInv' /\ RowsStay /\ <<j, n>> \in Leases
<1>1. /\ n <= MaxAttempts(j) /\ n \in 1..LongAttempts
      /\ job[j].status \in {"pending", "processing"}
  BY Limits DEF Claimable, JobsTypes, JobRec
<1>2. <<j, n>> \in Leases /\ <<j, n>> # NoLease
  BY <1>1, LeaseParts
<1> DEFINE r == [status |-> "processing", attempts |-> n, live |-> TRUE]
           o == [SweptOutbox[e] EXCEPT !.status = "processing", !.lease = <<j, n>>, !.attempts = n]
<1>3. /\ SweptJobs \in [Jobs -> JobRec] /\ SweptOutbox \in [Events -> OutRec]
      /\ SweptOutbox[e].cap = outbox[e].cap
      /\ job' = [SweptJobs EXCEPT ![j] = r] /\ outbox' = [SweptOutbox EXCEPT ![e] = o]
  BY SweptRows DEF Leased
<1>4. r \in JobRec /\ r.status = "processing" /\ r.attempts = n
  BY <1>1, Limits DEF JobRec, JobStatus
<1>5. /\ o \in OutRec /\ o.status = "processing" /\ o.lease = <<j, n>>
      /\ o.attempts = n /\ o.cap = outbox[e].cap
  <2>1. SweptOutbox[e] \in OutRec
    BY <1>3
  <2>2. <<j, n>> \in Leases \union {NoLease} /\ n \in 0..LongAttempts /\ "processing" \in JobStatus
    BY <1>1, <1>2, Limits DEF JobStatus
  <2>3. \A x \in Leases \union {NoLease} :
          LET w == [SweptOutbox[e] EXCEPT !.status = "processing", !.lease = x, !.attempts = n] IN
          /\ w \in OutRec /\ w.status = "processing" /\ w.lease = x
          /\ w.attempts = n /\ w.cap = SweptOutbox[e].cap
    BY <2>1, <2>2 DEF OutRec
  <2> QED
    BY <1>3, <2>2, <2>3
<1> HIDE DEF r, o
<1>6. /\ job' \in [Jobs -> JobRec] /\ outbox' \in [Events -> OutRec]
      /\ job'[j] = r /\ \A k \in Jobs \ {j} : job'[k] = SweptJobs[k]
      /\ outbox'[e] = o /\ \A x \in Events \ {e} : outbox'[x] = SweptOutbox[x]
  <2>1. PICK js, ob : js = SweptJobs /\ ob = SweptOutbox
    OBVIOUS
  <2>2. /\ js \in [Jobs -> JobRec] /\ job' = [js EXCEPT ![j] = r] /\ r \in JobRec
        /\ ob \in [Events -> OutRec] /\ outbox' = [ob EXCEPT ![e] = o] /\ o \in OutRec
    BY <1>3, <1>4, <1>5, <2>1
  <2>3. job' \in [Jobs -> JobRec] /\ job'[j] = r /\ \A k \in Jobs \ {j} : job'[k] = js[k]
    BY <2>2, ExceptOne
  <2>4. outbox' \in [Events -> OutRec] /\ outbox'[e] = o /\ \A x \in Events \ {e} : outbox'[x] = ob[x]
    BY <2>2, ExceptOne
  <2> QED
    BY <2>1, <2>3, <2>4
<1>7. RowsStay
  BY <1>1, <1>4, <1>6, SweptRows DEF RowsStay, Spent
<1>8. \A x \in Events \ {e} :
        /\ outbox'[x].status = "processing" => \E k \in JobsOf(x)' : Lease(k)' = outbox'[x].lease
        /\ outbox'[x].status = "pending" => \E k \in JobsOf(x)' : job'[k].status = "pending"
        /\ outbox'[x].attempts <= outbox'[x].cap
        /\ (outbox'[x].lease # NoLease) <=> (outbox'[x].status = "processing")
  BY <1>6, SweptAgrees
<1>9. j \in JobsOf(e)' /\ Lease(j)' = outbox'[e].lease
  BY <1>4, <1>5, <1>6 DEF JobsOf, Lease
<1>10. n <= outbox[e].cap
  <2>1. \E t \in Turns : j \in {Extract(t), Wiping(t), Purging(t)}
    BY JobNames DEF Stages
  <2>2. PICK t \in Turns : j \in {Extract(t), Wiping(t), Purging(t)}
    BY <2>1
  <2>3. outbox[e].cap \in Nat
    BY DEF JobsTypes, OutRec
  <2> QED
    BY <1>1, <2>2, <2>3, JobNames, Limits DEF QueueInv, CapInv
<1>11. \A u \in Turns : job'[Purging(u)].status = outbox'[DeleteEvent(u)].status
  <2> SUFFICES ASSUME NEW u \in Turns
               PROVE  job'[Purging(u)].status = outbox'[DeleteEvent(u)].status
    OBVIOUS
  <2>1. /\ Purging(u) \in Jobs /\ DeleteEvent(u) \in Events
        /\ j = Purging(u) <=> e = DeleteEvent(u)
    BY JobNames, EventJobs
  <2>2. SweptJobs[Purging(u)].status = SweptOutbox[DeleteEvent(u)].status
    BY SweptPurge
  <2> QED
    BY <1>4, <1>5, <1>6, <2>1, <2>2
<1>12. QueueAgrees'
  <2>1. ASSUME NEW x \in Events
        PROVE  /\ outbox'[x].status = "processing" => \E k \in JobsOf(x)' : Lease(k)' = outbox'[x].lease
               /\ outbox'[x].status = "pending" => \E k \in JobsOf(x)' : job'[k].status = "pending"
    <3>1. CASE x = e
      BY <1>5, <1>6, <1>9, <3>1
    <3>2. CASE x # e
      BY <1>8, <3>2
    <3> QED
      BY <3>1, <3>2
  <2> QED
    BY <1>11, <2>1 DEF QueueAgrees, Purging, DeleteEvent
<1>13. RowInv'
  <2>1. \A k \in Jobs : job'[k].attempts <= MaxAttempts(k)
    BY <1>1, <1>4, <1>6, SweptRows DEF QueueInv, RowInv
  <2>2. ASSUME NEW x \in Events
        PROVE  /\ outbox'[x].attempts <= outbox'[x].cap
               /\ (outbox'[x].lease # NoLease) <=> (outbox'[x].status = "processing")
    <3>1. CASE x = e
      BY <1>2, <1>5, <1>6, <1>10, <3>1
    <3>2. CASE x # e
      BY <1>8, <3>2
    <3> QED
      BY <3>1, <3>2
  <2> QED
    BY <2>1, <2>2 DEF RowInv
<1>14. CapInv'
  <2> SUFFICES ASSUME NEW u \in Turns
      PROVE  /\ job'[Extract(u)].status = "none" =>
                  job'[Wiping(u)].status = "none" /\ outbox'[TurnEvent(u)].attempts = 0
             /\ job'[Wiping(u)].status # "none" => outbox'[TurnEvent(u)].cap = LongAttempts
             /\ outbox'[TurnEvent(u)].cap >= ExtractAttempts /\ outbox'[DeleteEvent(u)].cap = LongAttempts
    BY DEF CapInv
  <2>1. \A x \in Events : outbox'[x].cap = outbox[x].cap
    BY <1>5, <1>6, SweptRows
  <2>2. ASSUME job'[Extract(u)].status = "none"
        PROVE  job'[Wiping(u)].status = "none" /\ outbox'[TurnEvent(u)].attempts = 0
    <3>1. job[Extract(u)].status = "none" /\ job[Wiping(u)].status = "none"
          /\ outbox[TurnEvent(u)].attempts = 0
      BY <1>7, <2>2, JobNames DEF RowsStay, QueueInv, CapInv
    <3>2. e # TurnEvent(u)
      BY <1>1, <3>1, EventJobs
    <3>3. Wiping(u) \in Jobs /\ TurnEvent(u) \in Events
      BY JobNames
    <3>4. outbox'[TurnEvent(u)].attempts = 0
      <4>1. outbox'[TurnEvent(u)] = SweptOutbox[TurnEvent(u)]
        BY <1>6, <3>2, <3>3
      <4>2. SweptOutbox[TurnEvent(u)].attempts = outbox[TurnEvent(u)].attempts
        BY <3>3, SweptRows
      <4> QED
        BY <3>1, <4>1, <4>2
    <3>5. job'[Wiping(u)].status = "none"
      BY <1>7, <3>1, <3>3 DEF RowsStay
    <3> QED
      BY <3>4, <3>5
  <2> QED
    BY <1>7, <2>1, <2>2, JobNames DEF QueueInv, CapInv, RowsStay
<1> QED
  BY <1>2, <1>6, <1>7, <1>12, <1>13, <1>14 DEF QueueInv

-----------------------------------------------------------------------------
(* Giving a lease up.                                                        *)

LEMMA SettleKeeps ==
  ASSUME JobsTypes, QueueInv, NEW l \in Lanes, lane[l].lease \in Leases,
         NEW status \in {"pending", "completed", "dead_letter"}, Settle(l, status)
  PROVE  /\ job' \in [Jobs -> JobRec] /\ outbox' \in [Events -> OutRec]
         /\ QueueInv' /\ RowsStay
<1>1. CASE UNCHANGED <<job, outbox>>
  <2>1. QueueInv'
    BY <1>1 DEF QueueInv, QueueAgrees, RowInv, CapInv, Lease, JobsOf
  <2> QED
    BY <1>1, <2>1 DEF JobsTypes, RowsStay
<1>2. CASE Holds(l)
  <2>1. PICK j \in Jobs, e \in Events : j = JobOf(l) /\ e = EventOf(j)
    BY LeaseParts, JobNames DEF JobOf
  <2>2. /\ job[j].status = "processing" /\ Lease(j) = lane[l].lease
        /\ outbox[e].status = "processing" /\ outbox[e].lease = lane[l].lease
    BY <1>2, <2>1, LeaseOf, LeaseParts DEF Holds, HoldsJob, HoldsEvent
  <2>3. job[j] \in JobRec /\ outbox[e] \in OutRec /\ job \in [Jobs -> JobRec] /\ outbox \in [Events -> OutRec]
    BY DEF JobsTypes
  <2> DEFINE r == [job[j] EXCEPT !.status = status, !.live = FALSE]
             o == [outbox[e] EXCEPT !.status = status, !.lease = NoLease]
  <2>4. /\ job' = [k \in Jobs |-> job'[k]] /\ outbox' = [x \in Events |-> outbox'[x]]
        /\ job'[j] = r /\ outbox'[e] = o
        /\ \A k \in Jobs \ {j} : job'[k] = job[k]
        /\ \A x \in Events \ {e} : outbox'[x] = outbox[x]
    BY <1>2, <2>1, <2>3 DEF Settle
  <2>5. r \in JobRec /\ r.status = status /\ r.attempts = job[j].attempts
    BY <2>3 DEF JobRec, JobStatus
  <2>6. /\ o \in OutRec /\ o.status = status /\ o.lease = NoLease
        /\ o.attempts = outbox[e].attempts /\ o.cap = outbox[e].cap
    BY <2>3 DEF OutRec, JobStatus
  <2> HIDE DEF r, o
  <2>7. job' \in [Jobs -> JobRec] /\ outbox' \in [Events -> OutRec]
    BY <2>3, <2>4, <2>5, <2>6
  <2>8. RowsStay
    BY <2>2, <2>4, <2>5 DEF RowsStay
  <2>9. \A k \in Jobs \ {j} : Lease(k)' = Lease(k)
    BY <2>4 DEF Lease
  <2>10. ASSUME NEW x \in Events
        PROVE  /\ outbox'[x].status = "processing" => \E k \in JobsOf(x)' : Lease(k)' = outbox'[x].lease
               /\ outbox'[x].status = "pending" => \E k \in JobsOf(x)' : job'[k].status = "pending"
               /\ outbox'[x].attempts <= outbox'[x].cap
               /\ (outbox'[x].lease # NoLease) <=> (outbox'[x].status = "processing")
    <3>1. CASE x = e
      <4>1. j \in JobsOf(x)' /\ job'[j].status = status /\ outbox'[x].status = status
        BY <2>1, <2>4, <2>5, <2>6, <3>1 DEF JobsOf
      <4>2. outbox'[x].attempts <= outbox'[x].cap
        BY <2>4, <2>6, <3>1 DEF QueueInv, RowInv
      <4> QED
        BY <2>4, <2>6, <3>1, <4>1, <4>2
    <3>2. CASE x # e
      <4>1. outbox'[x] = outbox[x] /\ \A k \in JobsOf(x) : k \in Jobs \ {j} /\ k \in JobsOf(x)'
        BY <2>1, <2>4, <3>2 DEF JobsOf
      <4>2. /\ outbox[x].status = "processing" => \E k \in JobsOf(x) : Lease(k) = outbox[x].lease
            /\ outbox[x].status = "pending" => \E k \in JobsOf(x) : job[k].status = "pending"
        BY DEF QueueInv, QueueAgrees
      <4>3. /\ outbox[x].attempts <= outbox[x].cap
            /\ (outbox[x].lease # NoLease) <=> (outbox[x].status = "processing")
        BY DEF QueueInv, RowInv
      <4> QED
        BY <2>4, <2>9, <4>1, <4>2, <4>3
    <3> QED
      BY <3>1, <3>2
  <2>11. \A u \in Turns : job'[Purging(u)].status = outbox'[DeleteEvent(u)].status
    <3> SUFFICES ASSUME NEW u \in Turns
                 PROVE  job'[Purging(u)].status = outbox'[DeleteEvent(u)].status
      OBVIOUS
    <3>1. /\ Purging(u) \in Jobs /\ DeleteEvent(u) \in Events
          /\ j = Purging(u) <=> e = DeleteEvent(u)
      BY <2>1, JobNames, EventJobs
    <3>2. job[Purging(u)].status = outbox[DeleteEvent(u)].status
      BY DEF QueueInv, QueueAgrees, Purging, DeleteEvent
    <3> QED
      BY <2>4, <2>5, <2>6, <3>1, <3>2
  <2>12. QueueAgrees'
    BY <2>10, <2>11 DEF QueueAgrees, Purging, DeleteEvent
  <2>13. RowInv'
    <3>1. \A k \in Jobs : job'[k].attempts <= MaxAttempts(k)
      BY <2>4, <2>5 DEF QueueInv, RowInv
    <3> QED
      BY <2>10, <3>1 DEF RowInv
  <2>14. CapInv'
    <3>1. \A x \in Events : outbox'[x].attempts = outbox[x].attempts /\ outbox'[x].cap = outbox[x].cap
      BY <2>4, <2>6
    <3> QED
      BY <2>8, <3>1, JobNames DEF QueueInv, CapInv, RowsStay
  <2> QED
    BY <2>7, <2>8, <2>12, <2>13, <2>14 DEF QueueInv
<1> QED
  BY <1>1, <1>2 DEF Settle

LEMMA ExpiresKeeps ==
  ASSUME JobsTypes, QueueInv, NEW j \in Jobs, LeaseExpires(j)
  PROVE  job' \in [Jobs -> JobRec] /\ QueueInv' /\ RowsStay
<1> DEFINE r == [job[j] EXCEPT !.live = FALSE]
<1>1. job[j] \in JobRec /\ job \in [Jobs -> JobRec] /\ outbox' = outbox
  BY DEF JobsTypes, LeaseExpires
<1>2. job' = [job EXCEPT ![j] = r]
  BY <1>1 DEF LeaseExpires
<1>3. r \in JobRec /\ r.status = job[j].status /\ r.attempts = job[j].attempts
  BY <1>1 DEF JobRec
<1> HIDE DEF r
<1>4. /\ job' \in [Jobs -> JobRec]
      /\ \A k \in Jobs : job'[k].status = job[k].status /\ job'[k].attempts = job[k].attempts
  BY <1>1, <1>2, <1>3
<1>5. \A k \in Jobs : Lease(k)' = Lease(k)
  BY <1>4 DEF Lease
<1>6. QueueAgrees'
  <2>1. \A x \in Events : JobsOf(x)' = JobsOf(x) /\ JobsOf(x) \subseteq Jobs
    BY DEF JobsOf
  <2>2. \A t \in Turns : <<"purge", t>> \in Jobs
    BY DEF Jobs, Stages
  <2> QED
    BY <1>1, <1>4, <1>5, <2>1, <2>2 DEF QueueInv, QueueAgrees
<1>7. RowInv'
  BY <1>1, <1>4 DEF QueueInv, RowInv
<1>8. CapInv'
  <2>1. \A t \in Turns : Extract(t) \in Jobs /\ Wiping(t) \in Jobs
    BY JobNames
  <2> QED
    BY <1>1, <1>4, <2>1 DEF QueueInv, CapInv
<1> QED
  BY <1>4, <1>6, <1>7, <1>8 DEF QueueInv, RowsStay

-----------------------------------------------------------------------------
(* What an action leaves alone.                                              *)

LEMMA QueueSame == QueueInv /\ UNCHANGED <<job, outbox>> => QueueInv'
BY DEF QueueInv, QueueAgrees, RowInv, CapInv, Lease, JobsOf

LEMMA DraftSame ==
  ASSUME DraftInv, RowsStay, UNCHANGED <<draft, memory>>
  PROVE  DraftInv'
BY JobNames DEF DraftInv, MemoryOfDraft, RowsStay

LEMMA RowsSame == UNCHANGED job => RowsStay
BY DEF RowsStay

\* One lane moves; what the others are promoting stays where they found it.
LEMMA LaneKeeps ==
  ASSUME LaneInv, NEW l \in Lanes, \A k \in Lanes \ {l} : lane'[k] = lane[k],
         lane'[l].step # "idle" => lane'[l].lease \in Leases,
         lane'[l].step \in {"ask", "promote", "insert"} => lane'[l].lease[1][1] = "extract",
         lane'[l].step = "insert" =>
           draft'[lane'[l].lease[1][2]] = "shadow" /\ ~Locked(lane'[l].lease[1][2]),
         \A k \in Lanes \ {l} : AtStep(k, "insert") => draft'[TurnOf(k)] = "shadow"
  PROVE  LaneInv'
<1>1. \A k \in Lanes : /\ ~AtStep(k, "idle")' => lane'[k].lease \in Leases
                       /\ lane'[k].step \in {"ask", "promote", "insert"} => JobOf(k)'[1] = "extract"
                       /\ AtStep(k, "insert")' => draft'[TurnOf(k)'] = "shadow"
  BY DEF LaneInv, AtStep, JobOf, TurnOf
<1>2. ASSUME NEW k \in Lanes, NEW m \in Lanes, AtStep(k, "insert")', AtStep(m, "insert")',
             TurnOf(k)' = TurnOf(m)', k # m
      PROVE  FALSE
  BY <1>2 DEF LaneInv, AtStep, JobOf, TurnOf, Locked
<1> QED
  BY <1>1, <1>2 DEF LaneInv

LEMMA GoOf ==
  ASSUME JobsTypes, NEW l \in Lanes,
         NEW step \in {"idle", "claimed", "ask", "promote", "insert", "complete", "retry"}, Go(l, step)
  PROVE  /\ lane' \in [Lanes -> LaneRec] /\ \A k \in Lanes \ {l} : lane'[k] = lane[k]
         /\ lane'[l].step = step /\ lane'[l].lease = lane[l].lease
<1>1. lane[l] \in LaneRec /\ lane' = [lane EXCEPT ![l] = [lane[l] EXCEPT !.step = step]]
  BY DEF JobsTypes, Go
<1>2. [lane[l] EXCEPT !.step = step] \in LaneRec
  BY <1>1 DEF LaneRec
<1> QED
  BY <1>1, <1>2 DEF JobsTypes, LaneRec

LEMMA FailOf ==
  ASSUME JobsTypes, NEW l \in Lanes, NEW terminal \in BOOLEAN, Fail(l, terminal)
  PROVE  /\ lane' \in [Lanes -> LaneRec] /\ \A k \in Lanes \ {l} : lane'[k] = lane[k]
         /\ lane'[l].step = "retry" /\ lane'[l].lease = lane[l].lease
<1> DEFINE r == [lane[l] EXCEPT !.step = "retry", !.terminal = terminal]
<1>1. lane[l] \in LaneRec /\ lane \in [Lanes -> LaneRec]
  BY DEF JobsTypes
<1>2. /\ lane' = [k \in Lanes |-> lane'[k]] /\ lane'[l] = r
      /\ \A k \in Lanes \ {l} : lane'[k] = lane[k]
  BY <1>1 DEF Fail
<1>3. r \in LaneRec /\ r.step = "retry" /\ r.lease = lane[l].lease
  BY <1>1 DEF LaneRec
<1> HIDE DEF r
<1> QED
  BY <1>1, <1>2, <1>3

LEMMA ReplyOf ==
  ASSUME JobsTypes, NEW l \in Lanes,
         NEW step \in {"promote", "complete"}, Reply(l, step)
  PROVE  /\ lane' \in [Lanes -> LaneRec] /\ \A k \in Lanes \ {l} : lane'[k] = lane[k]
         /\ lane'[l].step \in {step, "retry"} /\ lane'[l].lease = lane[l].lease
         /\ faults' \in 0..MaxFaults
<1>1. faults' \in 0..MaxFaults
  <2>1. faults \in 0..MaxFaults
    BY DEF JobsTypes
  <2>2. UNCHANGED faults \/ (faults < MaxFaults /\ faults' = faults + 1)
    BY DEF Reply
  <2> QED
    BY <2>1, <2>2, BoundsAssumption
<1> QED
  BY <1>1, GoOf, FailOf DEF Reply

LEMMA IdleOf ==
  ASSUME JobsTypes, LaneInv, NEW l \in Lanes, lane' = [lane EXCEPT ![l] = Idle], UNCHANGED draft
  PROVE  lane' \in [Lanes -> LaneRec] /\ LaneInv'
<1>1. Idle \in LaneRec /\ Idle.step = "idle"
  BY DEF Idle, LaneRec
<1>2. lane' \in [Lanes -> LaneRec] /\ lane'[l].step = "idle"
      /\ \A k \in Lanes \ {l} : lane'[k] = lane[k]
  BY <1>1 DEF JobsTypes
<1> QED
  BY <1>2, LaneKeeps DEF LaneInv

-----------------------------------------------------------------------------
(* Every action keeps the invariant.                                         *)

LEMMA CaptureStep ==
  ASSUME JobsInv, NEW t \in Turns, Capture(t) \/ DeleteMemory(t)
  PROVE  JobsInv'
<1> USE DEF JobsInv
<1>1. CASE Capture(t)
  <2>1. /\ job[Extract(t)].status = "none" /\ Enqueue(Extract(t), ExtractAttempts)
        /\ UNCHANGED <<draft, memory, world, lane, faults>>
    BY <1>1 DEF Capture, Extract
  <2>2. Extract(t) \in Jobs /\ ExtractAttempts \in 0..LongAttempts
    BY JobNames, Limits
  <2>3. /\ job' \in [Jobs -> JobRec] /\ outbox' \in [Events -> OutRec]
        /\ \A k \in Jobs \ {Extract(t)} : job'[k] = job[k]
    BY <2>1, <2>2, EnqueueRows
  <2>4. QueueInv'
    BY <2>1, <2>2, EnqueueKeeps
  <2>5. DraftInv'
    BY <2>1, <2>3, JobNames, JobsApart DEF DraftInv, MemoryOfDraft
  <2>6. JobsTypes' /\ LaneInv'
    BY <2>1, <2>3 DEF JobsTypes, LaneInv, AtStep, JobOf, TurnOf, world
  <2> QED
    BY <2>4, <2>5, <2>6
<1>2. CASE DeleteMemory(t)
  <2>1. /\ memory[t] = "active" /\ memory' = [memory EXCEPT ![t] = "deleted"]
        /\ Enqueue(Purging(t), LongAttempts) /\ UNCHANGED <<draft, world, lane, faults>>
    BY <1>2 DEF DeleteMemory, Purging
  <2>2. /\ Purging(t) \in Jobs /\ LongAttempts \in 0..LongAttempts
        /\ job[Purging(t)].status = "none"
    BY <2>1, JobNames, Limits DEF DraftInv
  <2>3. /\ job' \in [Jobs -> JobRec] /\ outbox' \in [Events -> OutRec]
        /\ \A k \in Jobs \ {Purging(t)} : job'[k] = job[k]
        /\ job'[Purging(t)].status = "pending"
    BY <2>1, <2>2, EnqueueRows
  <2>4. QueueInv'
    BY <2>1, <2>2, EnqueueKeeps
  <2>5. memory' \in [Turns -> {"none", "active", "deleted", "purged"}]
        /\ memory'[t] = "deleted" /\ \A u \in Turns \ {t} : memory'[u] = memory[u]
    BY <2>1 DEF JobsTypes
  <2>6. DraftInv'
    BY <2>1, <2>3, <2>5, JobNames, JobsApart DEF DraftInv, MemoryOfDraft
  <2>7. JobsTypes' /\ LaneInv'
    BY <2>1, <2>3, <2>5 DEF JobsTypes, LaneInv, AtStep, JobOf, TurnOf, world
  <2> QED
    BY <2>4, <2>6, <2>7
<1> QED
  BY <1>1, <1>2

LEMMA ClaimStep ==
  ASSUME JobsInv, NEW l \in Lanes, Claim(l) \/ Sweep(l)
  PROVE  JobsInv'
<1> USE DEF JobsInv
<1>1. CASE Claim(l)
  <2>1. PICK j \in Jobs, n \in Nat, e \in Events :
          /\ e = EventOf(j) /\ n = job[j].attempts + 1 /\ Claimable(j) /\ Leased(j, e, n)
          /\ lane' = [lane EXCEPT ![l] = [step |-> "claimed", lease |-> <<j, n>>, terminal |-> FALSE]]
    <3>1. \A j \in Jobs : EventOf(j) \in Events /\ job[j].attempts + 1 \in Nat
      BY JobNames DEF JobsTypes, JobRec
    <3> QED
      BY <1>1, <3>1 DEF Claim, Leased
  <2>2. /\ job' \in [Jobs -> JobRec] /\ outbox' \in [Events -> OutRec]
        /\ QueueInv' /\ RowsStay /\ <<j, n>> \in Leases
    BY <2>1, ClaimKeeps
  <2>3. UNCHANGED <<draft, memory, world, faults>>
    BY <1>1 DEF Claim
  <2>4. [step |-> "claimed", lease |-> <<j, n>>, terminal |-> FALSE] \in LaneRec
    BY <2>2 DEF LaneRec
  <2>5. /\ lane' \in [Lanes -> LaneRec] /\ \A k \in Lanes \ {l} : lane'[k] = lane[k]
        /\ lane'[l].step = "claimed" /\ lane'[l].lease \in Leases
    BY <2>1, <2>2, <2>4 DEF JobsTypes
  <2>6. LaneInv'
    BY <2>3, <2>5, LaneKeeps DEF LaneInv
  <2>7. JobsTypes'
    BY <2>2, <2>3, <2>5 DEF JobsTypes, world
  <2> QED
    BY <2>2, <2>3, <2>6, <2>7, DraftSame
<1>2. CASE Sweep(l)
  <2>1. /\ job' = SweptJobs /\ outbox' = SweptOutbox
        /\ UNCHANGED <<draft, memory, world, lane, faults>>
    BY <1>2 DEF Sweep
  <2>2. /\ job' \in [Jobs -> JobRec] /\ outbox' \in [Events -> OutRec]
        /\ QueueInv' /\ RowsStay
    BY <2>1, SweepKeeps
  <2>3. JobsTypes' /\ LaneInv'
    BY <2>1, <2>2 DEF JobsTypes, LaneInv, AtStep, JobOf, TurnOf, world
  <2> QED
    BY <2>1, <2>2, <2>3, DraftSame
<1> QED
  BY <1>1, <1>2

LEMMA SettleStep ==
  ASSUME JobsInv, NEW l \in Lanes, Complete(l) \/ Retry(l)
  PROVE  JobsInv'
<1> USE DEF JobsInv
<1>1. \E status \in {"pending", "completed", "dead_letter"} : Settle(l, status)
  BY DEF Complete, Retry
<1>2. PICK status \in {"pending", "completed", "dead_letter"} : Settle(l, status)
  BY <1>1
<1>3. lane[l].lease \in Leases
  BY DEF Complete, Retry, AtStep, LaneInv
<1>4. /\ job' \in [Jobs -> JobRec] /\ outbox' \in [Events -> OutRec]
      /\ QueueInv' /\ RowsStay
  BY <1>2, <1>3, SettleKeeps
<1>5. lane' = [lane EXCEPT ![l] = Idle] /\ UNCHANGED <<draft, memory, world, faults>>
  BY <1>2 DEF Settle
<1>6. lane' \in [Lanes -> LaneRec] /\ LaneInv'
  BY <1>5, IdleOf
<1>7. JobsTypes'
  BY <1>4, <1>5, <1>6 DEF JobsTypes, world
<1> QED
  BY <1>4, <1>5, <1>6, <1>7, DraftSame

\* The turn of the lease a lane works on.
LEMMA LaneTurn ==
  ASSUME LaneInv, NEW l \in Lanes, ~AtStep(l, "idle")
  PROVE  /\ lane[l].lease \in Leases /\ JobOf(l) \in Jobs /\ TurnOf(l) \in Turns
         /\ TurnOf(l) = lane[l].lease[1][2] /\ JobOf(l)[1] = lane[l].lease[1][1]
         /\ JobOf(l)[1] = "extract" => JobOf(l) = Extract(TurnOf(l))
         /\ JobOf(l)[1] = "purge" => JobOf(l) = Purging(TurnOf(l))
BY LeaseParts, JobNames DEF LaneInv, JobOf, TurnOf

\* A lane that holds its lease has a job that was written.
LEMMA HeldIsWritten ==
  ASSUME JobsInv, NEW l \in Lanes, ~AtStep(l, "idle"), Holds(l)
  PROVE  job[JobOf(l)].status # "none"
BY LaneTurn, LeaseOf, LeaseParts DEF Holds, HoldsJob, JobsInv

LEMMA HydrateStep ==
  ASSUME JobsInv, NEW l \in Lanes, Hydrate(l) \/ ProviderFails(l)
  PROVE  JobsInv'
<1> USE DEF JobsInv
<1>1. UNCHANGED <<store, world, faults>> /\ ~AtStep(l, "idle")
  BY DEF Hydrate, ProviderFails, AtStage, AtStep
<1>2. /\ lane' \in [Lanes -> LaneRec] /\ \A k \in Lanes \ {l} : lane'[k] = lane[k]
      /\ lane'[l].lease = lane[l].lease
      /\ \/ lane'[l].step = "retry"
         \/ lane'[l].step \in {"ask", "promote"} /\ JobOf(l)[1] = "extract"
  <2>1. \/ \E terminal \in BOOLEAN : Fail(l, terminal)
        \/ JobOf(l)[1] = "extract" /\ \E step \in {"ask", "promote"} : Go(l, step)
    BY DEF Hydrate, ProviderFails, AtStage
  <2> QED
    BY <2>1, GoOf, FailOf
<1>3. LaneInv'
  BY <1>1, <1>2, LaneTurn, LaneKeeps DEF LaneInv, store
<1>4. JobsTypes'
  BY <1>1, <1>2 DEF JobsTypes, store, world
<1>5. UNCHANGED <<job, outbox, draft, memory>>
  BY <1>1 DEF store
<1>6. QueueInv' /\ DraftInv'
  BY <1>5, QueueSame, RowsSame, DraftSame
<1> QED
  BY <1>3, <1>4, <1>6

LEMMA ProposeStep ==
  ASSUME JobsInv, NEW l \in Lanes, Propose(l)
  PROVE  JobsInv'
<1> USE DEF JobsInv
<1>1. PICK t \in Turns : t = TurnOf(l)
  BY LaneTurn DEF Propose, AtStep
<1>2. /\ AtStep(l, "ask") /\ ~AtStep(l, "idle") /\ JobOf(l) = Extract(t) /\ lane[l].lease \in Leases
      /\ JobOf(l)[1] = "extract" /\ lane[l].lease[1][1] = "extract"
      /\ t = lane[l].lease[1][2]
  BY <1>1, LaneTurn DEF Propose, AtStep, LaneInv
<1>3. CASE UNCHANGED <<store, faults>> /\ Fail(l, Verdict(l) = "drifted")
  <2>1. UNCHANGED <<job, outbox, draft, memory, world, faults>>
    BY <1>3 DEF Propose, store
  <2>2. /\ lane' \in [Lanes -> LaneRec] /\ \A k \in Lanes \ {l} : lane'[k] = lane[k]
        /\ lane'[l].step = "retry" /\ lane'[l].lease = lane[l].lease
    BY <1>3, FailOf
  <2>3. LaneInv'
    BY <1>2, <2>1, <2>2, LaneKeeps DEF LaneInv
  <2>4. JobsTypes'
    BY <2>1, <2>2 DEF JobsTypes, world
  <2> QED
    BY <2>1, <2>3, <2>4, QueueSame, RowsSame, DraftSame
<1>4. ASSUME NEW p \in Proposals, Verdict(l) = "granted", draft[t] = "none",
             draft' = [draft EXCEPT ![t] = p],
             IF p = "empty" THEN UNCHANGED <<job, outbox>> ELSE Enqueue(Wiping(t), LongAttempts),
             Reply(l, "promote"), UNCHANGED memory
      PROVE  JobsInv'
  <2>1. UNCHANGED world
    BY DEF Propose
  <2>2. /\ lane' \in [Lanes -> LaneRec] /\ \A k \in Lanes \ {l} : lane'[k] = lane[k]
        /\ lane'[l].step \in {"promote", "retry"} /\ lane'[l].lease = lane[l].lease
        /\ faults' \in 0..MaxFaults
    BY <1>4, ReplyOf
  <2>3. p \in {"empty", "rejected", "pending", "recorded", "shadow"}
    BY <1>4 DEF Proposals
  <2>4. /\ draft' \in [Turns -> {"none", "empty", "shadow", "recorded", "pending",
                                  "accepted", "rejected", "expired"}]
        /\ draft'[t] = p /\ \A u \in Turns \ {t} : draft'[u] = draft[u]
    BY <1>4, <2>3 DEF JobsTypes
  <2>5. job[Wiping(t)].status = "none" /\ memory[t] = "none"
    <3>1. memory[t] = "none"
      BY <1>4 DEF DraftInv, MemoryOfDraft
    <3> QED
      BY <1>4, <3>1 DEF DraftInv
  <2>6. job[Extract(t)].status # "none"
    <3>1. Holds(l)
      BY <1>4 DEF Verdict
    <3> QED
      BY <1>2, <3>1, HeldIsWritten
  <2>7. /\ job' \in [Jobs -> JobRec] /\ outbox' \in [Events -> OutRec] /\ QueueInv'
        /\ \A k \in Jobs \ {Wiping(t)} : job'[k] = job[k]
    <3>1. CASE p = "empty"
      BY <1>4, <3>1, QueueSame DEF JobsTypes
    <3>2. CASE p # "empty"
      <4>1. Wiping(t) \in Jobs /\ LongAttempts \in 0..LongAttempts
        BY JobNames, Limits
      <4>2. QueueInv'
        BY <1>4, <2>5, <2>6, <3>2, <4>1, EnqueueKeeps
      <4> QED
        BY <1>4, <3>2, <4>1, <4>2, EnqueueRows
    <3> QED
      BY <3>1, <3>2
  <2>8. DraftInv'
    <3>1. \A u \in Turns : (memory'[u] # "none") <=> (draft'[u] = "accepted")
      BY <1>4, <2>3, <2>4, <2>5 DEF DraftInv, MemoryOfDraft
    <3>2. \A u \in Turns : draft'[u] = "none" => job'[Wiping(u)].status = "none"
      BY <2>3, <2>4, <2>7, JobNames, JobsApart DEF DraftInv
    <3>3. \A u \in Turns : memory'[u] \in {"none", "active"} <=> job'[Purging(u)].status = "none"
      BY <1>4, <2>7, JobNames, JobsApart DEF DraftInv
    <3> QED
      BY <3>1, <3>2, <3>3 DEF DraftInv, MemoryOfDraft
  <2>9. LaneInv'
    <3>1. \A k \in Lanes \ {l} : AtStep(k, "insert") => draft'[TurnOf(k)] = "shadow"
      <4> SUFFICES ASSUME NEW k \in Lanes \ {l}, AtStep(k, "insert")
                   PROVE  draft'[TurnOf(k)] = "shadow"
        OBVIOUS
      <4>1. draft[TurnOf(k)] = "shadow" /\ TurnOf(k) \in Turns
        BY LaneTurn DEF LaneInv, AtStep
      <4> QED
        BY <1>4, <2>4, <4>1
    <3> QED
      BY <1>2, <2>2, <3>1, LaneKeeps
  <2>10. JobsTypes'
    BY <1>4, <2>1, <2>2, <2>4, <2>7 DEF JobsTypes, world
  <2> QED
    BY <2>7, <2>8, <2>9, <2>10
<1> QED
  BY <1>1, <1>3, <1>4 DEF Propose, Wiping

\* One turn's candidate changes, which no other lane is promoting.
LEMMA OthersPromote ==
  ASSUME JobsInv, NEW l \in Lanes, NEW t \in Turns, \A u \in Turns \ {t} : draft'[u] = draft[u],
         \A k \in Lanes \ {l} : AtStep(k, "insert") => TurnOf(k) # t
  PROVE  \A k \in Lanes \ {l} : AtStep(k, "insert") => draft'[TurnOf(k)] = "shadow"
<1> SUFFICES ASSUME NEW k \in Lanes \ {l}, AtStep(k, "insert")
             PROVE  draft'[TurnOf(k)] = "shadow"
  OBVIOUS
<1>1. draft[TurnOf(k)] = "shadow" /\ TurnOf(k) \in Turns
  BY LaneTurn DEF LaneInv, AtStep, JobsInv
<1> QED
  BY <1>1

LEMMA PromoteCheckStep ==
  ASSUME JobsInv, NEW l \in Lanes, PromoteCheck(l)
  PROVE  JobsInv'
<1> USE DEF JobsInv
<1>1. PICK t \in Turns : t = TurnOf(l)
  BY LaneTurn DEF PromoteCheck, AtStep
<1>2. /\ AtStep(l, "promote") /\ ~Locked(t) /\ lane[l].lease \in Leases
      /\ lane[l].lease[1][1] = "extract" /\ t = lane[l].lease[1][2]
      /\ UNCHANGED <<job, outbox, memory, world>>
  BY <1>1, LaneTurn DEF PromoteCheck, AtStep, LaneInv
<1>3. QueueInv' /\ RowsStay
  BY <1>2, QueueSame, RowsSame
<1>4. CASE UNCHANGED <<draft, faults>>
  <2>1. /\ lane' \in [Lanes -> LaneRec] /\ \A k \in Lanes \ {l} : lane'[k] = lane[k]
        /\ lane'[l].lease = lane[l].lease
        /\ \/ lane'[l].step \in {"retry", "complete"}
           \/ lane'[l].step = "insert" /\ draft[t] = "shadow"
    <3>1. \/ \E terminal \in BOOLEAN : Fail(l, terminal)
          \/ Go(l, "complete")
          \/ Go(l, "insert") /\ draft[t] = "shadow"
          \/ draft' = [draft EXCEPT ![t] = "pending"] /\ Reply(l, "complete")
      BY <1>1 DEF PromoteCheck
    <3> QED
      BY <3>1, GoOf, FailOf, ReplyOf
  <2>2. LaneInv'
    BY <1>2, <1>4, <2>1, LaneKeeps DEF LaneInv
  <2>3. JobsTypes'
    BY <1>2, <1>4, <2>1 DEF JobsTypes, world
  <2> QED
    BY <1>2, <1>3, <1>4, <2>2, <2>3, DraftSame
<1>5. CASE draft[t] = "shadow" /\ draft' = [draft EXCEPT ![t] = "pending"] /\ Reply(l, "complete")
  <2>1. /\ lane' \in [Lanes -> LaneRec] /\ \A k \in Lanes \ {l} : lane'[k] = lane[k]
        /\ lane'[l].step \in {"complete", "retry"} /\ lane'[l].lease = lane[l].lease
        /\ faults' \in 0..MaxFaults
    BY <1>5, ReplyOf
  <2>2. /\ draft' \in [Turns -> {"none", "empty", "shadow", "recorded", "pending",
                                  "accepted", "rejected", "expired"}]
        /\ draft'[t] = "pending" /\ \A u \in Turns \ {t} : draft'[u] = draft[u]
    BY <1>5 DEF JobsTypes
  <2>3. LaneInv'
    BY <1>2, <2>1, <2>2, OthersPromote, LaneKeeps DEF Locked
  <2>4. JobsTypes'
    BY <1>2, <2>1, <2>2 DEF JobsTypes, world
  <2>5. DraftInv'
    BY <1>2, <1>5, <2>2 DEF DraftInv, MemoryOfDraft
  <2> QED
    BY <1>3, <2>3, <2>4, <2>5
<1> QED
  BY <1>1, <1>4, <1>5 DEF PromoteCheck

\* A candidate is accepted: it was not decided on before, so there was no memory.
LEMMA AcceptRows ==
  ASSUME JobsInv, NEW t \in Turns, draft[t] \in {"shadow", "pending"}, Accept(t),
         UNCHANGED <<job, outbox>>
  PROVE  /\ draft' \in [Turns -> {"none", "empty", "shadow", "recorded", "pending",
                                   "accepted", "rejected", "expired"}]
         /\ memory' \in [Turns -> {"none", "active", "deleted", "purged"}]
         /\ memory[t] = "none" /\ \A u \in Turns \ {t} : draft'[u] = draft[u]
         /\ DraftInv'
<1>1. /\ draft' \in [Turns -> {"none", "empty", "shadow", "recorded", "pending",
                                "accepted", "rejected", "expired"}]
      /\ memory' \in [Turns -> {"none", "active", "deleted", "purged"}]
      /\ draft'[t] = "accepted" /\ \A u \in Turns \ {t} : draft'[u] = draft[u]
      /\ memory'[t] = "active" /\ \A u \in Turns \ {t} : memory'[u] = memory[u]
  BY DEF Accept, JobsInv, JobsTypes
<1>2. memory[t] = "none"
  BY DEF JobsInv, DraftInv, MemoryOfDraft
<1>3. DraftInv'
  BY <1>1, <1>2 DEF JobsInv, DraftInv, MemoryOfDraft
<1> QED
  BY <1>1, <1>2, <1>3

LEMMA PromoteInsertStep ==
  ASSUME JobsInv, NEW l \in Lanes, PromoteInsert(l)
  PROVE  JobsInv'
<1> USE DEF JobsInv
<1>1. PICK t \in Turns : t = TurnOf(l)
  BY LaneTurn DEF PromoteInsert, AtStep
<1>2. /\ AtStep(l, "insert") /\ lane[l].lease \in Leases /\ draft[t] = "shadow"
      /\ \A k \in Lanes \ {l} : AtStep(k, "insert") => TurnOf(k) # t
      /\ UNCHANGED <<job, outbox, world>>
  BY <1>1, LaneTurn DEF PromoteInsert, AtStep, LaneInv
<1>3. QueueInv' /\ RowsStay
  BY <1>2, QueueSame, RowsSame
<1>4. CASE Accept(t) /\ Reply(l, "complete")
  <2>1. /\ lane' \in [Lanes -> LaneRec] /\ \A k \in Lanes \ {l} : lane'[k] = lane[k]
        /\ lane'[l].step \in {"complete", "retry"} /\ lane'[l].lease = lane[l].lease
        /\ faults' \in 0..MaxFaults
    BY <1>4, ReplyOf
  <2>2. /\ draft' \in [Turns -> {"none", "empty", "shadow", "recorded", "pending",
                                  "accepted", "rejected", "expired"}]
        /\ memory' \in [Turns -> {"none", "active", "deleted", "purged"}]
        /\ \A u \in Turns \ {t} : draft'[u] = draft[u]
        /\ DraftInv'
    BY <1>2, <1>4, AcceptRows
  <2>3. LaneInv'
    BY <1>2, <2>1, <2>2, OthersPromote, LaneKeeps
  <2>4. JobsTypes'
    BY <1>2, <2>1, <2>2 DEF JobsTypes, world
  <2> QED
    BY <1>3, <2>2, <2>3, <2>4
<1>5. CASE Fail(l, FALSE) /\ UNCHANGED <<draft, memory, faults>>
  <2>1. /\ lane' \in [Lanes -> LaneRec] /\ \A k \in Lanes \ {l} : lane'[k] = lane[k]
        /\ lane'[l].step = "retry" /\ lane'[l].lease = lane[l].lease
    BY <1>5, FailOf
  <2>2. LaneInv'
    BY <1>2, <1>5, <2>1, LaneKeeps DEF LaneInv
  <2>3. JobsTypes'
    BY <1>2, <1>5, <2>1 DEF JobsTypes, world
  <2> QED
    BY <1>3, <1>5, <2>2, <2>3, DraftSame
<1> QED
  BY <1>1, <1>4, <1>5 DEF PromoteInsert

\* The clean-up of a draft and of a deleted memory.
LEMMA CleanStep ==
  ASSUME JobsInv, NEW l \in Lanes, Expire(l) \/ Purge(l)
  PROVE  JobsInv'
<1> USE DEF JobsInv
<1>1. PICK t \in Turns : t = TurnOf(l)
  BY LaneTurn DEF Expire, Purge, AtStage, AtStep
<1>2. /\ AtStep(l, "claimed") /\ lane[l].lease \in Leases
      /\ UNCHANGED <<job, outbox, world>>
  BY LaneTurn DEF Expire, Purge, AtStage, AtStep
<1>3. QueueInv' /\ RowsStay
  BY <1>2, QueueSame, RowsSame
<1>4. /\ lane' \in [Lanes -> LaneRec] /\ \A k \in Lanes \ {l} : lane'[k] = lane[k]
      /\ lane'[l].step \in {"complete", "retry"} /\ lane'[l].lease = lane[l].lease
      /\ faults' \in 0..MaxFaults
  <2>1. Reply(l, "complete") \/ (Fail(l, FALSE) /\ UNCHANGED faults)
    BY DEF Expire, Purge
  <2> QED
    BY <2>1, ReplyOf, FailOf DEF JobsTypes
<1>5. CASE UNCHANGED <<draft, memory>>
  <2>1. LaneInv'
    BY <1>2, <1>4, <1>5, LaneKeeps DEF LaneInv
  <2>2. JobsTypes'
    BY <1>2, <1>4, <1>5 DEF JobsTypes, world
  <2> QED
    BY <1>3, <1>5, <2>1, <2>2, DraftSame
<1>6. CASE /\ ~Locked(t) /\ UNCHANGED memory
           /\ draft' = [draft EXCEPT ![t] = IF @ \in Undecided THEN "expired" ELSE @]
  <2>1. /\ draft' \in [Turns -> {"none", "empty", "shadow", "recorded", "pending",
                                  "accepted", "rejected", "expired"}]
        /\ draft'[t] = IF draft[t] \in Undecided THEN "expired" ELSE draft[t]
        /\ \A u \in Turns \ {t} : draft'[u] = draft[u]
    BY <1>6 DEF JobsTypes
  <2>2. LaneInv'
    BY <1>2, <1>4, <1>6, <2>1, OthersPromote, LaneKeeps DEF Locked
  <2>3. JobsTypes'
    BY <1>2, <1>4, <1>6, <2>1 DEF JobsTypes, world
  <2>4. DraftInv'
    BY <1>2, <1>6, <2>1 DEF DraftInv, MemoryOfDraft, Undecided
  <2> QED
    BY <1>3, <2>2, <2>3, <2>4
<1>7. CASE Holds(l) /\ JobOf(l)[1] = "purge" /\ memory' = [memory EXCEPT ![t] = "purged"] /\ UNCHANGED draft
  <2>1. /\ memory' \in [Turns -> {"none", "active", "deleted", "purged"}]
        /\ memory'[t] = "purged" /\ \A u \in Turns \ {t} : memory'[u] = memory[u]
    BY <1>7 DEF JobsTypes
  <2>2. memory[t] \in {"deleted", "purged"}
    <3>1. job[Purging(t)].status # "none"
      BY <1>1, <1>2, <1>7, LaneTurn, HeldIsWritten DEF AtStep
    <3> QED
      BY <3>1 DEF DraftInv, JobsTypes
  <2>3. LaneInv'
    BY <1>2, <1>4, <1>7, LaneKeeps DEF LaneInv
  <2>4. JobsTypes'
    BY <1>2, <1>4, <1>7, <2>1 DEF JobsTypes, world
  <2>5. DraftInv'
    BY <1>2, <1>7, <2>1, <2>2 DEF DraftInv, MemoryOfDraft
  <2> QED
    BY <1>3, <2>3, <2>4, <2>5
<1> QED
  BY <1>1, <1>5, <1>6, <1>7 DEF Expire, Purge, AtStage

\* A person decides on a draft that no promotion is working on.
LEMMA DecideStep ==
  ASSUME JobsInv, NEW t \in Turns, Decide(t)
  PROVE  JobsInv'
<1> USE DEF JobsInv
<1>1. draft[t] = "pending" /\ UNCHANGED <<job, outbox, world, lane, faults>>
  BY DEF Decide
<1>2. QueueInv' /\ RowsStay
  BY <1>1, QueueSame, RowsSame
<1>3. /\ draft' \in [Turns -> {"none", "empty", "shadow", "recorded", "pending",
                                "accepted", "rejected", "expired"}]
      /\ memory' \in [Turns -> {"none", "active", "deleted", "purged"}]
      /\ \A u \in Turns \ {t} : draft'[u] = draft[u]
      /\ DraftInv'
  <2>1. CASE Accept(t)
    BY <1>1, <2>1, AcceptRows
  <2>2. CASE draft' = [draft EXCEPT ![t] = "rejected"] /\ UNCHANGED memory
    <3>1. /\ draft' \in [Turns -> {"none", "empty", "shadow", "recorded", "pending",
                                    "accepted", "rejected", "expired"}]
          /\ draft'[t] = "rejected" /\ \A u \in Turns \ {t} : draft'[u] = draft[u]
      BY <2>2 DEF JobsTypes
    <3>2. DraftInv'
      BY <1>1, <2>2, <3>1 DEF DraftInv, MemoryOfDraft
    <3> QED
      BY <2>2, <3>1, <3>2 DEF JobsTypes
  <2> QED
    BY <2>1, <2>2 DEF Decide
<1>4. \A k \in Lanes : AtStep(k, "insert") => draft'[TurnOf(k)] = "shadow"
  <2> SUFFICES ASSUME NEW k \in Lanes, AtStep(k, "insert")
               PROVE  draft'[TurnOf(k)] = "shadow"
    OBVIOUS
  <2>1. draft[TurnOf(k)] = "shadow" /\ TurnOf(k) \in Turns
    BY LaneTurn DEF LaneInv, AtStep
  <2> QED
    BY <1>1, <1>3, <2>1
<1>5. LaneInv'
  BY <1>1, <1>4 DEF LaneInv, AtStep, JobOf, TurnOf
<1>6. JobsTypes'
  BY <1>1, <1>3 DEF JobsTypes, world
<1> QED
  BY <1>2, <1>3, <1>5, <1>6

\* Time runs out, a lane stops, and the world the worker reads changes.
LEMMA WorldStep ==
  ASSUME JobsInv,
         \/ \E j \in Jobs : LeaseExpires(j)
         \/ \E l \in Lanes : Abandon(l)
         \/ \E t \in Turns : FallDue(t) \/ Drift(t)
         \/ \E v \in {"on", "rollback", "off"} : SetLearn(v)
         \/ UNCHANGED vars
  PROVE  JobsInv'
<1> USE DEF JobsInv
<1>1. ASSUME NEW j \in Jobs, LeaseExpires(j) PROVE JobsInv'
  <2>1. job' \in [Jobs -> JobRec] /\ QueueInv' /\ RowsStay
    BY <1>1, ExpiresKeeps
  <2>2. UNCHANGED <<outbox, draft, memory, world, lane, faults>>
    BY <1>1 DEF LeaseExpires
  <2>3. JobsTypes' /\ LaneInv'
    BY <2>1, <2>2 DEF JobsTypes, LaneInv, AtStep, JobOf, TurnOf, world
  <2> QED
    BY <2>1, <2>2, <2>3, DraftSame
<1>2. ASSUME NEW l \in Lanes, Abandon(l) PROVE JobsInv'
  <2>1. lane' = [lane EXCEPT ![l] = Idle] /\ UNCHANGED <<job, outbox, draft, memory, world>>
    BY <1>2 DEF Abandon, store
  <2>2. lane' \in [Lanes -> LaneRec] /\ LaneInv'
    BY <2>1, IdleOf
  <2>3. faults' \in 0..MaxFaults
    BY <1>2, BoundsAssumption DEF Abandon, JobsTypes
  <2>4. JobsTypes'
    BY <2>1, <2>2, <2>3 DEF JobsTypes, world
  <2> QED
    BY <2>1, <2>2, <2>4, QueueSame, RowsSame, DraftSame
<1>3. CASE UNCHANGED <<store, lane>> /\ JobsTypes'
  <2>1. UNCHANGED <<job, outbox, draft, memory, lane>>
    BY <1>3 DEF store
  <2>2. LaneInv'
    BY <2>1 DEF LaneInv, AtStep, JobOf, TurnOf
  <2> QED
    BY <1>3, <2>1, <2>2, QueueSame, RowsSame, DraftSame
<1>4. ASSUME NEW t \in Turns, FallDue(t) PROVE JobsInv'
  BY <1>3, <1>4 DEF FallDue, JobsTypes, store
<1>5. ASSUME NEW t \in Turns, Drift(t) PROVE JobsInv'
  <2>1. changes' \in 0..MaxChanges
    BY <1>5, BoundsAssumption DEF Drift, JobsTypes
  <2>2. source' \in [Turns -> {"current", "changed", "deleted", "reprofiled"}]
    BY <1>5 DEF Drift, JobsTypes
  <2> QED
    BY <1>3, <1>5, <2>1, <2>2 DEF Drift, JobsTypes, store
<1>6. ASSUME NEW v \in {"on", "rollback", "off"}, SetLearn(v) PROVE JobsInv'
  <2>1. changes' \in 0..MaxChanges
    BY <1>6, BoundsAssumption DEF SetLearn, JobsTypes
  <2> QED
    BY <1>3, <1>6, <2>1 DEF SetLearn, JobsTypes, store
<1>7. CASE UNCHANGED vars
  BY <1>3, <1>7 DEF vars, world, store, JobsTypes
<1> QED
  BY <1>1, <1>2, <1>4, <1>5, <1>6, <1>7

LEMMA JobsStep == JobsInv /\ [Next]_vars => JobsInv'
<1> SUFFICES ASSUME JobsInv, [Next]_vars
             PROVE  JobsInv'
  OBVIOUS
<1>1. ASSUME NEW l \in Lanes, LaneStep(l) PROVE JobsInv'
  BY <1>1, ClaimStep, HydrateStep, ProposeStep, PromoteCheckStep, PromoteInsertStep,
     CleanStep, SettleStep DEF LaneStep
<1>2. ASSUME NEW t \in Turns, Capture(t) \/ DeleteMemory(t) \/ Decide(t) PROVE JobsInv'
  BY <1>2, CaptureStep, DecideStep
<1> QED
  BY <1>1, <1>2, WorldStep DEF Next

LEMMA JobsInit == Init => JobsInv
<1> SUFFICES ASSUME Init
             PROVE  JobsInv
  OBVIOUS
<1>1. JobsTypes
  <2>1. Idle \in LaneRec
    BY DEF Idle, LaneRec
  <2>2. [status |-> "none", attempts |-> 0, live |-> FALSE] \in JobRec
    BY Limits DEF JobRec, JobStatus
  <2>3. [status |-> "none", lease |-> NoLease, attempts |-> 0, cap |-> LongAttempts] \in OutRec
    BY Limits DEF OutRec, JobStatus
  <2>4. job \in [Jobs -> JobRec] /\ outbox \in [Events -> OutRec] /\ lane \in [Lanes -> LaneRec]
    BY <2>1, <2>2, <2>3 DEF Init
  <2> QED
    BY <2>4, BoundsAssumption DEF Init, JobsTypes
<1>2. /\ \A j \in Jobs : job[j].status = "none" /\ job[j].attempts = 0
      /\ \A e \in Events : /\ outbox[e].status = "none" /\ outbox[e].lease = NoLease
                           /\ outbox[e].attempts = 0 /\ outbox[e].cap = LongAttempts
  BY DEF Init
<1>3. QueueAgrees
  <2>1. \A t \in Turns : <<"purge", t>> \in Jobs /\ <<"deleted", t>> \in Events
    BY DEF Jobs, Stages, Events
  <2> QED
    BY <1>2, <2>1 DEF QueueAgrees
<1>4. RowInv
  BY <1>2, Limits DEF RowInv
<1>5. CapInv
  BY <1>2, JobNames, Limits DEF CapInv
<1>6. DraftInv
  BY <1>2, JobNames DEF Init, DraftInv, MemoryOfDraft
<1>7. LaneInv
  BY DEF Init, LaneInv, AtStep, Idle
<1> QED
  BY <1>1, <1>3, <1>4, <1>5, <1>6, <1>7 DEF JobsInv, QueueInv

-----------------------------------------------------------------------------
(* What holds of the worker.                                                 *)

\* The inductive invariant: the rows of memory_jobs and memory_outbox, the
\* candidates and what the lanes know of them.
THEOREM JobsCorrect == Spec => []JobsInv
<1>1. Init => JobsInv
  BY JobsInit
<1>2. JobsInv /\ [Next]_vars => JobsInv'
  BY JobsStep
<1> QED
  BY <1>1, <1>2, PTL DEF Spec

\* The types and the CHECK constraints of memory_jobs and memory_outbox
\* (migration 054) hold however often a job is claimed, spent and claimed again.
THEOREM TypeCorrect == Spec => []TypeOK
<1>1. JobsInv => TypeOK
  BY DEF JobsInv, QueueInv, RowInv, JobsTypes, TypeOK, JobRec, OutRec, LaneRec, JobStatus
<1> QED
  BY <1>1, JobsCorrect, PTL

\* The functions of migration 054 that claim, bury and settle a job never leave
\* its event behind, although two jobs share the event of a turn.
THEOREM QueuesAgree == Spec => []QueueAgrees
<1>1. JobsInv => QueueAgrees
  BY DEF JobsInv, QueueInv
<1> QED
  BY <1>1, JobsCorrect, PTL

\* memory_governance_decide_review and the promotion of the worker make one
\* memory of a turn, however often its job is redone.
THEOREM OneMemory == Spec => []MemoryOfDraft
<1>1. JobsInv => MemoryOfDraft
  BY DEF JobsInv, DraftInv
<1> QED
  BY <1>1, JobsCorrect, PTL

-----------------------------------------------------------------------------
(* What a step does to the candidate of a turn and the memory made of it.    *)

\* The answer comes once, a candidate waits or is decided on once, and a memory
\* is deleted before it is wiped.
CandidateMoves(t) ==
  \/ draft[t] = "none" /\ (\E p \in Proposals : draft' = [draft EXCEPT ![t] = p]) /\ UNCHANGED memory
  \/ /\ draft[t] \in Undecided /\ UNCHANGED memory
     /\ \E d \in {"pending", "rejected", "expired"} : draft' = [draft EXCEPT ![t] = d]
  \/ draft[t] \in {"shadow", "pending"} /\ Acceptable(t) /\ Accept(t)
  \/ memory[t] = "active" /\ memory' = [memory EXCEPT ![t] = "deleted"] /\ UNCHANGED draft
  \/ memory[t] \in {"deleted", "purged"} /\ memory' = [memory EXCEPT ![t] = "purged"] /\ UNCHANGED draft

LEMMA LaneMoves ==
  ASSUME JobsInv, NEW l \in Lanes, LaneStep(l)
  PROVE  UNCHANGED <<draft, memory>> \/ \E t \in Turns : CandidateMoves(t)
<1>1. CASE Claim(l) \/ Sweep(l) \/ Hydrate(l) \/ ProviderFails(l) \/ Complete(l) \/ Retry(l)
  BY <1>1 DEF Claim, Sweep, Hydrate, ProviderFails, Complete, Retry, Settle, store
<1>2. CASE Propose(l)
  <2>1. TurnOf(l) \in Turns
    BY <1>2, LaneTurn DEF Propose, AtStep, JobsInv
  <2> QED
    BY <1>2, <2>1 DEF Propose, CandidateMoves, store
<1>3. CASE PromoteCheck(l)
  <2>1. TurnOf(l) \in Turns
    BY <1>3, LaneTurn DEF PromoteCheck, AtStep, JobsInv
  <2>2. UNCHANGED memory /\ (\/ UNCHANGED draft
                             \/ /\ draft[TurnOf(l)] = "shadow"
                                /\ draft' = [draft EXCEPT ![TurnOf(l)] = "pending"])
    BY <1>3 DEF PromoteCheck
  <2> QED
    BY <2>1, <2>2 DEF CandidateMoves, Undecided
<1>4. CASE PromoteInsert(l)
  <2>1. TurnOf(l) \in Turns /\ draft[TurnOf(l)] = "shadow"
    BY <1>4, LaneTurn DEF PromoteInsert, AtStep, JobsInv, LaneInv
  <2> QED
    BY <1>4, <2>1 DEF PromoteInsert, CandidateMoves
<1>5. CASE Expire(l)
  <2>1. TurnOf(l) \in Turns
    BY <1>5, LaneTurn DEF Expire, AtStage, AtStep, JobsInv
  <2>2. UNCHANGED memory
        /\ (\/ UNCHANGED draft
            \/ draft' = [draft EXCEPT ![TurnOf(l)] = IF @ \in Undecided THEN "expired" ELSE @])
    BY <1>5 DEF Expire
  <2>3. draft \in [Turns -> {"none", "empty", "shadow", "recorded", "pending",
                              "accepted", "rejected", "expired"}]
    BY DEF JobsInv, JobsTypes
  <2> QED
    BY <2>1, <2>2, <2>3 DEF CandidateMoves
<1>6. CASE Purge(l)
  <2>1. PICK t \in Turns : t = TurnOf(l)
    BY <1>6, LaneTurn DEF Purge, AtStage, AtStep, JobsInv
  <2>2. UNCHANGED draft /\ (\/ UNCHANGED memory
                            \/ Holds(l) /\ memory' = [memory EXCEPT ![t] = "purged"])
    BY <1>6, <2>1 DEF Purge
  <2>3. ASSUME Holds(l) PROVE memory[t] \in {"deleted", "purged"}
    <3>1. job[Purging(t)].status # "none"
      BY <1>6, <2>1, <2>3, LaneTurn, HeldIsWritten DEF Purge, AtStage, AtStep, JobsInv
    <3> QED
      BY <3>1 DEF DraftInv, JobsTypes, JobsInv
  <2> QED
    BY <2>2, <2>3 DEF CandidateMoves
<1> QED
  BY <1>1, <1>2, <1>3, <1>4, <1>5, <1>6 DEF LaneStep

LEMMA StepMoves ==
  ASSUME JobsInv, Next
  PROVE  UNCHANGED <<draft, memory>> \/ \E t \in Turns : CandidateMoves(t)
<1>1. ASSUME NEW l \in Lanes, Abandon(l) PROVE UNCHANGED <<draft, memory>>
  BY <1>1 DEF Abandon, store
<1>2. ASSUME NEW t \in Turns, DeleteMemory(t) \/ Decide(t) PROVE CandidateMoves(t)
  BY <1>2 DEF DeleteMemory, Decide, CandidateMoves, Undecided
<1>3. ASSUME NEW t \in Turns, Capture(t) \/ FallDue(t) \/ Drift(t) PROVE UNCHANGED <<draft, memory>>
  BY <1>3 DEF Capture, FallDue, Drift, store
<1>4. ASSUME NEW j \in Jobs, LeaseExpires(j) PROVE UNCHANGED <<draft, memory>>
  BY <1>4 DEF LeaseExpires
<1>5. ASSUME NEW v \in {"on", "rollback", "off"}, SetLearn(v) PROVE UNCHANGED <<draft, memory>>
  BY <1>5 DEF SetLearn, store
<1> QED
  BY <1>1, <1>2, <1>3, <1>4, <1>5, LaneMoves DEF Next

LEMMA MovesOf ==
  ASSUME JobsInv, NEW t \in Turns, CandidateMoves(t)
  PROVE  /\ \A u \in Turns \ {t} : draft'[u] = draft[u] /\ memory'[u] = memory[u]
         /\ draft[t] \in Final => draft'[t] = draft[t]
         /\ draft'[t] = "none" => draft[t] = "none"
         /\ memory[t] = "deleted" => memory'[t] \in {"deleted", "purged"}
         /\ memory[t] = "purged" => memory'[t] = "purged"
         /\ memory[t] = "none" /\ memory'[t] = "active" => Acceptable(t)
<1> USE DEF JobsInv, JobsTypes, Final
<1>1. CASE draft[t] = "none" /\ (\E p \in Proposals : draft' = [draft EXCEPT ![t] = p])
           /\ UNCHANGED memory
  BY <1>1 DEF Proposals
<1>2. CASE /\ draft[t] \in Undecided /\ UNCHANGED memory
           /\ \E d \in {"pending", "rejected", "expired"} : draft' = [draft EXCEPT ![t] = d]
  BY <1>2 DEF Undecided
<1>3. CASE draft[t] \in {"shadow", "pending"} /\ Acceptable(t) /\ Accept(t)
  <2>1. memory[t] = "none"
    BY <1>3 DEF DraftInv, MemoryOfDraft
  <2> QED
    BY <1>3, <2>1 DEF Accept
<1>4. CASE memory[t] = "active" /\ memory' = [memory EXCEPT ![t] = "deleted"] /\ UNCHANGED draft
  BY <1>4
<1>5. CASE memory[t] \in {"deleted", "purged"} /\ memory' = [memory EXCEPT ![t] = "purged"]
           /\ UNCHANGED draft
  BY <1>5
<1> QED
  BY <1>1, <1>2, <1>3, <1>4, <1>5 DEF CandidateMoves

\* What a redone job, a late reply, the clean-up or a person finds decided stays
\* decided (migrations 056, 069, 072), and a deleted memory never comes back.
THEOREM DecisionsStand == Spec => DecidedIsFinal
<1> DEFINE Stands(t) ==
       /\ draft[t] \in Final => draft'[t] = draft[t]
       /\ draft'[t] = "none" => draft[t] = "none"
       /\ memory[t] = "deleted" => memory'[t] \in {"deleted", "purged"}
       /\ memory[t] = "purged" => memory'[t] = "purged"
<1>1. ASSUME JobsInv, [Next]_vars
      PROVE  [\A t \in Turns : Stands(t)]_vars
  <2>1. CASE UNCHANGED vars
    BY <2>1
  <2>2. CASE UNCHANGED <<draft, memory>>
    BY <2>2
  <2>3. ASSUME NEW t \in Turns, CandidateMoves(t) PROVE \A u \in Turns : Stands(u)
    BY <1>1, <2>3, MovesOf
  <2> QED
    BY <1>1, <2>1, <2>2, <2>3, StepMoves
<1> QED
  BY <1>1, JobsCorrect, PTL DEF Spec, DecidedIsFinal

\* memory_governance_decide_review looks the message up in the transaction that
\* makes the memory: nothing is remembered of a message that is gone.
THEOREM NothingOfDeleted == Spec => SourceExists
<1> DEFINE Exists(t) == memory[t] = "none" /\ memory'[t] = "active" => source[t] # "deleted"
<1>1. ASSUME JobsInv, [Next]_vars
      PROVE  [\A t \in Turns : Exists(t)]_vars
  <2>1. CASE UNCHANGED vars
    BY <2>1
  <2>2. CASE UNCHANGED <<draft, memory>>
    BY <2>2
  <2>3. ASSUME NEW t \in Turns, CandidateMoves(t) PROVE \A u \in Turns : Exists(u)
    BY <1>1, <2>3, MovesOf DEF Acceptable
  <2> QED
    BY <1>1, <2>1, <2>2, <2>3, StepMoves
<1> QED
  BY <1>1, JobsCorrect, PTL DEF Spec, SourceExists
=============================================================================
