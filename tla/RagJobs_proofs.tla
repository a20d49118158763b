--------------------------- MODULE RagJobs_proofs ---------------------------
(***************************************************************************)
(* Proofs about the knowledge document, its jobs and the index generations *)
(* it is served from, for any number of workers, versions, generations,    *)
(* attempts and faults.  They are about RebuildSpec, whose steps are those *)
(* of RagJobs and the operator's.                                          *)
(***************************************************************************)
EXTENDS RagGenerations, FiniteSetTheorems, SequenceTheorems, TLAPS

-----------------------------------------------------------------------------
(* Types.  What a row refers to exists.                                      *)

VersionStatus == {"uploaded", "active", "failed", "tombstoned"}
JobRec == [stage : {"parse", "embedding", "purge"}, version : 1..MaxVersions, gen : Nat, mat : Nat,
           replay : BOOLEAN, status : Live \union {"succeeded", "failed", "cancelled"},
           attempts : 0..MaxAttempts, lease : BOOLEAN]
MatRec == [version : 1..MaxVersions, gen : Nat, status : {"staging", "published"},
           rows : [Chunks -> {"none", "staging", "ready", "purged"}]]
GenRec == [status : {"building", "verified", "active", "retired", "failed"}, source : Nat, head : Nat]

RagTypes ==
  /\ doc \in {"none", "processing", "active", "tombstoned"} /\ current \in Nat
  /\ versions \in Seq(VersionStatus) /\ Len(versions) <= MaxVersions
  /\ generations \in Seq(GenRec) /\ mats \in Seq(MatRec) /\ jobs \in Seq(JobRec)
  /\ worker \in [Workers -> Claims \union {Idle}]
  /\ up \subseteq Workers /\ lock \in Workers \union {None} /\ faults \in 0..MaxFaults

RagRefs ==
  /\ current <= Len(versions)
  /\ \A g \in 1..Len(generations) : generations[g].head <= Len(mats)
  /\ \A m \in 1..Len(mats) : mats[m].gen \in 1..Len(generations) /\ mats[m].version \in 1..Len(versions)
  /\ \A j \in 1..Len(jobs) :
       /\ jobs[j].gen <= Len(generations) /\ jobs[j].mat <= Len(mats)
       /\ jobs[j].version \in 1..Len(versions)
       /\ jobs[j].lease => jobs[j].status = "processing"
  /\ \A w \in Workers : worker[w] # Idle => w \in up /\ worker[w].job \in 1..Len(jobs)
  /\ lock \in up \union {None}

\* One generation is active, and one at most is a candidate.
OneActive == \E g \in 1..Len(generations) :
  \A h \in 1..Len(generations) : generations[h].status = "active" <=> h = g
OneCandidate == \A g, h \in Candidates : g = h

\* The row of the document and those of its versions.
DocInv ==
  /\ doc = "none" => Len(versions) = 0 /\ Len(jobs) = 0 /\ Len(mats) = 0
  /\ doc = "active" => current # 0
  /\ doc \in {"none", "processing"} => current = 0
  /\ \A v \in 1..Len(versions) : versions[v] = "active" <=> doc = "active" /\ v = current
  /\ doc = "tombstoned" => \A v \in 1..Len(versions) : versions[v] = "tombstoned"

\* A purge follows the deletion; any other job that has a generation is about a
\* materialization of its version in it.
JobInv == \A j \in 1..Len(jobs) :
  /\ jobs[j].stage = "purge" => doc = "tombstoned"
  /\ jobs[j].stage # "purge" /\ Bound(jobs[j]) =>
       /\ jobs[j].mat \in 1..Len(mats)
       /\ mats[jobs[j].mat].version = jobs[j].version /\ mats[jobs[j].mat].gen = jobs[j].gen

\* What is published is whole until the deletion.  A candidate is built for a
\* version that has been active.
MatInv == \A m \in 1..Len(mats) :
  /\ mats[m].status = "published" /\ doc # "tombstoned" => \A c \in Chunks : mats[m].rows[c] = "ready"
  /\ generations[mats[m].gen].status \in {"building", "verified", "failed"} =>
       versions[mats[m].version] \in {"active", "tombstoned"}

\* A head is a published materialization of its generation.
HeadInv == \A g \in 1..Len(generations) : generations[g].head # 0 =>
  mats[generations[g].head].gen = g /\ mats[generations[g].head].status = "published"

\* No row that a job covers takes a vector.
NotOpen(job) == \A m \in Covered(job), c \in Chunks : ~Open(mats[m].rows[c])

\* What a worker knows of the job it claimed: it has a generation; a parse that is
\* past its source lost its job to the deletion; a purge covers no open row.
ClaimInv == \A w \in Workers : worker[w] # Idle =>
  /\ Bound(Mine(w))
  /\ At(w, "parse", "parsed") /\ doc = "tombstoned" => Mine(w).status \notin Live
  /\ At(w, "purge", "purged") => NotOpen(Mine(w))
PurgeInv == \A j \in 1..Len(jobs) :
  jobs[j].stage = "purge" /\ jobs[j].status = "succeeded" => NotOpen(jobs[j])

RowsInv == RagTypes /\ RagRefs /\ OneActive /\ OneCandidate

-----------------------------------------------------------------------------
(* Sequences and the rows in them.                                           *)

\* One element of a sequence is replaced.
LEMMA SeqExcept ==
  ASSUME NEW S, NEW s \in Seq(S), NEW i \in 1..Len(s), NEW e \in S
  PROVE  LET t == [s EXCEPT ![i] = e]
         IN  /\ t \in Seq(S) /\ Len(t) = Len(s) /\ t[i] = e
             /\ \A j \in 1..Len(s) : j # i => t[j] = s[j]
BY ExceptSeq

\* A function on an initial segment of the numbers is a sequence.
LEMMA SeqOfFunction ==
  ASSUME NEW S, NEW n \in Nat, NEW f \in [1..n -> S]
  PROVE  f \in Seq(S) /\ Len(f) = n
<1>1. f \in Seq(S)
  BY SeqDef
<1>2. DOMAIN f = 1..Len(f) /\ DOMAIN f = 1..n /\ Len(f) \in Nat
  BY <1>1, LenProperties
<1> QED
  BY <1>1, <1>2

LEMMA Domains ==
  ASSUME RagTypes
  PROVE  /\ DOMAIN versions = 1..Len(versions) /\ Len(versions) \in Nat
         /\ DOMAIN generations = 1..Len(generations) /\ Len(generations) \in Nat
         /\ DOMAIN mats = 1..Len(mats) /\ Len(mats) \in Nat
         /\ DOMAIN jobs = 1..Len(jobs) /\ Len(jobs) \in Nat
         /\ \A v \in 1..Len(versions) : versions[v] \in VersionStatus
         /\ \A g \in 1..Len(generations) : generations[g] \in GenRec
         /\ \A m \in 1..Len(mats) : mats[m] \in MatRec
         /\ \A j \in 1..Len(jobs) : jobs[j] \in JobRec
BY LenProperties DEF RagTypes

LEMMA JobTyped ==
  ASSUME NEW stage \in {"parse", "embedding", "purge"}, NEW v \in 1..MaxVersions,
         NEW g \in Nat, NEW m \in Nat, NEW replay \in BOOLEAN
  PROVE  /\ Job(stage, v, g, m, replay) \in JobRec
         /\ Job(stage, v, g, m, replay).stage = stage /\ Job(stage, v, g, m, replay).version = v
         /\ Job(stage, v, g, m, replay).gen = g /\ Job(stage, v, g, m, replay).mat = m
         /\ Job(stage, v, g, m, replay).replay = replay
         /\ Job(stage, v, g, m, replay).status = "pending" /\ ~Job(stage, v, g, m, replay).lease
<1>1. 0 \in 0..MaxAttempts
  BY BoundsAssumption
<1> QED
  BY <1>1 DEF Job, JobRec, Live

LEMMA EndedTyped ==
  ASSUME NEW job \in JobRec, NEW status \in {"succeeded", "failed", "cancelled"}
  PROVE  LET ended == Ended(job, status)
         IN  /\ ended \in JobRec /\ ended.stage = job.stage /\ ended.version = job.version
             /\ ended.gen = job.gen /\ ended.mat = job.mat /\ ended.replay = job.replay
             /\ ended.status = status /\ ~ended.lease
<1>1. 0 \in 0..MaxAttempts
  BY BoundsAssumption
<1> QED
  BY <1>1 DEF Ended, JobRec, Live

LEMMA MatTyped ==
  ASSUME NEW v \in 1..MaxVersions, NEW g \in Nat
  PROVE  LET m == Materialization(v, g)
         IN  m \in MatRec /\ m.version = v /\ m.gen = g /\ m.status = "staging"
BY DEF Materialization, MatRec

\* The active generation is the one whose status says so.
LEMMA ActiveIs ==
  ASSUME RagTypes, OneActive
  PROVE  /\ Active \in 1..Len(generations) /\ generations[Active].status = "active"
         /\ \A g \in 1..Len(generations) : generations[g].status = "active" => g = Active
<1>1. PICK a \in 1..Len(generations) :
        \A h \in 1..Len(generations) : generations[h].status = "active" <=> h = a
  BY DEF OneActive
<1>2. Active \in DOMAIN generations /\ generations[Active].status = "active"
  BY <1>1, Domains DEF Active
<1> QED
  BY <1>1, <1>2, Domains

-----------------------------------------------------------------------------
(* What the statements do to the rows.                                       *)

LEMMA FailVersionsRows ==
  ASSUME RagTypes, NEW S
  PROVE  /\ FailVersions(S) \in Seq(VersionStatus) /\ Len(FailVersions(S)) = Len(versions)
         /\ \A v \in 1..Len(versions) : FailVersions(S)[v] =
              IF v \in S /\ versions[v] = "uploaded" THEN "failed" ELSE versions[v]
<1>1. FailVersions(S) = [v \in 1..Len(versions) |->
        IF v \in S /\ versions[v] = "uploaded" THEN "failed" ELSE versions[v]]
  BY Domains DEF FailVersions
<1>2. FailVersions(S) \in [1..Len(versions) -> VersionStatus]
  BY <1>1, Domains DEF VersionStatus
<1> QED
  BY <1>1, <1>2, Domains, SeqOfFunction

\* The fields of a job that no statement changes.
SameJob(old, new) ==
  /\ new.stage = old.stage /\ new.version = old.version /\ new.gen = old.gen
  /\ new.mat = old.mat /\ new.replay = old.replay

\* A worker's last statement about its job.
LEMMA FinishRows ==
  ASSUME RowsInv, NEW w \in Workers, worker[w] # Idle,
         NEW outcome \in {"succeeded", "failed", "retry"}, Finish(w, outcome)
  PROVE  LET j == worker[w].job IN
         /\ j \in 1..Len(jobs) /\ worker' = [worker EXCEPT ![w] = Idle]
         /\ jobs' \in Seq(JobRec) /\ Len(jobs') = Len(jobs)
         /\ \A i \in 1..Len(jobs) : i # j => jobs'[i] = jobs[i]
         /\ \/ jobs' = jobs /\ versions' = versions
            \/ /\ Holds(w) /\ SameJob(jobs[j], jobs'[j]) /\ versions' = versions
               /\ jobs'[j].status = "pending" /\ ~jobs'[j].lease
            \/ /\ Holds(w) /\ SameJob(jobs[j], jobs'[j])
               /\ jobs'[j].status = (IF outcome = "succeeded" THEN "succeeded" ELSE "failed") /\ ~jobs'[j].lease
               /\ versions' = IF outcome # "succeeded" /\ jobs[j].stage # "purge"
                              THEN FailVersions({jobs[j].version}) ELSE versions
<1> DEFINE j == worker[w].job
<1>1. j \in 1..Len(jobs) /\ jobs[j] \in JobRec /\ worker' = [worker EXCEPT ![w] = Idle]
  BY Domains DEF RowsInv, RagRefs, Finish, Release
<1> HIDE DEF j
<1>2. CASE ~Holds(w)
  BY <1>1, <1>2 DEF Finish, j, RowsInv, RagTypes
<1>3. CASE Holds(w) /\ Retries(w, outcome)
  <2> DEFINE e == [[jobs[j] EXCEPT !.status = "pending"] EXCEPT !.lease = FALSE]
  <2>1. e \in JobRec /\ SameJob(jobs[j], e) /\ e.status = "pending" /\ ~e.lease
    BY <1>1 DEF JobRec, Live, SameJob
  <2>2. jobs' = [jobs EXCEPT ![j] = e]
    BY <1>3, Domains DEF Finish, Again, RowsInv, j
  <2>3. versions' = versions
    BY <1>3 DEF Finish
  <2> HIDE DEF e
  <2> QED
    BY <1>1, <1>3, <2>1, <2>2, <2>3, SeqExcept DEF RowsInv, RagTypes, j
<1>4. CASE Holds(w) /\ ~Retries(w, outcome)
  <2> DEFINE status == IF outcome = "succeeded" THEN "succeeded" ELSE "failed"
             e == Ended(jobs[j], status)
  <2>1. status \in {"succeeded", "failed", "cancelled"} /\ status = Final(outcome)
    BY DEF Final
  <2>2. e \in JobRec /\ SameJob(jobs[j], e) /\ e.status = status /\ ~e.lease
    BY <1>1, <2>1, EndedTyped DEF SameJob
  <2>3. jobs' = [jobs EXCEPT ![j] = e]
    BY <1>4, <2>1, Domains DEF Finish, End, RowsInv, j
  <2>4. versions' = IF outcome # "succeeded" /\ jobs[j].stage # "purge"
                    THEN FailVersions({jobs[j].version}) ELSE versions
    BY <1>4, <2>1 DEF Finish, Mine, j
  <2> HIDE DEF e
  <2> QED
    BY <1>1, <1>4, <2>2, <2>3, <2>4, SeqExcept DEF RowsInv, RagTypes, j
<1> QED
  BY <1>2, <1>3, <1>4

LEMMA SweptRows ==
  ASSUME RowsInv
  PROVE  /\ Swept \in Seq(JobRec) /\ Len(Swept) = Len(jobs)
         /\ \A i \in 1..Len(jobs) :
              /\ i \notin Exhausted => Swept[i] = jobs[i]
              /\ i \in Exhausted => /\ SameJob(jobs[i], Swept[i]) /\ ~Swept[i].lease
                                    /\ Swept[i].status = "failed" /\ jobs[i].status = "processing"
<1>1. Swept = [i \in 1..Len(jobs) |-> IF i \in Exhausted THEN Ended(jobs[i], "failed") ELSE jobs[i]]
  BY Domains DEF Swept, RowsInv
<1>2. \A i \in 1..Len(jobs) : /\ Ended(jobs[i], "failed") \in JobRec
                              /\ SameJob(jobs[i], Ended(jobs[i], "failed"))
                              /\ Ended(jobs[i], "failed").status = "failed" /\ ~Ended(jobs[i], "failed").lease
  BY Domains, EndedTyped DEF RowsInv, SameJob
<1>3. Swept \in [1..Len(jobs) -> JobRec]
  BY <1>1, <1>2, Domains DEF RowsInv
<1>4. \A i \in Exhausted : jobs[i].status = "processing"
  BY DEF Exhausted
<1>5. Swept \in Seq(JobRec) /\ Len(Swept) = Len(jobs)
  BY <1>3, Domains, SeqOfFunction DEF RowsInv
<1>6. \A i \in 1..Len(jobs) : /\ i \notin Exhausted => Swept[i] = jobs[i]
                              /\ i \in Exhausted => Swept[i] = Ended(jobs[i], "failed")
  BY <1>1
<1> QED
  BY <1>2, <1>4, <1>5, <1>6

\* The job that a claim takes.
Taken(j) == /\ SameJob(jobs[j], jobs'[j]) /\ jobs'[j].status = "processing" /\ jobs'[j].lease
            /\ Bound(jobs[j]) /\ jobs[j].status \in Live

LEMMA ClaimRows ==
  ASSUME RowsInv, NEW w \in Workers, Claim(w)
  PROVE  /\ versions' = FailVersions(Stranded)
         /\ jobs' \in Seq(JobRec) /\ Len(jobs') = Len(jobs)
         /\ \A i \in 1..Len(jobs) : i \in Exhausted =>
              /\ SameJob(jobs[i], jobs'[i]) /\ jobs[i].status = "processing"
              /\ jobs'[i].status = "failed" /\ ~jobs'[i].lease
         /\ \/ /\ worker' = worker
               /\ \A i \in 1..Len(jobs) : i \notin Exhausted => jobs'[i] = jobs[i]
            \/ \E j \in 1..Len(jobs) :
                 /\ j \notin Exhausted /\ Taken(j)
                 /\ \A i \in 1..Len(jobs) : i \notin Exhausted /\ i # j => jobs'[i] = jobs[i]
                 /\ \E n \in 1..MaxAttempts :
                      worker' = [worker EXCEPT ![w] = [step |-> "claimed", job |-> j, attempt |-> n, todo |-> {}]]
<1>1. versions' = FailVersions(Stranded)
  BY DEF Claim
<1>2. CASE jobs' = Swept /\ worker' = worker
  BY <1>1, <1>2, SweptRows
<1>3. ASSUME NEW j \in DOMAIN jobs, Due(j),
             jobs' = [Swept EXCEPT ![j].status = "processing", ![j].attempts = @ + 1, ![j].lease = TRUE],
             worker' = [worker EXCEPT ![w] =
               [step |-> "claimed", job |-> j, attempt |-> jobs[j].attempts + 1, todo |-> {}]]
      PROVE  \E i \in 1..Len(jobs) :
                 /\ i \notin Exhausted /\ Taken(i) /\ jobs' \in Seq(JobRec) /\ Len(jobs') = Len(jobs)
                 /\ \A k \in 1..Len(jobs) : k # i => jobs'[k] = Swept[k]
                 /\ \E n \in 1..MaxAttempts :
                      worker' = [worker EXCEPT ![w] = [step |-> "claimed", job |-> i, attempt |-> n, todo |-> {}]]
  <2>1. j \in 1..Len(jobs) /\ jobs[j] \in JobRec
    BY Domains DEF RowsInv
  <2>2. Bound(jobs[j]) /\ jobs[j].attempts < MaxAttempts /\ jobs[j].status \in Live
    BY <1>3 DEF Due, Live
  <2>3. j \notin Exhausted
    BY <2>1, <2>2, BoundsAssumption DEF Exhausted, JobRec
  <2>4. jobs[j].attempts + 1 \in 1..MaxAttempts
    BY <2>1, <2>2, BoundsAssumption DEF JobRec
  <2> DEFINE a == [jobs[j] EXCEPT !.attempts = jobs[j].attempts + 1]
             e == [[a EXCEPT !.status = "processing"] EXCEPT !.lease = TRUE]
  <2>5. a \in JobRec /\ SameJob(jobs[j], a)
    BY <2>1, <2>4 DEF JobRec, SameJob
  <2>6. e = [[[jobs[j] EXCEPT !.status = "processing"] EXCEPT !.attempts = @ + 1] EXCEPT !.lease = TRUE]
    BY <2>1 DEF JobRec
  <2> HIDE DEF a
  <2>7. e \in JobRec /\ SameJob(jobs[j], e) /\ e.status = "processing" /\ e.lease
    BY <2>5 DEF JobRec, Live, SameJob
  <2>8. Swept[j] = jobs[j] /\ Swept \in Seq(JobRec) /\ Len(Swept) = Len(jobs)
    BY <2>1, <2>3, SweptRows
  <2>9. jobs' = [Swept EXCEPT ![j] = e]
    <3>1. PICK s, r : s = Swept /\ r = jobs[j]
      OBVIOUS
    <3>2. s[j] = r /\ DOMAIN s = 1..Len(jobs) /\ s \in Seq(JobRec)
      BY <2>8, <3>1, LenProperties
    <3>3. s = [i \in DOMAIN s |-> s[i]]
      BY <3>2
    <3>4. jobs' = [s EXCEPT ![j].status = "processing", ![j].attempts = @ + 1, ![j].lease = TRUE]
      BY <1>3, <3>1
    <3>5. e = [[[r EXCEPT !.status = "processing"] EXCEPT !.attempts = @ + 1] EXCEPT !.lease = TRUE]
      BY <2>6, <3>1
    <3>6. jobs' = [s EXCEPT ![j] = [[[r EXCEPT !.status = "processing"] EXCEPT !.attempts = @ + 1] EXCEPT !.lease = TRUE]]
      <4> HIDE <1>3 DEF e
      <4> QED
        BY <2>1, <3>2, <3>3, <3>4
    <3> QED
      BY <3>1, <3>5, <3>6
  <2> HIDE DEF e
  <2>10. /\ jobs' \in Seq(JobRec) /\ Len(jobs') = Len(jobs) /\ jobs'[j] = e
        /\ \A k \in 1..Len(jobs) : k # j => jobs'[k] = Swept[k]
    BY <2>1, <2>7, <2>8, <2>9, SeqExcept
  <2>11. Taken(j)
    BY <2>2, <2>7, <2>10 DEF Taken
  <2>12. \E n \in 1..MaxAttempts :
           worker' = [worker EXCEPT ![w] = [step |-> "claimed", job |-> j, attempt |-> n, todo |-> {}]]
    BY <1>3, <2>4
  <2> QED
    BY <2>1, <2>3, <2>10, <2>11, <2>12
<1>4. \/ jobs' = Swept /\ worker' = worker
      \/ \E i \in 1..Len(jobs) :
                 /\ i \notin Exhausted /\ Taken(i) /\ jobs' \in Seq(JobRec) /\ Len(jobs') = Len(jobs)
                 /\ \A k \in 1..Len(jobs) : k # i => jobs'[k] = Swept[k]
                 /\ \E n \in 1..MaxAttempts :
                      worker' = [worker EXCEPT ![w] = [step |-> "claimed", job |-> i, attempt |-> n, todo |-> {}]]
  BY <1>3 DEF Claim
<1> QED
  BY <1>1, <1>2, <1>4, SweptRows

\* A job is appended.
LEMMA AppendJob ==
  ASSUME NEW s \in Seq(JobRec), NEW job \in JobRec, jobs' = Append(s, job)
  PROVE  /\ jobs' \in Seq(JobRec) /\ Len(jobs') = Len(s) + 1
         /\ \A j \in 1..Len(s) : jobs'[j] = s[j]
         /\ jobs'[Len(s) + 1] = job
BY AppendProperties

\* A materialization and its parse job.
LEMMA AllocateRows ==
  ASSUME RowsInv, NEW v \in 1..MaxVersions, NEW g \in Nat, Allocate(v, g)
  PROVE  /\ mats' \in Seq(MatRec) /\ Len(mats') = Len(mats) + 1
         /\ \A m \in 1..Len(mats) : mats'[m] = mats[m]
         /\ mats'[Len(mats) + 1].version = v /\ mats'[Len(mats) + 1].gen = g
         /\ mats'[Len(mats) + 1].status = "staging"
         /\ jobs' \in Seq(JobRec) /\ Len(jobs') = Len(jobs) + 1
         /\ \A j \in 1..Len(jobs) : jobs'[j] = jobs[j]
         /\ jobs'[Len(jobs) + 1] = Job("parse", v, g, Len(mats) + 1, FALSE)
<1>1. Materialization(v, g) \in MatRec /\ mats \in Seq(MatRec)
      /\ mats' = Append(mats, Materialization(v, g))
  BY MatTyped DEF Allocate, RowsInv, RagTypes
<1>2. Job("parse", v, g, Len(mats) + 1, FALSE) \in JobRec
  <2>1. Len(mats) + 1 \in Nat
    BY Domains DEF RowsInv
  <2> QED
    BY <2>1, JobTyped
<1>3. /\ mats' \in Seq(MatRec) /\ Len(mats') = Len(mats) + 1
      /\ \A m \in 1..Len(mats) : mats'[m] = mats[m]
      /\ mats'[Len(mats) + 1] = Materialization(v, g)
  BY <1>1, AppendProperties
<1>4. /\ jobs' \in Seq(JobRec) /\ Len(jobs') = Len(jobs) + 1
      /\ \A j \in 1..Len(jobs) : jobs'[j] = jobs[j]
      /\ jobs'[Len(jobs) + 1] = Job("parse", v, g, Len(mats) + 1, FALSE)
  BY <1>2, AppendJob DEF Allocate, RowsInv, RagTypes
<1> QED
  BY <1>3, <1>4, MatTyped

LEMMA CancelledRows ==
  ASSUME RowsInv
  PROVE  /\ Cancelled \in Seq(JobRec) /\ Len(Cancelled) = Len(jobs)
         /\ \A j \in 1..Len(jobs) :
              /\ jobs[j].status \notin Live => Cancelled[j] = jobs[j]
              /\ jobs[j].status \in Live => /\ SameJob(jobs[j], Cancelled[j]) /\ ~Cancelled[j].lease
                                            /\ Cancelled[j].status = "cancelled"
<1>1. Cancelled = [j \in 1..Len(jobs) |->
                     IF jobs[j].status \in Live THEN Ended(jobs[j], "cancelled") ELSE jobs[j]]
  BY Domains DEF Cancelled, RowsInv
<1>2. \A j \in 1..Len(jobs) : /\ Ended(jobs[j], "cancelled") \in JobRec
                              /\ SameJob(jobs[j], Ended(jobs[j], "cancelled"))
                              /\ Ended(jobs[j], "cancelled").status = "cancelled"
                              /\ ~Ended(jobs[j], "cancelled").lease
  BY Domains, EndedTyped DEF RowsInv, SameJob
<1>3. Cancelled \in [1..Len(jobs) -> JobRec]
  BY <1>1, <1>2, Domains DEF RowsInv
<1> QED
  BY <1>1, <1>2, <1>3, Domains, SeqOfFunction DEF RowsInv

\* The jobs of a deletion: the live ones end, and a purge may follow for each version.
Purges(g, first) == [v \in DOMAIN versions |->
  IF v = first THEN Job("purge", v, 0, 0, FALSE) ELSE Job("purge", v, g, Scope(g, v), FALSE)]
PurgeJobs == {<<>>} \union
  {Purges(g, first) : g \in DOMAIN generations, first \in {0} \union DOMAIN versions}

LEMMA PurgesAllowed ==
  \A h \in DOMAIN generations, u \in {0} \union DOMAIN versions : Purges(h, u) \in PurgeJobs
BY DEF PurgeJobs

LEMMA ScopeIs ==
  ASSUME RowsInv, NEW v, NEW g \in DOMAIN generations
  PROVE  g \in Nat /\ g <= Len(generations) /\ Scope(g, v) \in Nat /\ Scope(g, v) <= Len(mats)
<1>1. g \in 1..Len(generations) /\ Len(generations) \in Nat /\ Len(mats) \in Nat
  BY Domains DEF RowsInv
<1>2. generations[g].head \in Nat /\ generations[g].head <= Len(mats)
  BY <1>1, Domains DEF RowsInv, RagRefs, GenRec
<1> QED
  BY <1>1, <1>2 DEF Scope

LEMMA PurgesAre ==
  ASSUME RowsInv, NEW P \in PurgeJobs
  PROVE  /\ P \in Seq(JobRec)
         /\ \A i \in 1..Len(P) :
              /\ P[i].stage = "purge" /\ P[i].version \in 1..Len(versions) /\ P[i].status = "pending"
              /\ P[i].gen <= Len(generations) /\ P[i].mat <= Len(mats) /\ ~P[i].lease
<1>0. DOMAIN versions = 1..Len(versions) /\ Len(versions) \in Nat /\ Len(versions) <= MaxVersions
      /\ Len(generations) \in Nat /\ Len(mats) \in Nat /\ MaxVersions \in Nat
  BY Domains, BoundsAssumption DEF RowsInv, RagTypes
<1>1. CASE P = <<>>
  BY <1>1, EmptySeq
<1>2. ASSUME P # <<>>
      PROVE  \A v \in 1..Len(versions) : \E g \in Nat, m \in Nat :
               /\ P[v] = Job("purge", v, g, m, FALSE) /\ g <= Len(generations) /\ m <= Len(mats)
  <2> SUFFICES ASSUME NEW v \in 1..Len(versions)
               PROVE  \E g \in Nat, m \in Nat :
                        /\ P[v] = Job("purge", v, g, m, FALSE) /\ g <= Len(generations) /\ m <= Len(mats)
    OBVIOUS
  <2>0. PICK h \in DOMAIN generations, first \in {0} \union DOMAIN versions : P = Purges(h, first)
    BY <1>2 DEF PurgeJobs
  <2>1. P[v] = Job("purge", v, h, Scope(h, v), FALSE) \/ P[v] = Job("purge", v, 0, 0, FALSE)
    BY <1>0, <2>0 DEF Purges
  <2>2. CASE P[v] = Job("purge", v, h, Scope(h, v), FALSE)
    BY <2>2, ScopeIs
  <2>3. CASE P[v] = Job("purge", v, 0, 0, FALSE)
    <3>1. 0 \in Nat /\ 0 <= Len(generations) /\ 0 <= Len(mats)
      BY <1>0
    <3> QED
      BY <2>3, <3>1
  <2> QED
    BY <2>1, <2>2, <2>3
<1>3. CASE P # <<>>
  <2>1. \A v \in 1..Len(versions) :
          /\ P[v] \in JobRec /\ P[v].stage = "purge" /\ P[v].version = v /\ P[v].status = "pending"
          /\ P[v].gen <= Len(generations) /\ P[v].mat <= Len(mats) /\ ~P[v].lease
    <3> SUFFICES ASSUME NEW v \in 1..Len(versions)
                 PROVE  /\ P[v] \in JobRec /\ P[v].stage = "purge" /\ P[v].version = v
                        /\ P[v].status = "pending" /\ P[v].gen <= Len(generations)
                        /\ P[v].mat <= Len(mats) /\ ~P[v].lease
      OBVIOUS
    <3>1. PICK g \in Nat, m \in Nat :
            P[v] = Job("purge", v, g, m, FALSE) /\ g <= Len(generations) /\ m <= Len(mats)
      BY <1>2, <1>3
    <3>2. v \in 1..MaxVersions
      BY <1>0
    <3> QED
      <4>1. P[v] \in JobRec
        <5>1. Job("purge", v, g, m, FALSE) \in JobRec
          BY <3>2, JobTyped
        <5> QED
          BY <3>1, <5>1
      <4> QED
        BY <4>1, <3>1 DEF Job
  <2>2. P \in [1..Len(versions) -> JobRec]
    <3>1. PICK h \in DOMAIN generations, first \in {0} \union DOMAIN versions : P = Purges(h, first)
      BY <1>3 DEF PurgeJobs
    <3>2. DOMAIN P = 1..Len(versions) /\ P = [v \in 1..Len(versions) |-> P[v]]
      BY <1>0, <3>1 DEF Purges
    <3> QED
      BY <2>1, <3>2
  <2>3. P \in Seq(JobRec) /\ Len(P) = Len(versions)
    BY <1>0, <2>2, SeqOfFunction
  <2> QED
    BY <1>0, <2>1, <2>3
<1> QED
  BY <1>1, <1>3

LEMMA DeletionRows ==
  ASSUME RowsInv, NEW P \in PurgeJobs, jobs' = Cancelled \o P
  PROVE  /\ jobs' \in Seq(JobRec) /\ Len(jobs) <= Len(jobs')
         /\ \A j \in 1..Len(jobs) :
              /\ jobs[j].status \notin Live => jobs'[j] = jobs[j]
              /\ jobs[j].status \in Live => /\ SameJob(jobs[j], jobs'[j]) /\ ~jobs'[j].lease
                                            /\ jobs'[j].status = "cancelled"
         /\ \A j \in 1..Len(jobs') : j \notin 1..Len(jobs) =>
              /\ jobs'[j].stage = "purge" /\ jobs'[j].version \in 1..Len(versions)
              /\ jobs'[j].gen <= Len(generations) /\ jobs'[j].mat <= Len(mats)
              /\ jobs'[j].status = "pending" /\ ~jobs'[j].lease
<1>1. P \in Seq(JobRec) /\ Len(P) \in Nat /\ Cancelled \in Seq(JobRec) /\ Len(Cancelled) = Len(jobs)
      /\ Len(jobs) \in Nat
  BY PurgesAre, CancelledRows, LenProperties, Domains DEF RowsInv
<1>2. /\ jobs' \in Seq(JobRec) /\ Len(jobs') = Len(jobs) + Len(P)
      /\ \A i \in 1..Len(jobs) + Len(P) :
           jobs'[i] = IF i <= Len(jobs) THEN Cancelled[i] ELSE P[i - Len(jobs)]
  BY <1>1, ConcatProperties
<1>3. \A j \in 1..Len(jobs) : jobs'[j] = Cancelled[j]
  BY <1>1, <1>2
<1>4. \A j \in 1..Len(jobs') : j \notin 1..Len(jobs) => \E i \in 1..Len(P) : jobs'[j] = P[i]
  <2> TAKE j \in 1..Len(jobs')
  <2> HAVE j \notin 1..Len(jobs)
  <2>1. j - Len(jobs) \in 1..Len(P) /\ jobs'[j] = P[j - Len(jobs)]
    BY <1>1, <1>2
  <2> QED
    BY <2>1
<1> QED
  BY <1>1, <1>2, <1>3, <1>4, CancelledRows, PurgesAre

-----------------------------------------------------------------------------
(* A handler's step either ends the job or does its part of the work.        *)

workFrame == <<jobs, versions, doc, current, generations, handlerFrame>>

Ends(w) ==
  /\ worker[w] # Idle /\ \E outcome \in {"retry", "failed"} : Finish(w, outcome)
  /\ UNCHANGED <<finishFrame, handlerFrame>>
SourceRead(w) ==
  /\ At(w, "parse", "claimed") /\ Holds(w) /\ Wanted(Mine(w).version) /\ Goto(w, "parsed")
  /\ UNCHANGED <<mats, workFrame>>
RowsStaged(w) ==
  /\ At(w, "parse", "parsed") /\ Holds(w) /\ Staging(w) /\ Goto(w, "staged")
  /\ mats' = [mats EXCEPT ![Mine(w).mat].rows = [c \in Chunks |-> IF @[c] = "none" THEN "staging" ELSE @[c]]]
  /\ UNCHANGED workFrame
ParseCompleted(w) ==
  /\ At(w, "parse", "staged") /\ Holds(w) /\ Release(w)
  /\ jobs' = Append([jobs EXCEPT ![worker[w].job] = Ended(@, "succeeded")],
                    Job("embedding", Mine(w).version, Mine(w).gen, Mine(w).mat, Mine(w).replay))
  /\ UNCHANGED <<finishFrame, versions, handlerFrame>>
RowsFetched(w) ==
  /\ At(w, "embedding", "claimed") /\ Holds(w)
  /\ worker' = [worker EXCEPT ![w].step = "embedded",
                      ![w].todo = {c \in Chunks : Open(mats[Mine(w).mat].rows[c])}]
  /\ UNCHANGED <<mats, workFrame>>
VectorStaged(w) == \E c \in worker[w].todo :
  /\ At(w, "embedding", "embedded") /\ Holds(w) /\ Open(mats[Mine(w).mat].rows[c])
  /\ mats' = [mats EXCEPT ![Mine(w).mat].rows[c] = "ready"]
  /\ worker' = [worker EXCEPT ![w].todo = @ \ {c}]
  /\ UNCHANGED workFrame
Published(w) ==
  LET m == Mine(w).mat  v == Mine(w).version IN
  /\ At(w, "embedding", "embedded") /\ Holds(w) /\ Publishable(m)
  /\ versions' = [u \in DOMAIN versions |->
        IF u = v THEN "active"
        ELSE IF u = current /\ versions[u] = "active" THEN "tombstoned" ELSE versions[u]]
  /\ doc' = "active" /\ current' = v
  /\ generations' = [generations EXCEPT ![Mine(w).gen].head = m]
  /\ mats' = [mats EXCEPT ![m].status = "published"]
  /\ End(w, "succeeded") /\ Release(w) /\ UNCHANGED handlerFrame
RowsPurged(w) ==
  /\ At(w, "purge", "claimed") /\ Holds(w) /\ Goto(w, "purged")
  /\ mats' = [m \in DOMAIN mats |->
       IF m \notin Covered(Mine(w)) THEN mats[m]
       ELSE [mats[m] EXCEPT !.rows = [c \in Chunks |-> IF @[c] = "none" THEN "none" ELSE "purged"]]]
  /\ UNCHANGED workFrame
PurgeAsserted(w) ==
  /\ At(w, "purge", "purged") /\ Finish(w, "succeeded")
  /\ UNCHANGED <<finishFrame, handlerFrame>>

PartDone(w) == SourceRead(w) \/ RowsStaged(w) \/ RowsFetched(w) \/ VectorStaged(w) \/ RowsPurged(w)

LEMMA HandlerKinds ==
  ASSUME NEW w \in Workers,
         HandlerStep(w) \/ \E outcome \in {"retry", "failed"} : HandlerFails(w, outcome)
  PROVE  Ends(w) \/ PartDone(w) \/ ParseCompleted(w) \/ Published(w) \/ PurgeAsserted(w)
<1> USE DEF workFrame, finishFrame, handlerFrame
<1>1. CASE Source(w)
  BY <1>1 DEF Source, Ends, PartDone, SourceRead, At
<1>2. CASE StageRows(w)
  BY <1>2 DEF StageRows, Ends, PartDone, RowsStaged, At
<1>3. CASE CompleteParse(w)
  BY <1>3 DEF CompleteParse, Ends, ParseCompleted, At
<1>4. CASE FetchRows(w)
  BY <1>4 DEF FetchRows, Ends, PartDone, RowsFetched, At
<1>5. CASE StageVector(w)
  BY <1>5 DEF StageVector, Ends, PartDone, VectorStaged, At
<1>6. CASE Publish(w)
  BY <1>6 DEF Publish, Ends, Published, At
<1>7. CASE PurgeRows(w)
  BY <1>7 DEF PurgeRows, Ends, PartDone, RowsPurged, At
<1>8. CASE AssertPurged(w)
  BY <1>8 DEF AssertPurged, Ends, PurgeAsserted, At
<1>9. CASE \E outcome \in {"retry", "failed"} : HandlerFails(w, outcome)
  BY <1>9 DEF HandlerFails, Ends
<1> QED
  BY <1>1, <1>2, <1>3, <1>4, <1>5, <1>6, <1>7, <1>8, <1>9 DEF HandlerStep

\* The job a worker is at.
LEMMA MineIs ==
  ASSUME RowsInv, NEW w \in Workers, worker[w] # Idle
  PROVE  /\ worker[w].job \in 1..Len(jobs) /\ Mine(w) = jobs[worker[w].job] /\ Mine(w) \in JobRec
         /\ Mine(w).version \in 1..Len(versions) /\ worker[w] \in Claims
         /\ Holds(w) => Mine(w).status = "processing" /\ Mine(w).status \in Live
BY Domains DEF RowsInv, RagRefs, RagTypes, Mine, Holds, Live

\* The materialization that a claimed parse or embedding job is about.
LEMMA MineMat ==
  ASSUME RowsInv, JobInv, ClaimInv, NEW w \in Workers, worker[w] # Idle, Mine(w).stage # "purge"
  PROVE  /\ Mine(w).mat \in 1..Len(mats) /\ Mine(w).gen \in 1..Len(generations)
         /\ mats[Mine(w).mat] \in MatRec
         /\ mats[Mine(w).mat].version = Mine(w).version /\ mats[Mine(w).mat].gen = Mine(w).gen
<1>1. Mine(w) = jobs[worker[w].job] /\ worker[w].job \in 1..Len(jobs) /\ Bound(Mine(w))
  BY MineIs DEF ClaimInv
<1>2. /\ Mine(w).mat \in 1..Len(mats) /\ mats[Mine(w).mat].version = Mine(w).version
      /\ mats[Mine(w).mat].gen = Mine(w).gen
  BY <1>1 DEF JobInv
<1> QED
  BY <1>2, Domains DEF RowsInv, RagRefs

LEMMA ParseCompletedRows ==
  ASSUME RowsInv, NEW w \in Workers, ParseCompleted(w)
  PROVE  LET j == worker[w].job  n == Len(jobs) + 1 IN
         /\ j \in 1..Len(jobs) /\ jobs' \in Seq(JobRec) /\ Len(jobs') = n
         /\ \A i \in 1..Len(jobs) : i # j => jobs'[i] = jobs[i]
         /\ SameJob(jobs[j], jobs'[j]) /\ jobs'[j].status = "succeeded" /\ ~jobs'[j].lease
         /\ jobs[j].stage = "parse" /\ jobs[j].status \in Live
         /\ jobs'[n].stage = "embedding" /\ jobs'[n].version = jobs[j].version /\ jobs'[n].gen = jobs[j].gen
         /\ jobs'[n].mat = jobs[j].mat /\ jobs'[n].replay = jobs[j].replay
         /\ jobs'[n].status = "pending" /\ ~jobs'[n].lease
<1> DEFINE j == worker[w].job
           e == Ended(jobs[j], "succeeded")
           s == [jobs EXCEPT ![j] = e]
           job == Job("embedding", Mine(w).version, Mine(w).gen, Mine(w).mat, Mine(w).replay)
<1>1. j \in 1..Len(jobs) /\ Mine(w) = jobs[j] /\ jobs[j] \in JobRec /\ jobs[j].stage = "parse"
      /\ jobs[j].status \in Live
  BY MineIs DEF ParseCompleted, At
<1>2. e \in JobRec /\ SameJob(jobs[j], e) /\ e.status = "succeeded" /\ ~e.lease
  BY <1>1, EndedTyped DEF SameJob
<1>3. job \in JobRec /\ job.stage = "embedding" /\ job.version = jobs[j].version /\ job.gen = jobs[j].gen
      /\ job.mat = jobs[j].mat /\ job.replay = jobs[j].replay /\ job.status = "pending" /\ ~job.lease
  <2>1. /\ Mine(w).version \in 1..MaxVersions /\ Mine(w).gen \in Nat /\ Mine(w).mat \in Nat
        /\ Mine(w).replay \in BOOLEAN
    BY <1>1 DEF JobRec
  <2>2. job \in JobRec
    BY <2>1, JobTyped
  <2> QED
    BY <1>1, <2>2 DEF Job
<1>4. jobs' = Append(s, job)
  BY <1>1, Domains DEF ParseCompleted, RowsInv
<1> HIDE DEF e, job
<1>5. s \in Seq(JobRec) /\ Len(s) = Len(jobs) /\ s[j] = e /\ \A i \in 1..Len(jobs) : i # j => s[i] = jobs[i]
  BY <1>1, <1>2, SeqExcept DEF RowsInv, RagTypes
<1> HIDE DEF s
<1>6. /\ jobs' \in Seq(JobRec) /\ Len(jobs') = Len(s) + 1
      /\ \A i \in 1..Len(s) : jobs'[i] = s[i]
      /\ jobs'[Len(s) + 1] = job
  BY <1>3, <1>4, <1>5, AppendJob
<1> QED
  BY <1>1, <1>2, <1>3, <1>5, <1>6

LEMMA PublishedRows ==
  ASSUME RowsInv, JobInv, ClaimInv, NEW w \in Workers, Published(w)
  PROVE  LET j == worker[w].job  m == Mine(w).mat  v == Mine(w).version  g == Mine(w).gen IN
         /\ j \in 1..Len(jobs) /\ m \in 1..Len(mats) /\ g \in 1..Len(generations) /\ v \in 1..Len(versions)
         /\ Mine(w) = jobs[j] /\ jobs[j].stage = "embedding" /\ jobs[j].status \in Live
         /\ mats[m].version = v /\ mats[m].gen = g /\ mats[m].status = "staging"
         /\ \A c \in Chunks : mats[m].rows[c] = "ready"
         /\ Wanted(v)
         /\ jobs' \in Seq(JobRec) /\ Len(jobs') = Len(jobs)
         /\ \A i \in 1..Len(jobs) : i # j => jobs'[i] = jobs[i]
         /\ SameJob(jobs[j], jobs'[j]) /\ jobs'[j].status = "succeeded" /\ ~jobs'[j].lease
         /\ mats' \in Seq(MatRec) /\ Len(mats') = Len(mats)
         /\ \A i \in 1..Len(mats) : i # m => mats'[i] = mats[i]
         /\ mats'[m].version = v /\ mats'[m].gen = g /\ mats'[m].rows = mats[m].rows
         /\ mats'[m].status = "published"
         /\ generations' \in Seq(GenRec) /\ Len(generations') = Len(generations)
         /\ \A i \in 1..Len(generations) : i # g => generations'[i] = generations[i]
         /\ generations'[g].status = generations[g].status /\ generations'[g].source = generations[g].source
         /\ generations'[g].head = m
         /\ versions' \in Seq(VersionStatus) /\ Len(versions') = Len(versions)
         /\ \A u \in 1..Len(versions) : versions'[u] =
              IF u = v THEN "active" ELSE IF u = current /\ versions[u] = "active" THEN "tombstoned" ELSE versions[u]
         /\ doc' = "active" /\ current' = v
<1> DEFINE j == worker[w].job  m == Mine(w).mat  v == Mine(w).version  g == Mine(w).gen
<1>1. /\ j \in 1..Len(jobs) /\ Mine(w) = jobs[j] /\ jobs[j] \in JobRec /\ v \in 1..Len(versions)
      /\ jobs[j].stage = "embedding" /\ jobs[j].status \in Live
  BY MineIs DEF Published, At
<1>2. /\ m \in 1..Len(mats) /\ g \in 1..Len(generations) /\ mats[m] \in MatRec
      /\ mats[m].version = v /\ mats[m].gen = g
  BY <1>1, MineMat DEF Published, At
<1>3. /\ mats[m].status = "staging" /\ \A c \in Chunks : mats[m].rows[c] = "ready"
      /\ Wanted(v) /\ doc' = "active" /\ current' = v
  BY <1>2 DEF Published, Publishable
<1>4. /\ jobs' \in Seq(JobRec) /\ Len(jobs') = Len(jobs)
      /\ \A i \in 1..Len(jobs) : i # j => jobs'[i] = jobs[i]
      /\ SameJob(jobs[j], jobs'[j]) /\ jobs'[j].status = "succeeded" /\ ~jobs'[j].lease
  <2> DEFINE e == Ended(jobs[j], "succeeded")
  <2>1. e \in JobRec /\ SameJob(jobs[j], e) /\ e.status = "succeeded" /\ ~e.lease
    BY <1>1, EndedTyped DEF SameJob
  <2>2. jobs' = [jobs EXCEPT ![j] = e]
    BY <1>1, Domains DEF Published, End, RowsInv
  <2> HIDE DEF e
  <2> QED
    BY <1>1, <2>1, <2>2, SeqExcept DEF RowsInv, RagTypes
<1>5. /\ mats' \in Seq(MatRec) /\ Len(mats') = Len(mats)
      /\ \A i \in 1..Len(mats) : i # m => mats'[i] = mats[i]
      /\ mats'[m].version = v /\ mats'[m].gen = g /\ mats'[m].rows = mats[m].rows
      /\ mats'[m].status = "published"
  <2> DEFINE e == [mats[m] EXCEPT !.status = "published"]
  <2>1. e \in MatRec /\ e.version = v /\ e.gen = g /\ e.rows = mats[m].rows /\ e.status = "published"
    BY <1>2 DEF MatRec
  <2>2. mats' = [mats EXCEPT ![m] = e]
    BY <1>2, Domains DEF Published, RowsInv
  <2> HIDE DEF e
  <2> QED
    BY <1>2, <2>1, <2>2, SeqExcept DEF RowsInv, RagTypes
<1>6. /\ generations' \in Seq(GenRec) /\ Len(generations') = Len(generations)
      /\ \A i \in 1..Len(generations) : i # g => generations'[i] = generations[i]
      /\ generations'[g].status = generations[g].status /\ generations'[g].source = generations[g].source
      /\ generations'[g].head = m
  <2> DEFINE e == [generations[g] EXCEPT !.head = m]
  <2>1. e \in GenRec /\ e.status = generations[g].status /\ e.source = generations[g].source /\ e.head = m
    <3>1. PICK r \in GenRec : r = generations[g]
      BY <1>2, Domains DEF RowsInv
    <3>2. m \in Nat
      BY <1>2, Domains DEF RowsInv
    <3> QED
      BY <3>1, <3>2 DEF GenRec
  <2>2. generations' = [generations EXCEPT ![g] = e]
    BY <1>2, Domains DEF Published, RowsInv
  <2> HIDE DEF e
  <2> QED
    BY <1>2, <2>1, <2>2, SeqExcept DEF RowsInv, RagTypes
<1>7. /\ versions' \in Seq(VersionStatus) /\ Len(versions') = Len(versions)
      /\ \A u \in 1..Len(versions) : versions'[u] =
           IF u = v THEN "active" ELSE IF u = current /\ versions[u] = "active" THEN "tombstoned" ELSE versions[u]
  <2>1. versions' = [u \in 1..Len(versions) |-> IF u = v THEN "active"
           ELSE IF u = current /\ versions[u] = "active" THEN "tombstoned" ELSE versions[u]]
    BY Domains DEF Published, RowsInv
  <2>2. versions' \in [1..Len(versions) -> VersionStatus]
    BY <2>1, Domains DEF RowsInv, VersionStatus
  <2> QED
    BY <2>1, <2>2, Domains, SeqOfFunction DEF RowsInv
<1> QED
  BY <1>1, <1>2, <1>3, <1>4, <1>5, <1>6, <1>7

\* A part of the work changes rows of the index, and the worker's place in it.
RowMoves(w, m, c) ==
  \/ mats'[m].rows[c] = mats[m].rows[c]
  \/ /\ RowsStaged(w) /\ mats[m].status = "staging"
     /\ mats[m].rows[c] = "none" /\ mats'[m].rows[c] = "staging"
  \/ Open(mats[m].rows[c]) /\ mats'[m].rows[c] = "ready"
  \/ Mine(w).stage = "purge" /\ mats'[m].rows[c] = "purged"
PlaceMoves(w, k) ==
  /\ worker' = [worker EXCEPT ![w] = k] /\ k.job = worker[w].job
  /\ k.step = "parsed" => Wanted(Mine(w).version) /\ Mine(w).stage # "purge"
  /\ k.step = "purged" => /\ Mine(w).stage = "purge"
                          /\ \A m \in Covered(Mine(w)), c \in Chunks : ~Open(mats'[m].rows[c])

LEMMA PartDoneMats ==
  ASSUME RowsInv, JobInv, ClaimInv, NEW w \in Workers, PartDone(w)
  PROVE  /\ worker[w] # Idle
         /\ mats' \in Seq(MatRec) /\ Len(mats') = Len(mats)
         /\ \A m \in 1..Len(mats) :
              /\ mats'[m].version = mats[m].version /\ mats'[m].gen = mats[m].gen
              /\ mats'[m].status = mats[m].status
              /\ \A c \in Chunks : RowMoves(w, m, c)
<1> DEFINE Good == /\ mats' \in Seq(MatRec) /\ Len(mats') = Len(mats)
                   /\ \A m \in 1..Len(mats) :
                        /\ mats'[m].version = mats[m].version /\ mats'[m].gen = mats[m].gen
                        /\ mats'[m].status = mats[m].status
                        /\ \A c \in Chunks : RowMoves(w, m, c)
<1>0. worker[w] # Idle /\ mats \in Seq(MatRec)
  BY DEF PartDone, SourceRead, RowsStaged, RowsFetched, VectorStaged, RowsPurged, At, RowsInv, RagTypes
<1>1. ASSUME UNCHANGED mats PROVE Good
  BY <1>0, <1>1 DEF RowMoves
<1> DEFINE Replaced(f, e) ==
             /\ f \in [Chunks -> {"none", "staging", "ready", "purged"}]
             /\ e = [mats[Mine(w).mat] EXCEPT !.rows = f] /\ mats' = [mats EXCEPT ![Mine(w).mat] = e]
             /\ \A c \in Chunks :
                  \/ f[c] = mats[Mine(w).mat].rows[c]
                  \/ /\ RowsStaged(w) /\ mats[Mine(w).mat].status = "staging"
                     /\ mats[Mine(w).mat].rows[c] = "none" /\ f[c] = "staging"
                  \/ Open(mats[Mine(w).mat].rows[c]) /\ f[c] = "ready"
<1>2. ASSUME NEW f, NEW e, Replaced(f, e), Mine(w).stage # "purge" PROVE Good
  <2> DEFINE m == Mine(w).mat
  <2>1. m \in 1..Len(mats) /\ mats[m] \in MatRec
    BY <1>0, <1>2, MineMat
  <2>2. /\ e \in MatRec /\ e.version = mats[m].version /\ e.gen = mats[m].gen
        /\ e.status = mats[m].status /\ e.rows = f
    BY <1>2, <2>1 DEF MatRec
  <2>3. /\ mats' \in Seq(MatRec) /\ Len(mats') = Len(mats) /\ mats'[m] = e
        /\ \A i \in 1..Len(mats) : i # m => mats'[i] = mats[i]
    BY <1>0, <1>2, <2>1, <2>2, SeqExcept
  <2> QED
    BY <1>2, <2>2, <2>3 DEF RowMoves
<1> HIDE DEF Good, Replaced
<1>3. ASSUME RowsStaged(w) PROVE Good
  <2> DEFINE m == Mine(w).mat
  <2>1. Mine(w).stage # "purge" /\ mats[m].status = "staging"
    BY <1>3 DEF RowsStaged, At, Staging
  <2>2. m \in 1..Len(mats) /\ mats[m] \in MatRec
    BY <1>0, <2>1, MineMat
  <2>3. PICK f : f = [c \in Chunks |-> IF mats[m].rows[c] = "none" THEN "staging" ELSE mats[m].rows[c]]
    OBVIOUS
  <2>4. PICK e : e = [mats[m] EXCEPT !.rows = f]
    OBVIOUS
  <2>5. f \in [Chunks -> {"none", "staging", "ready", "purged"}]
    BY <2>2, <2>3 DEF MatRec
  <2>6. mats' = [mats EXCEPT ![m] = e]
    BY <1>3, <2>2, <2>3, <2>4, Domains DEF RowsStaged, RowsInv
  <2>7. \A c \in Chunks : f[c] = mats[m].rows[c] \/ (mats[m].rows[c] = "none" /\ f[c] = "staging")
    BY <2>3
  <2> QED
    <3>1. Replaced(f, e)
      BY <1>3, <2>1, <2>4, <2>5, <2>6, <2>7 DEF Replaced
    <3> QED
      BY <1>2, <2>1, <3>1
<1>4. ASSUME NEW c \in worker[w].todo, Mine(w).stage # "purge", Open(mats[Mine(w).mat].rows[c]),
             mats' = [mats EXCEPT ![Mine(w).mat].rows[c] = "ready"]
      PROVE  Good
  <2> DEFINE m == Mine(w).mat
  <2>1. m \in 1..Len(mats) /\ mats[m] \in MatRec /\ c \in Chunks
    BY <1>0, <1>4, MineMat, MineIs DEF Claims
  <2>2. PICK f : f = [mats[m].rows EXCEPT ![c] = "ready"]
    OBVIOUS
  <2>3. PICK e : e = [mats[m] EXCEPT !.rows = f]
    OBVIOUS
  <2>4. /\ f \in [Chunks -> {"none", "staging", "ready", "purged"}] /\ f[c] = "ready"
        /\ \A d \in Chunks : d # c => f[d] = mats[m].rows[d]
    BY <2>1, <2>2 DEF MatRec
  <2>5. mats' = [mats EXCEPT ![m] = e]
    BY <1>4, <2>1, <2>2, <2>3, Domains DEF RowsInv
  <2>6. \A d \in Chunks : f[d] = mats[m].rows[d] \/ (Open(mats[m].rows[d]) /\ f[d] = "ready")
    BY <1>4, <2>4
  <2> QED
    <3>1. Replaced(f, e)
      BY <2>3, <2>4, <2>5, <2>6 DEF Replaced
    <3> QED
      BY <1>2, <1>4, <3>1
<1>5. ASSUME RowsPurged(w) PROVE Good
  <2> DEFINE job == Mine(w)
             f(m) == [mats[m] EXCEPT !.rows = [c \in Chunks |-> IF @[c] = "none" THEN "none" ELSE "purged"]]
  <2>1. mats' = [m \in 1..Len(mats) |-> IF m \notin Covered(job) THEN mats[m] ELSE f(m)]
    BY <1>5, Domains DEF RowsPurged, RowsInv
  <2>2. \A m \in 1..Len(mats) :
          /\ f(m) \in MatRec /\ f(m).version = mats[m].version /\ f(m).gen = mats[m].gen
          /\ f(m).status = mats[m].status
          /\ \A c \in Chunks : f(m).rows[c] = IF mats[m].rows[c] = "none" THEN "none" ELSE "purged"
    <3> SUFFICES ASSUME NEW m \in 1..Len(mats)
                 PROVE  /\ f(m) \in MatRec /\ f(m).version = mats[m].version /\ f(m).gen = mats[m].gen
                        /\ f(m).status = mats[m].status
                        /\ \A c \in Chunks : f(m).rows[c] = IF mats[m].rows[c] = "none" THEN "none" ELSE "purged"
      OBVIOUS
    <3>1. mats[m] \in MatRec
      BY Domains DEF RowsInv
    <3> QED
      BY <3>1 DEF MatRec
  <2> HIDE DEF f
  <2>3. \A m \in 1..Len(mats) : mats[m] \in MatRec
    BY Domains DEF RowsInv
  <2>4. mats' \in [1..Len(mats) -> MatRec] /\ Len(mats) \in Nat
    BY <2>1, <2>2, <2>3, Domains DEF RowsInv
  <2>5. mats' \in Seq(MatRec) /\ Len(mats') = Len(mats)
    BY <2>4, SeqOfFunction
  <2>6. job.stage = "purge"
    BY <1>5 DEF RowsPurged, At
  <2>7. ASSUME NEW m \in 1..Len(mats)
        PROVE  /\ mats'[m].version = mats[m].version /\ mats'[m].gen = mats[m].gen
               /\ mats'[m].status = mats[m].status
               /\ \A c \in Chunks : RowMoves(w, m, c)
    BY <2>1, <2>2, <2>6 DEF RowMoves
  <2> QED
    BY <2>5, <2>7 DEF Good
<1>6. Good
  <2>1. CASE VectorStaged(w)
    <3>1. PICK c \in worker[w].todo :
            /\ At(w, "embedding", "embedded") /\ Open(mats[Mine(w).mat].rows[c])
            /\ mats' = [mats EXCEPT ![Mine(w).mat].rows[c] = "ready"]
      BY <2>1 DEF VectorStaged
    <3>2. Mine(w).stage # "purge"
      BY <3>1 DEF At
    <3> QED
      BY <1>0, <1>4, <3>1, <3>2
  <2>2. CASE SourceRead(w) \/ RowsFetched(w)
    BY <1>1, <2>2 DEF SourceRead, RowsFetched
  <2> QED
    BY <1>3, <1>5, <2>1, <2>2 DEF PartDone
<1> QED
  BY <1>0, <1>6 DEF Good

LEMMA PartDonePlace ==
  ASSUME RowsInv, JobInv, ClaimInv, NEW w \in Workers, PartDone(w)
  PROVE  \E k \in Claims : PlaceMoves(w, k)
<1>1. worker[w] # Idle /\ worker[w] \in Claims /\ worker \in [Workers -> Claims \union {Idle}]
  BY PartDoneMats, MineIs DEF RowsInv, RagTypes
<1>2. ASSUME NEW step \in {"parsed", "staged", "purged"}, Goto(w, step)
      PROVE  \E k \in Claims : /\ k.job = worker[w].job /\ k.step = step
                               /\ worker' = [worker EXCEPT ![w] = k]
  <2>1. [worker[w] EXCEPT !.step = step] \in Claims
    BY <1>1 DEF Claims
  <2>2. worker' = [worker EXCEPT ![w] = [worker[w] EXCEPT !.step = step]]
    BY <1>1, <1>2 DEF Goto
  <2>3. [worker[w] EXCEPT !.step = step].job = worker[w].job /\ [worker[w] EXCEPT !.step = step].step = step
    BY <1>1 DEF Claims
  <2> QED
    BY <2>1, <2>2, <2>3
<1>3. CASE SourceRead(w)
  <2>1. Goto(w, "parsed") /\ Wanted(Mine(w).version) /\ Mine(w).stage # "purge"
    BY <1>3 DEF SourceRead, At
  <2> QED
    BY <1>2, <2>1 DEF PlaceMoves
<1>4. CASE RowsStaged(w)
  <2>1. Goto(w, "staged")
    BY <1>4 DEF RowsStaged
  <2> QED
    BY <1>2, <2>1 DEF PlaceMoves
<1>5. CASE RowsFetched(w)
  <2> DEFINE todo == {c \in Chunks : Open(mats[Mine(w).mat].rows[c])}
             a == [worker[w] EXCEPT !.step = "embedded"]
             k == [a EXCEPT !.todo = todo]
  <2>1. a \in Claims /\ a.job = worker[w].job /\ a.step = "embedded"
    BY <1>1 DEF Claims
  <2>2. worker' = [worker EXCEPT ![w] = k]
    BY <1>1, <1>5 DEF RowsFetched
  <2> HIDE DEF a
  <2>3. k \in Claims /\ k.job = worker[w].job /\ k.step = "embedded"
    BY <2>1 DEF Claims
  <2> HIDE DEF k
  <2> QED
    BY <2>2, <2>3 DEF PlaceMoves
<1>6. CASE VectorStaged(w)
  <2>1. PICK c \in worker[w].todo : worker' = [worker EXCEPT ![w].todo = @ \ {c}] /\ worker[w].step = "embedded"
    BY <1>6 DEF VectorStaged, At
  <2> DEFINE k == [worker[w] EXCEPT !.todo = @ \ {c}]
  <2>2. k \in Claims /\ k.job = worker[w].job /\ k.step = "embedded"
    BY <1>1, <2>1 DEF Claims
  <2>3. worker' = [worker EXCEPT ![w] = k]
    BY <1>1, <2>1
  <2> HIDE DEF k
  <2> QED
    BY <2>2, <2>3 DEF PlaceMoves
<1>7. CASE RowsPurged(w)
  <2>1. Goto(w, "purged") /\ Mine(w).stage = "purge"
    BY <1>7 DEF RowsPurged, At
  <2>2. \A m \in Covered(Mine(w)), c \in Chunks : ~Open(mats'[m].rows[c])
    <3> SUFFICES ASSUME NEW m \in Covered(Mine(w)), NEW c \in Chunks
                 PROVE  ~Open(mats'[m].rows[c])
      OBVIOUS
    <3>1. m \in 1..Len(mats) /\ mats[m] \in MatRec
      BY Domains DEF Covered, RowsInv
    <3>2. mats'[m] = [mats[m] EXCEPT !.rows = [d \in Chunks |-> IF @[d] = "none" THEN "none" ELSE "purged"]]
      BY <1>7, <3>1, Domains DEF RowsPurged, RowsInv
    <3>3. mats'[m].rows = [d \in Chunks |-> IF mats[m].rows[d] = "none" THEN "none" ELSE "purged"]
      BY <3>1, <3>2 DEF MatRec
    <3> QED
      BY <3>3 DEF Open
  <2> QED
    BY <1>2, <2>1, <2>2 DEF PlaceMoves
<1> QED
  BY <1>3, <1>4, <1>5, <1>6, <1>7 DEF PartDone

-----------------------------------------------------------------------------
(* The kinds of steps.                                                       *)

\* The API wants a version processed: a new document, a replacement, a failure.
Creates(v) == doc = "none" /\ doc' = "processing" /\ versions' = <<"uploaded">> /\ v = 1
Wants(v) == Creates(v) \/ Replaces(v) \/ Reopens(v)
Adds(v) == Wants(v) /\ Parse(v) /\ UNCHANGED <<current, generations, apiFrame>>

\* The head moves; it may move under a statement of the API.
Moves(g) == Promote(g) \/ Rollback(g)
AddsUnbound(v, g) ==
  /\ Moves(g) /\ (Replaces(v) \/ Reopens(v)) /\ ParseUnbound(v)
  /\ UNCHANGED <<current, mats, apiFrame>>
Deletes ==
  /\ Tombstone /\ \E P \in PurgeJobs : jobs' = Cancelled \o P
  /\ UNCHANGED generations \/ \E g \in DOMAIN generations : Moves(g)
  /\ UNCHANGED <<current, mats, apiFrame>>
Commands(g) == (Verify(g) \/ AbandonCandidate(g) \/ Moves(g)) /\ UNCHANGED commandFrame

\* Leases, processes and the lock.
Quiet(w) == Abandon(w) \/ Start(w) \/ Crash(w)

LEMMA Kinds ==
  ASSUME RowsInv, RebuildNext
  PROVE  \/ \E v \in 1..MaxVersions : Adds(v)
         \/ \E v \in 1..MaxVersions, g \in 1..Len(generations) : AddsUnbound(v, g)
         \/ Deletes \/ Begin \/ \E g \in 1..Len(generations) : Commands(g)
         \/ \E j \in 1..Len(jobs) : Replay(j) \/ Expire(j)
         \/ \E w \in Workers :
              \/ Claim(w) \/ Ends(w) \/ PartDone(w) \/ ParseCompleted(w) \/ Published(w)
              \/ PurgeAsserted(w) \/ Quiet(w)
         \/ DropLock
<1> DEFINE Kind ==
         \/ \E v \in 1..MaxVersions : Adds(v)
         \/ \E v \in 1..MaxVersions, g \in 1..Len(generations) : AddsUnbound(v, g)
         \/ Deletes \/ Begin \/ \E g \in 1..Len(generations) : Commands(g)
         \/ \E j \in 1..Len(jobs) : Replay(j) \/ Expire(j)
         \/ \E w \in Workers :
              \/ Claim(w) \/ Ends(w) \/ PartDone(w) \/ ParseCompleted(w) \/ Published(w)
              \/ PurgeAsserted(w) \/ Quiet(w)
         \/ DropLock
<1>0. /\ DOMAIN versions = 1..Len(versions) /\ Len(versions) \in Nat /\ Len(versions) <= MaxVersions
      /\ DOMAIN generations = 1..Len(generations) /\ DOMAIN jobs = 1..Len(jobs)
      /\ MaxVersions \in Nat \ {0} /\ jobs \in Seq(JobRec)
  BY Domains, BoundsAssumption DEF RowsInv, RagTypes
<1>1. CASE CreateDocument
  <2>1. 1 \in 1..MaxVersions
    BY <1>0
  <2>2. Adds(1)
    BY <1>1 DEF CreateDocument, Adds, Wants, Creates
  <2> QED
    BY <2>1, <2>2
<1>2. CASE CreateVersion
  BY <1>2 DEF CreateVersion, Adds, Wants
<1>3. CASE Reprocess
  <2>1. PICK v \in DOMAIN versions : Adds(v)
    BY <1>3 DEF Reprocess, Adds, Wants
  <2> QED
    BY <1>0, <2>1
<1>4. CASE DeleteDocument
  <2>1. Active \in DOMAIN generations /\ 0 \notin DOMAIN versions
    BY ActiveIs, Domains DEF RowsInv
  <2>2. Purges(Active, 0) = [v \in DOMAIN versions |->
                               Job("purge", v, Active, Scope(Active, v), FALSE)]
    BY <2>1 DEF Purges
  <2>3. Purges(Active, 0) \in PurgeJobs
    BY <2>1, PurgesAllowed
  <2> QED
    BY <1>4, <2>2, <2>3 DEF DeleteDocument, Deletes
<1>5. CASE DeleteCollection
  <2>1. jobs' = Cancelled \o <<>>
    BY <1>5, CancelledRows, ConcatEmptySeq DEF DeleteCollection
  <2>2. <<>> \in PurgeJobs
    BY DEF PurgeJobs
  <2> QED
    BY <1>5, <2>1, <2>2 DEF DeleteCollection, Deletes
<1>6. ASSUME NEW j \in DOMAIN jobs, Replay(j) \/ Expire(j) PROVE Kind
  BY <1>0, <1>6
<1>7. ASSUME NEW w \in Workers,
             \/ Claim(w) \/ HandlerStep(w) \/ Abandon(w) \/ Start(w) \/ Crash(w)
             \/ \E outcome \in {"retry", "failed"} : HandlerFails(w, outcome)
      PROVE  Kind
  BY <1>7, HandlerKinds DEF Quiet
<1>8. ASSUME NEW g \in DOMAIN generations,
             Verify(g) \/ AbandonCandidate(g) \/ Cutover(g)
      PROVE  Kind
  <2>1. Commands(g)
    BY <1>8 DEF Commands, Verify, AbandonCandidate, Cutover, Moves
  <2> QED
    BY <1>0, <2>1
<1>9. ASSUME NEW g \in DOMAIN generations, CutoverUnderApi(g) PROVE Kind
  <2>1. Moves(g) /\ UNCHANGED <<current, mats, apiFrame>>
    BY <1>9 DEF CutoverUnderApi, Moves
  <2>2. CASE \E v \in 1..MaxVersions : (Replaces(v) \/ Reopens(v)) /\ ParseUnbound(v)
    BY <1>0, <2>1, <2>2 DEF AddsUnbound
  <2>3. ASSUME Tombstone, NEW first \in DOMAIN versions, jobs' = Cancelled \o Purges(g, first)
        PROVE  Kind
    BY <2>1, <2>3, PurgesAllowed DEF Deletes
  <2> QED
    BY <1>9, <2>2, <2>3 DEF CutoverUnderApi, Purges
<1> QED
  BY <1>1, <1>2, <1>3, <1>4, <1>5, <1>6, <1>7, <1>8, <1>9 DEF RebuildNext, Next

\* What the operator's commands do to the generations.
SameGeneration(old, new) == new.head = old.head /\ new.source = old.source

LEMMA SetStatusRows ==
  ASSUME RowsInv, NEW g \in 1..Len(generations), NEW status \in {"verified", "failed"},
         generations' = SetStatus(g, status)
  PROVE  /\ generations' \in Seq(GenRec) /\ Len(generations') = Len(generations)
         /\ \A h \in 1..Len(generations) : h # g => generations'[h] = generations[h]
         /\ SameGeneration(generations[g], generations'[g]) /\ generations'[g].status = status
<1> DEFINE e == [generations[g] EXCEPT !.status = status]
<1>1. e \in GenRec /\ SameGeneration(generations[g], e) /\ e.status = status
  BY Domains DEF RowsInv, GenRec, SameGeneration
<1>2. generations' = [generations EXCEPT ![g] = e]
  BY Domains DEF SetStatus, RowsInv
<1> HIDE DEF e
<1> QED
  BY <1>1, <1>2, SeqExcept DEF RowsInv, RagTypes

LEMMA MovesRows ==
  ASSUME RowsInv, NEW g \in 1..Len(generations), Moves(g)
  PROVE  /\ g # Active /\ generations[g].status \in {"verified", "retired"} /\ doc = "active"
         /\ generations' \in Seq(GenRec) /\ Len(generations') = Len(generations)
         /\ \A h \in 1..Len(generations) : h # g /\ h # Active => generations'[h] = generations[h]
         /\ SameGeneration(generations[g], generations'[g]) /\ generations'[g].status = "active"
         /\ SameGeneration(generations[Active], generations'[Active]) /\ generations'[Active].status = "retired"
<1> DEFINE a == Active
<1>1. a \in 1..Len(generations) /\ generations[a].status = "active"
  BY ActiveIs DEF RowsInv
<1>2. generations[g].status \in {"verified", "retired"} /\ doc = "active" /\ MoveHead(g)
  BY DEF Moves, Promote, Rollback, Verifiable
<1> HIDE DEF a
<1>3. PICK e : e = [generations[a] EXCEPT !.status = "retired"]
  OBVIOUS
<1>4. PICK f : f = [generations[g] EXCEPT !.status = "active"]
  OBVIOUS
<1>5. e \in GenRec /\ SameGeneration(generations[a], e) /\ e.status = "retired"
  BY <1>1, <1>3, Domains DEF RowsInv, GenRec, SameGeneration
<1>6. f \in GenRec /\ SameGeneration(generations[g], f) /\ f.status = "active"
  BY <1>4, Domains DEF RowsInv, GenRec, SameGeneration
<1>7. PICK s : s = [generations EXCEPT ![a] = e]
  OBVIOUS
<1>8. s \in Seq(GenRec) /\ Len(s) = Len(generations) /\ s[a] = e
      /\ \A h \in 1..Len(generations) : h # a => s[h] = generations[h]
  BY <1>1, <1>5, <1>7, SeqExcept DEF RowsInv, RagTypes
<1>9. generations' = [s EXCEPT ![g] = f]
  BY <1>1, <1>2, <1>3, <1>4, <1>7, <1>8, Domains DEF MoveHead, RowsInv, a
<1>10. /\ generations' \in Seq(GenRec) /\ Len(generations') = Len(s) /\ generations'[g] = f
       /\ \A h \in 1..Len(s) : h # g => generations'[h] = s[h]
  BY <1>6, <1>8, <1>9, SeqExcept
<1> QED
  BY <1>1, <1>2, <1>5, <1>6, <1>8, <1>10 DEF a

-----------------------------------------------------------------------------
(* What any step may do to the rows.                                         *)

\* A candidate generation, also one that was abandoned.
Unserved == {"building", "verified", "failed"}

GensMove ==
  /\ generations' \in Seq(GenRec) /\ Len(generations') \in Nat /\ Len(generations) <= Len(generations')
  /\ \A g \in 1..Len(generations) :
       /\ \/ generations'[g].head = generations[g].head
          \/ \E w \in Workers : Published(w) /\ g = Mine(w).gen
       /\ generations'[g].status \in Unserved => generations[g].status \in Unserved
  /\ \A g \in 1..Len(generations') : g \notin 1..Len(generations) => generations'[g].head = 0
  /\ OneActive' /\ OneCandidate'

LEMMA GensMoves ==
  ASSUME RowsInv, JobInv, ClaimInv, RebuildNext
  PROVE  GensMove
<1>0. /\ OneActive /\ OneCandidate /\ Len(generations) \in Nat /\ generations \in Seq(GenRec)
      /\ DOMAIN generations = 1..Len(generations)
      /\ Active \in 1..Len(generations) /\ generations[Active].status = "active"
      /\ \A g \in 1..Len(generations) : generations[g].status = "active" => g = Active
  BY Domains, ActiveIs DEF RowsInv, RagTypes
<1>1. ASSUME UNCHANGED generations PROVE GensMove
  <2>1. OneActive' /\ OneCandidate'
    BY <1>0, <1>1 DEF OneActive, OneCandidate, Candidates
  <2> QED
    BY <1>0, <1>1, <2>1 DEF GensMove
<1>2. ASSUME generations' \in Seq(GenRec), Len(generations') = Len(generations)
      PROVE  DOMAIN generations' = 1..Len(generations)
  BY <1>2, LenProperties
<1>3. ASSUME NEW g \in 1..Len(generations), Moves(g) PROVE GensMove
  <2>1. /\ g # Active /\ generations[g].status \in {"verified", "retired"}
        /\ generations' \in Seq(GenRec) /\ Len(generations') = Len(generations)
        /\ \A h \in 1..Len(generations) : h # g /\ h # Active => generations'[h] = generations[h]
        /\ generations'[g].head = generations[g].head /\ generations'[g].status = "active"
        /\ generations'[Active].head = generations[Active].head /\ generations'[Active].status = "retired"
    BY <1>3, MovesRows DEF SameGeneration
  <2> DEFINE a == Active
  <2> HIDE DEF a
  <2>2. \A h \in 1..Len(generations) : generations'[h].status = "active" <=> h = g
    BY <1>0, <2>1
  <2>3. OneActive'
    BY <2>1, <2>2 DEF OneActive
  <2>4. \A h \in 1..Len(generations) :
          generations'[h].status \in {"building", "verified"} => generations'[h] = generations[h]
    BY <1>0, <2>1
  <2>5. OneCandidate'
    BY <1>0, <1>2, <2>1, <2>4 DEF OneCandidate, Candidates
  <2>6. \A h \in 1..Len(generations) :
          /\ generations'[h].head = generations[h].head
          /\ generations'[h].status \in Unserved => generations[h].status \in Unserved
    BY <1>0, <2>1 DEF Unserved
  <2> QED
    BY <1>0, <2>1, <2>3, <2>5, <2>6 DEF GensMove
<1>4. ASSUME NEW g \in 1..Len(generations), Verify(g) \/ AbandonCandidate(g) PROVE GensMove
  <2>1. generations[g].status \in {"building", "verified"}
    BY <1>4 DEF Verify, AbandonCandidate, Verifiable, Candidates
  <2>2. PICK status \in {"verified", "failed"} : generations' = SetStatus(g, status)
    BY <1>4 DEF Verify, AbandonCandidate
  <2>3. /\ generations' \in Seq(GenRec) /\ Len(generations') = Len(generations)
        /\ \A h \in 1..Len(generations) : h # g => generations'[h] = generations[h]
        /\ generations'[g].head = generations[g].head /\ generations'[g].status = status
    BY <2>2, SetStatusRows DEF SameGeneration
  <2>4. \A h \in 1..Len(generations) : generations'[h].status = "active" <=> generations[h].status = "active"
    BY <2>1, <2>3
  <2>5. OneActive'
    <3>1. PICK k \in 1..Len(generations) :
            \A h \in 1..Len(generations) : generations[h].status = "active" <=> h = k
      BY <1>0 DEF OneActive
    <3>2. \A h \in 1..Len(generations) : generations'[h].status = "active" <=> h = k
      BY <2>4, <3>1
    <3> QED
      BY <2>3, <3>1, <3>2 DEF OneActive
  <2>6. \A h \in 1..Len(generations) :
          generations'[h].status \in {"building", "verified"} => generations[h].status \in {"building", "verified"}
    BY <2>1, <2>3
  <2>7. OneCandidate'
    BY <1>0, <1>2, <2>3, <2>6 DEF OneCandidate, Candidates
  <2>8. \A h \in 1..Len(generations) :
          /\ generations'[h].head = generations[h].head
          /\ generations'[h].status \in Unserved => generations[h].status \in Unserved
    BY <2>1, <2>3 DEF Unserved
  <2> QED
    BY <1>0, <2>3, <2>5, <2>7, <2>8 DEF GensMove
<1>5. ASSUME Begin PROVE GensMove
  <2>1. PICK r : r = [status |-> "building", source |-> Active, head |-> 0]
    OBVIOUS
  <2>2. r \in GenRec /\ generations' = Append(generations, r) /\ Candidates = {}
        /\ r.head = 0 /\ r.status = "building"
    BY <1>0, <1>5, <2>1 DEF Begin, GenRec
  <2>3. /\ generations' \in Seq(GenRec) /\ Len(generations') = Len(generations) + 1
        /\ \A g \in 1..Len(generations) : generations'[g] = generations[g]
        /\ generations'[Len(generations) + 1] = r
    BY <1>0, <2>2, AppendProperties
  <2>4. DOMAIN generations' = 1..Len(generations')
    BY <2>3, LenProperties
  <2>5. \A g \in 1..Len(generations') : g \in 1..Len(generations) \/ g = Len(generations) + 1
    BY <1>0, <2>3
  <2>6. OneActive'
    <3>1. PICK a \in 1..Len(generations) :
            \A h \in 1..Len(generations) : generations[h].status = "active" <=> h = a
      BY <1>0 DEF OneActive
    <3>2. a \in 1..Len(generations') /\ a # Len(generations) + 1
      BY <1>0, <2>3
    <3>3. \A h \in 1..Len(generations') : generations'[h].status = "active" <=> h = a
      BY <2>2, <2>3, <2>5, <3>1, <3>2
    <3> QED
      BY <3>2, <3>3 DEF OneActive
  <2>7. OneCandidate'
    <3>1. \A g \in Candidates' : g = Len(generations) + 1
      BY <1>0, <2>2, <2>3, <2>4, <2>5 DEF Candidates
    <3> QED
      BY <3>1 DEF OneCandidate
  <2>8. Len(generations') \in Nat /\ Len(generations) <= Len(generations')
    BY <1>0, <2>3
  <2> QED
    BY <2>2, <2>3, <2>5, <2>6, <2>7, <2>8 DEF GensMove
<1>6. ASSUME NEW w \in Workers, Published(w) PROVE GensMove
  <2> DEFINE n == Mine(w).gen
  <2>1. /\ n \in 1..Len(generations) /\ generations' \in Seq(GenRec) /\ Len(generations') = Len(generations)
        /\ \A i \in 1..Len(generations) : i # n => generations'[i] = generations[i]
        /\ generations'[n].status = generations[n].status
    BY <1>6, PublishedRows
  <2> HIDE DEF n
  <2>2. \A h \in 1..Len(generations) : generations'[h].status = generations[h].status
    BY <2>1
  <2>3. OneActive'
    BY <1>0, <2>1, <2>2 DEF OneActive
  <2>4. OneCandidate'
    BY <1>0, <1>2, <2>1, <2>2 DEF OneCandidate, Candidates
  <2>5. \A g \in 1..Len(generations) : generations'[g].head = generations[g].head \/ g = Mine(w).gen
    BY <2>1 DEF n
  <2> QED
    BY <1>0, <1>6, <2>1, <2>2, <2>3, <2>4, <2>5 DEF GensMove
<1>7. ASSUME NEW w \in Workers, Claim(w) \/ Ends(w) \/ PartDone(w) \/ ParseCompleted(w) \/ PurgeAsserted(w)
                               \/ Quiet(w)
      PROVE  UNCHANGED generations
  <2> USE DEF finishFrame, workFrame, documentVars
  <2>1. CASE Claim(w) \/ Ends(w) \/ ParseCompleted(w) \/ PurgeAsserted(w)
    BY <2>1 DEF Claim, Ends, ParseCompleted, PurgeAsserted
  <2>2. CASE PartDone(w)
    BY <2>2 DEF PartDone, SourceRead, RowsStaged, RowsFetched, VectorStaged, RowsPurged
  <2>3. CASE Quiet(w)
    BY <2>3 DEF Quiet, Abandon, Start, Crash
  <2> QED
    BY <1>7, <2>1, <2>2, <2>3
<1>8. ASSUME \/ \E v \in 1..MaxVersions : Adds(v)
             \/ \E j \in 1..Len(jobs) : Replay(j) \/ Expire(j)
             \/ DropLock
      PROVE  UNCHANGED generations
  BY <1>8 DEF Adds, Replay, Expire, DropLock, documentVars
<1>9. ASSUME \E v \in 1..MaxVersions, g \in 1..Len(generations) : AddsUnbound(v, g) PROVE GensMove
  BY <1>3, <1>9 DEF AddsUnbound
<1>10. ASSUME Deletes PROVE GensMove
  BY <1>0, <1>1, <1>3, <1>10 DEF Deletes
<1>11. ASSUME NEW g \in 1..Len(generations), Commands(g) PROVE GensMove
  BY <1>3, <1>4, <1>11 DEF Commands
<1> QED
  BY <1>1, <1>5, <1>6, <1>7, <1>8, <1>9, <1>10, <1>11, Kinds

\* The document is kept, but for versions that fail or are tried again; or it is
\* created, replaced, deleted or published.
DocKept ==
  /\ doc' = doc /\ current' = current /\ Len(versions') = Len(versions)
  /\ \A v \in 1..Len(versions) :
       \/ versions'[v] = versions[v]
       \/ {versions[v], versions'[v]} \subseteq {"uploaded", "failed"}
DocCreated ==
  /\ doc = "none" /\ doc' = "processing" /\ current' = current
  /\ Len(versions') = 1 /\ versions'[1] = "uploaded"
DocReplaced ==
  /\ doc = "active" /\ doc' = doc /\ current' = current /\ Len(versions') = Len(versions) + 1
  /\ \A v \in 1..Len(versions) : versions'[v] = versions[v]
  /\ versions'[Len(versions) + 1] = "uploaded"
DocDeleted ==
  /\ doc \in {"processing", "active"} /\ doc' = "tombstoned" /\ current' = current
  /\ Len(versions') = Len(versions) /\ \A v \in 1..Len(versions) : versions'[v] = "tombstoned"
DocPublished == \E v \in 1..Len(versions) :
  /\ \E w \in Workers : Published(w) /\ Mine(w).version = v
  /\ Wanted(v) /\ doc' = "active" /\ current' = v /\ Len(versions') = Len(versions)
  /\ \A u \in 1..Len(versions) : versions'[u] =
       IF u = v THEN "active" ELSE IF u = current /\ versions[u] = "active" THEN "tombstoned" ELSE versions[u]
DocMove ==
  /\ versions' \in Seq(VersionStatus) /\ Len(versions') \in Nat /\ Len(versions') <= MaxVersions
  /\ DocKept \/ DocCreated \/ DocReplaced \/ DocDeleted \/ DocPublished

\* A version that is reopened exists.
LEMMA ReopensRows ==
  ASSUME RowsInv, NEW v, Reopens(v)
  PROVE  /\ v \in 1..Len(versions) /\ doc' = doc
         /\ versions' \in Seq(VersionStatus) /\ Len(versions') = Len(versions)
         /\ \A u \in 1..Len(versions) :
              versions'[u] = IF u = v /\ versions[u] = "failed" THEN "uploaded" ELSE versions[u]
<1>0. /\ DOMAIN versions = 1..Len(versions) /\ Len(versions) \in Nat /\ versions \in Seq(VersionStatus)
      /\ current \in Nat /\ current <= Len(versions) /\ \A u \in 1..Len(versions) : versions[u] \in VersionStatus
  BY Domains DEF RowsInv, RagTypes, RagRefs
<1>1. v \in Target
  BY DEF Reopens
<1>2. v \in 1..Len(versions)
  BY <1>0, <1>1 DEF Target, Newest
<1>3. PICK e : e = IF versions[v] = "failed" THEN "uploaded" ELSE versions[v]
  OBVIOUS
<1>4. e \in VersionStatus
  BY <1>0, <1>2, <1>3 DEF VersionStatus
<1>5. versions' = [versions EXCEPT ![v] = e] /\ doc' = doc
  BY <1>0, <1>2, <1>3 DEF Reopens
<1>6. /\ versions' \in Seq(VersionStatus) /\ Len(versions') = Len(versions) /\ versions'[v] = e
      /\ \A u \in 1..Len(versions) : u # v => versions'[u] = versions[u]
  BY <1>0, <1>2, <1>4, <1>5, SeqExcept
<1> QED
  BY <1>2, <1>3, <1>5, <1>6

LEMMA ReplacesRows ==
  ASSUME RowsInv, NEW v, Replaces(v)
  PROVE  /\ versions' \in Seq(VersionStatus) /\ Len(versions') = v
         /\ v = Len(versions) + 1 /\ v <= MaxVersions
         /\ \A u \in 1..Len(versions) : versions'[u] = versions[u]
         /\ versions'[v] = "uploaded" /\ doc' = doc /\ doc = "active"
<1>1. "uploaded" \in VersionStatus /\ versions \in Seq(VersionStatus) /\ versions' = Append(versions, "uploaded")
      /\ v = Len(versions) + 1 /\ v <= MaxVersions /\ doc' = doc /\ doc = "active"
  BY DEF VersionStatus, RowsInv, RagTypes, Replaces
<1>2. /\ versions' \in Seq(VersionStatus) /\ Len(versions') = v
      /\ \A u \in 1..Len(versions) : versions'[u] = versions[u]
      /\ versions'[v] = "uploaded"
  BY <1>1, AppendProperties
<1> QED
  BY <1>1, <1>2

LEMMA DocMoves ==
  ASSUME RowsInv, DocInv, JobInv, ClaimInv, RebuildNext
  PROVE  DocMove
<1>0. /\ DOMAIN versions = 1..Len(versions) /\ Len(versions) \in Nat /\ versions \in Seq(VersionStatus)
      /\ Len(versions) <= MaxVersions /\ \A u \in 1..Len(versions) : versions[u] \in VersionStatus
      /\ MaxVersions \in Nat \ {0}
  BY Domains, BoundsAssumption DEF RowsInv, RagTypes
<1>1. ASSUME UNCHANGED <<doc, current, versions>> PROVE DocMove
  BY <1>0, <1>1 DEF DocMove, DocKept
<1>2. ASSUME NEW S, versions' = FailVersions(S), UNCHANGED <<doc, current>> PROVE DocMove
  <2>1. /\ versions' \in Seq(VersionStatus) /\ Len(versions') = Len(versions)
        /\ \A v \in 1..Len(versions) : versions'[v] =
             IF v \in S /\ versions[v] = "uploaded" THEN "failed" ELSE versions[v]
    BY <1>2, FailVersionsRows DEF RowsInv
  <2> QED
    BY <1>0, <1>2, <2>1 DEF DocMove, DocKept
<1>3. ASSUME NEW v, Replaces(v) \/ Reopens(v), UNCHANGED current PROVE DocMove
  <2>1. CASE Replaces(v)
    BY <1>0, <1>3, <2>1, ReplacesRows DEF DocMove, DocReplaced
  <2>2. CASE Reopens(v)
    <3>1. /\ doc' = doc /\ versions' \in Seq(VersionStatus) /\ Len(versions') = Len(versions)
          /\ \A u \in 1..Len(versions) :
               versions'[u] = IF u = v /\ versions[u] = "failed" THEN "uploaded" ELSE versions[u]
      BY <2>2, ReopensRows
    <3>2. DocKept
      BY <1>3, <3>1 DEF DocKept
    <3> QED
      BY <1>0, <3>1, <3>2 DEF DocMove
  <2> QED
    BY <1>3, <2>1, <2>2
<1>4. ASSUME NEW v, Creates(v), UNCHANGED current PROVE DocMove
  <2>1. versions' = <<"uploaded">> /\ doc = "none" /\ doc' = "processing"
    BY <1>4 DEF Creates
  <2>2. versions' \in Seq(VersionStatus) /\ Len(versions') = 1 /\ versions'[1] = "uploaded"
    BY <2>1 DEF VersionStatus
  <2> QED
    BY <1>0, <1>4, <2>1, <2>2 DEF DocMove, DocCreated
<1>5. ASSUME Tombstone, UNCHANGED current PROVE DocMove
  <2>1. versions' = [v \in 1..Len(versions) |-> "tombstoned"]
    BY <1>0, <1>5 DEF Tombstone
  <2>2. versions' \in [1..Len(versions) -> VersionStatus]
    BY <2>1 DEF VersionStatus
  <2>3. versions' \in Seq(VersionStatus) /\ Len(versions') = Len(versions)
    BY <1>0, <2>2, SeqOfFunction
  <2>4. DocDeleted
    BY <1>5, <2>1, <2>3 DEF DocDeleted, Tombstone
  <2> QED
    BY <1>0, <2>3, <2>4 DEF DocMove
<1>6. ASSUME NEW w \in Workers, Published(w) PROVE DocMove
  <2> DEFINE v == Mine(w).version
  <2>1. /\ v \in 1..Len(versions) /\ Wanted(v) /\ doc' = "active" /\ current' = v
        /\ versions' \in Seq(VersionStatus) /\ Len(versions') = Len(versions)
        /\ \A u \in 1..Len(versions) : versions'[u] =
              IF u = v THEN "active" ELSE IF u = current /\ versions[u] = "active" THEN "tombstoned" ELSE versions[u]
    BY <1>6, PublishedRows
  <2>2. \E x \in Workers : Published(x) /\ Mine(x).version = v
    BY <1>6
  <2> HIDE DEF v
  <2>3. DocPublished
    BY <2>1, <2>2 DEF DocPublished
  <2> QED
    BY <1>0, <2>1, <2>3 DEF DocMove
<1>7. ASSUME NEW w \in Workers, NEW outcome \in {"succeeded", "failed", "retry"}, worker[w] # Idle,
             Finish(w, outcome), UNCHANGED finishFrame
      PROVE  DocMove
  <2>1. versions' = versions \/ versions' = FailVersions({jobs[worker[w].job].version})
    BY <1>7, FinishRows
  <2> QED
    BY <1>1, <1>2, <1>7, <2>1 DEF finishFrame
<1>8. ASSUME NEW w \in Workers, Claim(w) \/ Ends(w) \/ ParseCompleted(w) \/ PurgeAsserted(w) PROVE DocMove
  <2>1. CASE Claim(w)
    BY <1>2, <2>1 DEF Claim
  <2>2. CASE Ends(w)
    BY <1>7, <2>2 DEF Ends
  <2>3. CASE ParseCompleted(w)
    BY <1>1, <2>3 DEF ParseCompleted, finishFrame
  <2>4. CASE PurgeAsserted(w)
    BY <1>7, <2>4 DEF PurgeAsserted, At
  <2> QED
    BY <1>8, <2>1, <2>2, <2>3, <2>4
<1>9. ASSUME NEW w \in Workers, PartDone(w) \/ Quiet(w) PROVE DocMove
  <2>1. CASE PartDone(w)
    BY <1>1, <2>1 DEF PartDone, SourceRead, RowsStaged, RowsFetched, VectorStaged, RowsPurged, workFrame
  <2>2. CASE Quiet(w)
    BY <1>1, <2>2 DEF Quiet, Abandon, Start, Crash, documentVars
  <2> QED
    BY <1>9, <2>1, <2>2
<1>10. ASSUME \/ \E j \in 1..Len(jobs) : Replay(j) \/ Expire(j)
              \/ DropLock \/ Begin \/ \E g \in 1..Len(generations) : Commands(g)
       PROVE  DocMove
  BY <1>1, <1>10 DEF Replay, Expire, DropLock, Begin, Commands, documentVars, rebuildFrame, commandFrame
<1>11. ASSUME NEW v \in 1..MaxVersions, Adds(v) \/ \E g \in 1..Len(generations) : AddsUnbound(v, g)
       PROVE  DocMove
  BY <1>3, <1>4, <1>11 DEF Adds, AddsUnbound, Wants
<1>12. ASSUME Deletes PROVE DocMove
  BY <1>5, <1>12 DEF Deletes
<1> QED
  BY <1>6, <1>8, <1>9, <1>10, <1>11, <1>12, Kinds

\* A version that the API wants processed exists, in a document that lives.
LEMMA WantsRows ==
  ASSUME RowsInv, DocInv, NEW v, Wants(v)
  PROVE  /\ v \in 1..Len(versions') /\ doc # "tombstoned" /\ doc' # "tombstoned" /\ doc' # "none"
         /\ versions'[v] = "uploaded" \/ (versions'[v] = "active" /\ v = current /\ doc = "active")
<1>1. CASE Creates(v)
  <2>1. versions' = <<"uploaded">> /\ v = 1 /\ doc = "none" /\ doc' = "processing"
    BY <1>1 DEF Creates
  <2> QED
    BY <2>1
<1>2. CASE Replaces(v)
  <2>1. v = Len(versions) + 1 /\ Len(versions') = v /\ versions'[v] = "uploaded" /\ doc' = doc /\ doc = "active"
    BY <1>2, ReplacesRows
  <2> QED
    BY <2>1, Domains DEF RowsInv
<1>3. CASE Reopens(v)
  <2>1. /\ v \in 1..Len(versions) /\ Len(versions') = Len(versions) /\ doc' = doc
        /\ versions'[v] = IF versions[v] = "failed" THEN "uploaded" ELSE versions[v]
    BY <1>3, ReopensRows
  <2>2. doc \in {"processing", "active"}
    BY <1>3 DEF Reopens
  <2>3. versions[v] = "failed" \/ v = current
    BY <1>3 DEF Reopens, Target, Newest
  <2>4. versions[v] = "failed" \/ (versions[v] = "active" /\ v = current /\ doc = "active")
    BY <2>1, <2>2, <2>3 DEF DocInv
  <2> QED
    BY <2>1, <2>2, <2>4
<1> QED
  BY <1>1, <1>2, <1>3 DEF Wants

MatsMove ==
  /\ mats' \in Seq(MatRec) /\ Len(mats') \in Nat /\ Len(mats) <= Len(mats')
  /\ \A m \in 1..Len(mats) :
       /\ mats'[m].version = mats[m].version /\ mats'[m].gen = mats[m].gen
       /\ mats'[m].status = mats[m].status \/ \E w \in Workers : Published(w) /\ m = Mine(w).mat
       /\ \A c \in Chunks : \/ mats'[m].rows[c] = mats[m].rows[c]
                            \/ \E w \in Workers : PartDone(w) /\ RowMoves(w, m, c)
  /\ \A m \in 1..Len(mats') : m \notin 1..Len(mats) =>
       /\ mats'[m].status = "staging" /\ doc # "tombstoned" /\ doc' # "tombstoned"
       /\ mats'[m].version \in 1..Len(versions') /\ mats'[m].gen \in 1..Len(generations')
       /\ generations'[mats'[m].gen].status = "active" \/ versions'[mats'[m].version] = "active"

LEMMA MatsMoves ==
  ASSUME RowsInv, DocInv, JobInv, ClaimInv, RebuildNext
  PROVE  MatsMove
<1>0. /\ Len(mats) \in Nat /\ mats \in Seq(MatRec) /\ Len(generations) \in Nat
      /\ Active \in 1..Len(generations) /\ generations[Active].status = "active"
      /\ MaxVersions \in Nat \ {0} /\ Len(versions) \in Nat /\ Len(versions) <= MaxVersions
  BY Domains, ActiveIs, BoundsAssumption DEF RowsInv, RagTypes
<1>1. ASSUME UNCHANGED mats PROVE MatsMove
  BY <1>0, <1>1 DEF MatsMove
<1>2. ASSUME NEW v \in 1..MaxVersions, NEW g \in Nat, Allocate(v, g),
             doc # "tombstoned", doc' # "tombstoned",
             v \in 1..Len(versions'), g \in 1..Len(generations'),
             generations'[g].status = "active" \/ versions'[v] = "active"
      PROVE  MatsMove
  <2>1. /\ mats' \in Seq(MatRec) /\ Len(mats') = Len(mats) + 1
        /\ \A m \in 1..Len(mats) : mats'[m] = mats[m]
        /\ mats'[Len(mats) + 1].version = v /\ mats'[Len(mats) + 1].gen = g
        /\ mats'[Len(mats) + 1].status = "staging"
    BY <1>2, AllocateRows
  <2>2. \A m \in 1..Len(mats') : m \notin 1..Len(mats) => m = Len(mats) + 1
    BY <1>0, <2>1
  <2>3. Len(mats') \in Nat /\ Len(mats) <= Len(mats')
    BY <1>0, <2>1
  <2> QED
    BY <1>2, <2>1, <2>2, <2>3 DEF MatsMove
<1>3. ASSUME NEW v \in 1..MaxVersions, Adds(v) PROVE MatsMove
  <2>1. Allocate(v, Active) /\ UNCHANGED generations /\ Wants(v)
    BY <1>3 DEF Adds, Parse
  <2> QED
    BY <1>0, <1>2, <2>1, WantsRows
<1>4. ASSUME Begin PROVE MatsMove
  <2> DEFINE g == Len(generations) + 1
  <2>1. Allocate(current, g) /\ doc = "active" /\ doc' = doc /\ versions' = versions
    BY <1>4 DEF Begin, rebuildFrame
  <2>2. current \in 1..Len(versions) /\ versions[current] = "active" /\ current \in 1..MaxVersions
    BY <1>0, <2>1 DEF DocInv, RowsInv, RagRefs, RagTypes
  <2>3. Len(generations') = g /\ g \in 1..Len(generations') /\ g \in Nat
    <3>1. PICK r : r = [status |-> "building", source |-> Active, head |-> 0]
      OBVIOUS
    <3>2. r \in GenRec
      BY <1>0, <3>1 DEF GenRec
    <3>3. Len(generations') = Len(generations) + 1
      BY <1>4, <3>1, <3>2, AppendProperties DEF Begin, RowsInv, RagTypes
    <3> QED
      BY <1>0, <3>3
  <2> QED
    BY <1>2, <2>1, <2>2, <2>3
<1>5. ASSUME NEW w \in Workers, Published(w) PROVE MatsMove
  <2> DEFINE n == Mine(w).mat
  <2>1. /\ n \in 1..Len(mats) /\ mats' \in Seq(MatRec) /\ Len(mats') = Len(mats)
        /\ \A i \in 1..Len(mats) : i # n => mats'[i] = mats[i]
        /\ mats'[n].version = mats[n].version /\ mats'[n].gen = mats[n].gen /\ mats'[n].rows = mats[n].rows
    BY <1>5, PublishedRows
  <2> HIDE DEF n
  <2>2. \A m \in 1..Len(mats) :
          /\ mats'[m].version = mats[m].version /\ mats'[m].gen = mats[m].gen
          /\ mats'[m].status = mats[m].status \/ m = n
          /\ mats'[m].rows = mats[m].rows
    BY <2>1
  <2>3. \A m \in 1..Len(mats) : mats'[m].status = mats[m].status \/ \E x \in Workers : Published(x) /\ m = Mine(x).mat
    BY <1>5, <2>2 DEF n
  <2> QED
    BY <1>0, <2>1, <2>2, <2>3 DEF MatsMove
<1>6. ASSUME NEW w \in Workers, PartDone(w) PROVE MatsMove
  BY <1>0, <1>6, PartDoneMats DEF MatsMove
<1>7. ASSUME NEW w \in Workers, Claim(w) \/ Ends(w) \/ ParseCompleted(w) \/ PurgeAsserted(w) \/ Quiet(w)
      PROVE  UNCHANGED mats
  BY <1>7 DEF Claim, Ends, ParseCompleted, PurgeAsserted, Quiet, Abandon, Start, Crash, finishFrame
<1>8. ASSUME \/ \E j \in 1..Len(jobs) : Replay(j) \/ Expire(j)
             \/ DropLock \/ Deletes
             \/ \E g \in 1..Len(generations) : Commands(g) \/ \E v \in 1..MaxVersions : AddsUnbound(v, g)
      PROVE  UNCHANGED mats
  BY <1>8 DEF Replay, Expire, DropLock, Deletes, Commands, AddsUnbound, commandFrame
<1> QED
  BY <1>1, <1>3, <1>4, <1>5, <1>6, <1>7, <1>8, Kinds

\* Nothing deletes a document but a deletion.
LEMMA OnlyDeletes ==
  ASSUME RowsInv, RebuildNext, doc # "tombstoned", doc' = "tombstoned"
  PROVE  Deletes
<1> USE DEF documentVars, finishFrame, workFrame, rebuildFrame, commandFrame
<1>1. ASSUME NEW w \in Workers,
             \/ Claim(w) \/ Ends(w) \/ ParseCompleted(w) \/ Published(w) \/ PurgeAsserted(w) \/ Quiet(w)
      PROVE  FALSE
  BY <1>1 DEF Claim, Ends, ParseCompleted, Published, PurgeAsserted, Quiet, Abandon, Start, Crash
<1>2. ASSUME NEW w \in Workers, PartDone(w) PROVE FALSE
  BY <1>2 DEF PartDone, SourceRead, RowsStaged, RowsFetched, VectorStaged, RowsPurged
<1>3. ASSUME \/ \E j \in 1..Len(jobs) : Replay(j) \/ Expire(j)
             \/ DropLock \/ Begin \/ \E g \in 1..Len(generations) : Commands(g)
      PROVE  FALSE
  BY <1>3 DEF Replay, Expire, DropLock, Begin, Commands
<1>4. ASSUME NEW v \in 1..MaxVersions, Adds(v) \/ \E g \in 1..Len(generations) : AddsUnbound(v, g) PROVE FALSE
  BY <1>4 DEF Adds, AddsUnbound, Wants, Creates, Replaces, Reopens
<1> QED
  BY <1>1, <1>2, <1>3, <1>4, Kinds

\* A job keeps what it is about; one that ended stays as it ended.
KeptJob(j) ==
  /\ SameJob(jobs[j], jobs'[j])
  /\ jobs[j].status \notin Live => jobs'[j] = jobs[j]
  /\ jobs'[j].lease => jobs'[j].status = "processing"
  /\ jobs'[j].stage = "purge" /\ jobs'[j].status = "succeeded" /\ jobs[j].status # "succeeded" =>
       \E w \in Workers : PurgeAsserted(w) /\ worker[w].job = j
NewJob(j) ==
  /\ jobs'[j].status = "pending" /\ ~jobs'[j].lease
  /\ jobs'[j].version \in 1..Len(versions') /\ jobs'[j].gen <= Len(generations') /\ jobs'[j].mat <= Len(mats')
  /\ jobs'[j].stage = "purge" => doc' = "tombstoned"
  /\ jobs'[j].stage # "purge" /\ Bound(jobs'[j]) =>
       /\ jobs'[j].mat \in 1..Len(mats')
       /\ mats'[jobs'[j].mat].version = jobs'[j].version /\ mats'[jobs'[j].mat].gen = jobs'[j].gen
JobsMove ==
  /\ jobs' \in Seq(JobRec) /\ Len(jobs') \in Nat /\ Len(jobs) <= Len(jobs')
  /\ \A j \in 1..Len(jobs) : KeptJob(j)
  /\ \A j \in 1..Len(jobs') : j \notin 1..Len(jobs) => NewJob(j)

\* The rows of a document only become more.
Growing ==
  /\ Len(versions) \in Nat /\ Len(versions') \in Nat /\ Len(versions) <= Len(versions')
  /\ Len(generations) \in Nat /\ Len(generations') \in Nat /\ Len(generations) <= Len(generations')
  /\ Len(mats) \in Nat /\ Len(mats') \in Nat /\ Len(mats) <= Len(mats')
  /\ \A m \in 1..Len(mats) : mats'[m].version = mats[m].version /\ mats'[m].gen = mats[m].gen

LEMMA Grows ==
  ASSUME RowsInv, DocInv, JobInv, ClaimInv, RebuildNext
  PROVE  Growing
<1>1. Len(versions) \in Nat /\ Len(generations) \in Nat /\ Len(mats) \in Nat
  BY Domains DEF RowsInv
<1>2. Len(versions') \in Nat /\ Len(versions) <= Len(versions')
  BY <1>1, DocMoves DEF DocMove, DocKept, DocCreated, DocReplaced, DocDeleted, DocPublished, DocInv
<1> QED
  BY <1>1, <1>2, GensMoves, MatsMoves DEF GensMove, MatsMove, Growing

LEMMA JobsMoves ==
  ASSUME RowsInv, DocInv, JobInv, ClaimInv, RebuildNext
  PROVE  JobsMove
<1>0. /\ Len(jobs) \in Nat /\ jobs \in Seq(JobRec)
      /\ \A j \in 1..Len(jobs) : jobs[j] \in JobRec /\ (jobs[j].lease => jobs[j].status = "processing")
  BY Domains DEF RowsInv, RagTypes, RagRefs
<1>1. Growing
  BY Grows
<1>2. \A j \in 1..Len(jobs) : jobs'[j] = jobs[j] => KeptJob(j)
  BY <1>0 DEF KeptJob, SameJob
<1>3. ASSUME NEW j \in 1..Len(jobs)
       PROVE  /\ jobs[j].version \in 1..Len(versions') /\ jobs[j].gen <= Len(generations') /\ jobs[j].mat <= Len(mats')
              /\ jobs[j].stage # "purge" /\ jobs[j].gen # 0 =>
                   /\ jobs[j].mat \in 1..Len(mats')
                   /\ mats'[jobs[j].mat].version = jobs[j].version /\ mats'[jobs[j].mat].gen = jobs[j].gen
  <2>1. jobs[j].gen \in Nat /\ jobs[j].mat \in Nat
    BY <1>0 DEF JobRec
  <2>2. jobs[j].gen <= Len(generations) /\ jobs[j].mat <= Len(mats) /\ jobs[j].version \in 1..Len(versions)
    BY DEF RowsInv, RagRefs
  <2>3. jobs[j].stage # "purge" /\ jobs[j].gen # 0 =>
          /\ jobs[j].mat \in 1..Len(mats)
          /\ mats[jobs[j].mat].version = jobs[j].version /\ mats[jobs[j].mat].gen = jobs[j].gen
    BY DEF JobInv, Bound
  <2>4. \A m \in 1..Len(mats) : m \in 1..Len(mats') /\ mats'[m].version = mats[m].version /\ mats'[m].gen = mats[m].gen
    BY <1>1 DEF Growing
  <2>5. jobs[j].version \in 1..Len(versions') /\ jobs[j].gen <= Len(generations') /\ jobs[j].mat <= Len(mats')
    BY <1>1, <2>1, <2>2 DEF Growing
  <2> QED
    BY <2>3, <2>4, <2>5
<1>4. ASSUME UNCHANGED jobs PROVE JobsMove
  BY <1>0, <1>4, <1>2 DEF JobsMove
<1>5. ASSUME NEW v \in 1..MaxVersions, NEW g \in Nat, Allocate(v, g),
             v \in 1..Len(versions'), g \in 1..Len(generations')
      PROVE  JobsMove
  <2> DEFINE n == Len(jobs) + 1
  <2>1. /\ jobs' \in Seq(JobRec) /\ Len(jobs') = n
        /\ \A j \in 1..Len(jobs) : jobs'[j] = jobs[j]
        /\ jobs'[n] = Job("parse", v, g, Len(mats) + 1, FALSE)
        /\ Len(mats') = Len(mats) + 1
        /\ mats'[Len(mats) + 1].version = v /\ mats'[Len(mats) + 1].gen = g
    BY <1>5, AllocateRows
  <2>2. /\ jobs'[n].status = "pending" /\ ~jobs'[n].lease /\ jobs'[n].stage = "parse"
        /\ jobs'[n].version = v /\ jobs'[n].gen = g /\ jobs'[n].mat = Len(mats) + 1
    BY <2>1 DEF Job
  <2>3. NewJob(n)
    <3>1. Len(mats) \in Nat /\ Len(mats) + 1 \in 1..Len(mats') /\ Len(mats) + 1 <= Len(mats') /\ g <= Len(generations')
      BY <1>5, <1>1, <2>1 DEF Growing
    <3> QED
      BY <1>5, <2>1, <2>2, <3>1 DEF NewJob
  <2>4. \A j \in 1..Len(jobs') : j \notin 1..Len(jobs) => j = n
    BY <1>0, <2>1
  <2> QED
    BY <1>0, <1>2, <2>1, <2>3, <2>4 DEF JobsMove
<1>6. ASSUME NEW v \in 1..MaxVersions, Adds(v) PROVE JobsMove
  <2>1. Allocate(v, Active) /\ UNCHANGED generations /\ Wants(v)
    BY <1>6 DEF Adds, Parse
  <2>2. Active \in 1..Len(generations') /\ Active \in Nat
    BY <2>1, ActiveIs, <1>1 DEF RowsInv, Growing
  <2> QED
    BY <1>5, <2>1, <2>2, WantsRows
<1>7. ASSUME Begin PROVE JobsMove
  <2> DEFINE g == Len(generations) + 1
  <2>1. Allocate(current, g) /\ doc = "active" /\ versions' = versions
    BY <1>7 DEF Begin, rebuildFrame
  <2>2. current \in 1..Len(versions') /\ current \in 1..MaxVersions
    <3>1. current \in Nat /\ current # 0 /\ current <= Len(versions) /\ Len(versions) <= MaxVersions
      BY <2>1 DEF DocInv, RowsInv, RagRefs, RagTypes
    <3> QED
      BY <1>1, <2>1, <3>1, BoundsAssumption DEF Growing
  <2>3. mats'[Len(mats) + 1].gen = g /\ Len(mats) + 1 \in 1..Len(mats') /\ Len(mats) + 1 \notin 1..Len(mats)
    <3>1. g \in Nat
      BY <1>1 DEF Growing
    <3>2. Len(mats') = Len(mats) + 1 /\ mats'[Len(mats) + 1].gen = g
      BY <2>1, <2>2, <3>1, AllocateRows
    <3> QED
      BY <1>1, <3>2 DEF Growing
  <2>4. g \in 1..Len(generations') /\ g \in Nat
    BY <1>1, <2>3, MatsMoves DEF MatsMove, Growing
  <2> QED
    BY <1>5, <2>1, <2>2, <2>4
<1>8. ASSUME NEW job \in JobRec, jobs' = Append(jobs, job), job.status = "pending", ~job.lease,
             job.stage # "purge", job.version \in 1..Len(versions'), job.gen <= Len(generations'),
             job.mat <= Len(mats'),
             job.gen # 0 => /\ job.mat \in 1..Len(mats')
                            /\ mats'[job.mat].version = job.version /\ mats'[job.mat].gen = job.gen
      PROVE  JobsMove
  <2> DEFINE n == Len(jobs) + 1
  <2>1. /\ jobs' \in Seq(JobRec) /\ Len(jobs') = n
        /\ \A j \in 1..Len(jobs) : jobs'[j] = jobs[j]
        /\ jobs'[n] = job
    BY <1>0, <1>8, AppendJob
  <2>2. NewJob(n)
    BY <1>8, <2>1 DEF NewJob, Bound
  <2>3. \A j \in 1..Len(jobs') : j \notin 1..Len(jobs) => j = n
    BY <1>0, <2>1
  <2> QED
    BY <1>0, <1>2, <2>1, <2>2, <2>3 DEF JobsMove
<1>9. ASSUME NEW v \in 1..MaxVersions, NEW g \in 1..Len(generations), AddsUnbound(v, g) PROVE JobsMove
  <2>1. Wants(v) /\ jobs' = Append(jobs, Job("parse", v, 0, 0, FALSE))
    BY <1>9 DEF AddsUnbound, Wants, ParseUnbound
  <2>2. PICK job : job = Job("parse", v, 0, 0, FALSE)
    OBVIOUS
  <2>3. job \in JobRec
    BY <2>2, JobTyped
  <2>4. job.status = "pending" /\ ~job.lease /\ job.stage # "purge" /\ job.version = v /\ job.gen = 0 /\ job.mat = 0
    BY <2>2 DEF Job
  <2>5. v \in 1..Len(versions') /\ 0 <= Len(generations') /\ 0 <= Len(mats')
    BY <1>1, <2>1, WantsRows DEF Growing
  <2> QED
    BY <1>8, <2>1, <2>2, <2>3, <2>4, <2>5
<1>10. ASSUME NEW j \in 1..Len(jobs), Replay(j) PROVE JobsMove
  <2>1. PICK job : job = Job(jobs[j].stage, jobs[j].version, jobs[j].gen, jobs[j].mat, TRUE)
    OBVIOUS
  <2>2. jobs' = Append(jobs, job) /\ jobs[j].stage # "purge"
    BY <1>10, <2>1 DEF Replay
  <2>3. job \in JobRec
    <3>1. /\ jobs[j].stage \in {"parse", "embedding", "purge"} /\ jobs[j].version \in 1..MaxVersions
          /\ jobs[j].gen \in Nat /\ jobs[j].mat \in Nat
      BY <1>0 DEF JobRec
    <3> QED
      BY <2>1, <3>1, JobTyped
  <2>4. job.status = "pending" /\ ~job.lease /\ job.stage # "purge" /\ job.version = jobs[j].version
        /\ job.gen = jobs[j].gen /\ job.mat = jobs[j].mat
    BY <2>1, <2>2 DEF Job
  <2>5. jobs[j].version \in 1..Len(versions') /\ jobs[j].gen <= Len(generations') /\ jobs[j].mat <= Len(mats')
    BY <1>3
  <2>6. jobs[j].gen # 0 => /\ jobs[j].mat \in 1..Len(mats')
                           /\ mats'[jobs[j].mat].version = jobs[j].version
                           /\ mats'[jobs[j].mat].gen = jobs[j].gen
    BY <1>3, <2>2
  <2> QED
    BY <1>8, <2>2, <2>3, <2>4, <2>5, <2>6
<1>11. ASSUME NEW j \in 1..Len(jobs), Expire(j) PROVE JobsMove
  <2> DEFINE e == [jobs[j] EXCEPT !.lease = FALSE]
  <2>1. e \in JobRec /\ SameJob(jobs[j], e) /\ ~e.lease /\ e.status = jobs[j].status
    BY <1>0 DEF JobRec, SameJob
  <2>2. jobs' = [jobs EXCEPT ![j] = e] /\ jobs[j].lease
    BY <1>11, Domains DEF Expire, RowsInv
  <2> HIDE DEF e
  <2>3. /\ jobs' \in Seq(JobRec) /\ Len(jobs') = Len(jobs) /\ jobs'[j] = e
        /\ \A i \in 1..Len(jobs) : i # j => jobs'[i] = jobs[i]
    BY <1>0, <2>1, <2>2, SeqExcept
  <2>4. KeptJob(j)
    BY <1>0, <2>1, <2>2, <2>3 DEF KeptJob, Live
  <2> QED
    BY <1>0, <1>2, <2>3, <2>4 DEF JobsMove
<1>12. ASSUME NEW w \in Workers, Claim(w) PROVE JobsMove
  <2>1. /\ jobs' \in Seq(JobRec) /\ Len(jobs') = Len(jobs)
        /\ \A i \in 1..Len(jobs) : i \in Exhausted =>
              /\ SameJob(jobs[i], jobs'[i]) /\ jobs[i].status = "processing"
              /\ jobs'[i].status = "failed" /\ ~jobs'[i].lease
        /\ \A i \in 1..Len(jobs) : i \notin Exhausted => jobs'[i] = jobs[i] \/ Taken(i)
    BY <1>12, ClaimRows
  <2>2. \A i \in 1..Len(jobs) : KeptJob(i)
    BY <1>2, <2>1 DEF KeptJob, Live, Taken
  <2> QED
    BY <1>0, <2>1, <2>2 DEF JobsMove
<1>13. ASSUME NEW w \in Workers, worker[w] # Idle, NEW outcome \in {"succeeded", "failed", "retry"},
              Finish(w, outcome), outcome = "succeeded" => PurgeAsserted(w)
       PROVE  JobsMove
  <2> DEFINE j == worker[w].job
  <2>1. /\ j \in 1..Len(jobs) /\ jobs' \in Seq(JobRec) /\ Len(jobs') = Len(jobs)
        /\ \A i \in 1..Len(jobs) : i # j => jobs'[i] = jobs[i]
        /\ \/ jobs' = jobs
           \/ /\ Holds(w) /\ SameJob(jobs[j], jobs'[j]) /\ jobs'[j].status = "pending" /\ ~jobs'[j].lease
           \/ /\ Holds(w) /\ SameJob(jobs[j], jobs'[j]) /\ ~jobs'[j].lease
              /\ jobs'[j].status = (IF outcome = "succeeded" THEN "succeeded" ELSE "failed")
    BY <1>13, FinishRows
  <2>2. Holds(w) => jobs[j].status \in Live
    BY <1>13, MineIs
  <2>3. KeptJob(j)
    <3>1. CASE jobs' = jobs
      BY <1>2, <2>1, <3>1
    <3>2. CASE jobs' # jobs
      BY <1>13, <2>1, <2>2, <3>2 DEF KeptJob
    <3> QED
      BY <3>1, <3>2
  <2> QED
    BY <1>0, <1>2, <2>1, <2>3 DEF JobsMove
<1>14. ASSUME NEW w \in Workers, ParseCompleted(w) PROVE JobsMove
  <2> DEFINE j == worker[w].job  n == Len(jobs) + 1
  <2>1. /\ j \in 1..Len(jobs) /\ jobs' \in Seq(JobRec) /\ Len(jobs') = n
        /\ \A i \in 1..Len(jobs) : i # j => jobs'[i] = jobs[i]
        /\ SameJob(jobs[j], jobs'[j]) /\ jobs'[j].status = "succeeded" /\ ~jobs'[j].lease
        /\ jobs[j].stage = "parse" /\ jobs[j].status \in Live
        /\ jobs'[n].stage = "embedding" /\ jobs'[n].version = jobs[j].version /\ jobs'[n].gen = jobs[j].gen
        /\ jobs'[n].mat = jobs[j].mat /\ jobs'[n].status = "pending" /\ ~jobs'[n].lease
    BY <1>14, ParseCompletedRows
  <2> HIDE DEF j
  <2>2. KeptJob(j)
    BY <2>1 DEF KeptJob, SameJob
  <2>3. jobs[j].version \in 1..Len(versions') /\ jobs[j].gen <= Len(generations') /\ jobs[j].mat <= Len(mats')
    BY <1>3, <2>1
  <2>4. jobs[j].gen # 0 => /\ jobs[j].mat \in 1..Len(mats')
                           /\ mats'[jobs[j].mat].version = jobs[j].version
                           /\ mats'[jobs[j].mat].gen = jobs[j].gen
    BY <1>3, <2>1
  <2>5. NewJob(n)
    BY <2>1, <2>3, <2>4 DEF NewJob, Bound
  <2>6. \A i \in 1..Len(jobs') : i \notin 1..Len(jobs) => i = n
    BY <1>0, <2>1
  <2> QED
    BY <1>0, <1>2, <2>1, <2>2, <2>5, <2>6 DEF JobsMove
<1>15. ASSUME NEW w \in Workers, Published(w) PROVE JobsMove
  <2> DEFINE j == worker[w].job
  <2>1. /\ j \in 1..Len(jobs) /\ jobs[j].stage = "embedding" /\ jobs[j].status \in Live
        /\ jobs' \in Seq(JobRec) /\ Len(jobs') = Len(jobs)
        /\ \A i \in 1..Len(jobs) : i # j => jobs'[i] = jobs[i]
        /\ SameJob(jobs[j], jobs'[j]) /\ jobs'[j].status = "succeeded" /\ ~jobs'[j].lease
    BY <1>15, PublishedRows
  <2> HIDE DEF j
  <2>2. KeptJob(j)
    BY <2>1 DEF KeptJob, SameJob
  <2> QED
    BY <1>0, <1>2, <2>1, <2>2 DEF JobsMove
<1>16. ASSUME Deletes PROVE JobsMove
  <2>1. PICK P \in PurgeJobs : jobs' = Cancelled \o P
    BY <1>16 DEF Deletes
  <2>2. /\ jobs' \in Seq(JobRec) /\ Len(jobs) <= Len(jobs')
        /\ \A j \in 1..Len(jobs) :
             /\ jobs[j].status \notin Live => jobs'[j] = jobs[j]
             /\ jobs[j].status \in Live => /\ SameJob(jobs[j], jobs'[j]) /\ ~jobs'[j].lease
                                           /\ jobs'[j].status = "cancelled"
        /\ \A j \in 1..Len(jobs') : j \notin 1..Len(jobs) =>
             /\ jobs'[j].stage = "purge" /\ jobs'[j].version \in 1..Len(versions)
             /\ jobs'[j].gen <= Len(generations) /\ jobs'[j].mat <= Len(mats)
             /\ jobs'[j].status = "pending" /\ ~jobs'[j].lease
    BY <2>1, DeletionRows
  <2>3. \A j \in 1..Len(jobs) : KeptJob(j)
    BY <1>2, <2>2 DEF KeptJob
  <2>4. Len(jobs') \in Nat /\ \A j \in 1..Len(jobs') : jobs'[j] \in JobRec
    BY <2>2, LenProperties
  <2>5. doc' = "tombstoned"
    BY <1>16 DEF Deletes, Tombstone
  <2>6. \A j \in 1..Len(jobs') : j \notin 1..Len(jobs) => NewJob(j)
    <3> SUFFICES ASSUME NEW j \in 1..Len(jobs'), j \notin 1..Len(jobs) PROVE NewJob(j)
      OBVIOUS
    <3>1. /\ jobs'[j].stage = "purge" /\ jobs'[j].version \in 1..Len(versions)
          /\ jobs'[j].gen <= Len(generations) /\ jobs'[j].mat <= Len(mats)
          /\ jobs'[j].status = "pending" /\ ~jobs'[j].lease
      BY <2>2
    <3>2. jobs'[j].gen \in Nat /\ jobs'[j].mat \in Nat
      BY <2>4 DEF JobRec
    <3>3. jobs'[j].version \in 1..Len(versions') /\ jobs'[j].gen <= Len(generations') /\ jobs'[j].mat <= Len(mats')
      <4>1. PICK u, g, m : u = jobs'[j].version /\ g = jobs'[j].gen /\ m = jobs'[j].mat
        OBVIOUS
      <4>2. /\ Len(versions) \in Nat /\ Len(generations) \in Nat /\ Len(mats) \in Nat
            /\ Len(versions') \in Nat /\ Len(generations') \in Nat /\ Len(mats') \in Nat
            /\ Len(versions) <= Len(versions') /\ Len(generations) <= Len(generations') /\ Len(mats) <= Len(mats')
        BY <1>1 DEF Growing
      <4>3. u \in 1..Len(versions) /\ g <= Len(generations) /\ m <= Len(mats) /\ g \in Nat /\ m \in Nat
        BY <3>1, <3>2, <4>1
      <4>4. u \in 1..Len(versions') /\ g <= Len(generations') /\ m <= Len(mats')
        BY <4>2, <4>3
      <4> QED
        BY <4>1, <4>4
    <3> QED
      BY <2>5, <3>1, <3>3 DEF NewJob
  <2> QED
    BY <2>2, <2>3, <2>4, <2>6 DEF JobsMove
<1>17. ASSUME NEW w \in Workers, PartDone(w) \/ Quiet(w) PROVE UNCHANGED jobs
  BY <1>17 DEF PartDone, SourceRead, RowsStaged, RowsFetched, VectorStaged, RowsPurged, workFrame,
               Quiet, Abandon, Start, Crash
<1>18. ASSUME DropLock \/ \E g \in 1..Len(generations) : Commands(g) PROVE UNCHANGED jobs
  BY <1>18 DEF DropLock, Commands, commandFrame
<1>19. ASSUME NEW w \in Workers, Ends(w) \/ PurgeAsserted(w) PROVE JobsMove
  <2>1. CASE Ends(w)
    BY <1>13, <2>1 DEF Ends
  <2>2. CASE PurgeAsserted(w)
    <3>1. worker[w] # Idle /\ Finish(w, "succeeded")
      BY <2>2 DEF PurgeAsserted, At
    <3> QED
      BY <1>13, <2>2, <3>1
  <2> QED
    BY <1>19, <2>1, <2>2
<1> QED
  BY <1>4, <1>6, <1>7, <1>9, <1>10, <1>11, <1>12, <1>14, <1>15, <1>16, <1>17, <1>18, <1>19, Kinds

\* A worker takes a job, moves in the one it has, or lets go of it.
Takes(w) == \E j \in 1..Len(jobs) : Taken(j) /\ \E n \in 1..MaxAttempts :
  worker'[w] = [step |-> "claimed", job |-> j, attempt |-> n, todo |-> {}]
WorksOn(w) == worker[w] # Idle /\ PartDone(w) /\ \E k \in Claims : PlaceMoves(w, k) /\ worker'[w] = k
WorkersMove ==
  /\ worker' \in [Workers -> Claims \union {Idle}] /\ up' \subseteq Workers
  /\ lock' \in up' \union {None} /\ faults' \in 0..MaxFaults
  /\ \A w \in Workers :
       /\ worker'[w] # Idle => w \in up'
       /\ worker'[w] = worker[w] \/ worker'[w] = Idle \/ Takes(w) \/ WorksOn(w)

LEMMA WorkersMoves ==
  ASSUME RowsInv, JobInv, ClaimInv, RebuildNext
  PROVE  WorkersMove
<1>0. /\ worker \in [Workers -> Claims \union {Idle}] /\ up \subseteq Workers
      /\ lock \in up \union {None} /\ faults \in 0..MaxFaults /\ MaxFaults \in Nat
      /\ \A w \in Workers : worker[w] # Idle => w \in up
  BY BoundsAssumption DEF RowsInv, RagTypes, RagRefs
<1>1. Fault => faults' \in 0..MaxFaults
  BY <1>0 DEF Fault
<1>2. ASSUME UNCHANGED <<worker, up>>, lock' \in up \union {None}, faults' \in 0..MaxFaults PROVE WorkersMove
  BY <1>0, <1>2 DEF WorkersMove
<1>3. ASSUME NEW w \in Workers, NEW k \in Claims \union {Idle}, worker' = [worker EXCEPT ![w] = k],
             k # Idle => w \in up, UNCHANGED <<up, lock, faults>>,
             k = Idle \/ Takes(w) \/ WorksOn(w)
      PROVE  WorkersMove
  <2>1. worker' \in [Workers -> Claims \union {Idle}]
    BY <1>0, <1>3
  <2>2. worker'[w] = k /\ \A x \in Workers : x # w => worker'[x] = worker[x]
    BY <1>0, <1>3
  <2>3. \A x \in Workers : worker'[x] = worker[x] \/ worker'[x] = Idle \/ Takes(x) \/ WorksOn(x)
    BY <1>3, <2>2
  <2>4. \A x \in Workers : worker'[x] # Idle => x \in up'
    BY <1>0, <1>3, <2>2
  <2> QED
    BY <1>0, <1>3, <2>1, <2>3, <2>4 DEF WorkersMove
<1>4. ASSUME NEW w \in Workers, Claim(w) PROVE WorkersMove
  <2>1. w \in up /\ worker[w] = Idle /\ UNCHANGED <<up, lock, faults>>
    BY <1>4 DEF Claim
  <2>2. CASE worker' = worker
    BY <1>0, <1>2, <2>1, <2>2
  <2>3. ASSUME NEW j \in 1..Len(jobs), Taken(j), NEW n \in 1..MaxAttempts,
               worker' = [worker EXCEPT ![w] = [step |-> "claimed", job |-> j, attempt |-> n, todo |-> {}]]
        PROVE  WorkersMove
    <3>1. PICK k : k = [step |-> "claimed", job |-> j, attempt |-> n, todo |-> {}]
      OBVIOUS
    <3>2. k \in Claims
      BY <3>1 DEF Claims
    <3>3. worker' = [worker EXCEPT ![w] = k]
      BY <2>3, <3>1
    <3>4. Takes(w)
      BY <1>0, <2>3, <3>1, <3>3 DEF Takes
    <3> QED
      BY <1>3, <2>1, <3>2, <3>3, <3>4
  <2> QED
    BY <1>4, <2>2, <2>3, ClaimRows
<1>5. ASSUME NEW w \in Workers, PartDone(w) PROVE WorkersMove
  <2>1. PICK k \in Claims : PlaceMoves(w, k)
    BY <1>5, PartDonePlace
  <2>2. worker[w] # Idle /\ w \in up
    BY <1>0, <1>5, PartDoneMats
  <2>3. worker' = [worker EXCEPT ![w] = k] /\ worker'[w] = k
    BY <1>0, <2>1 DEF PlaceMoves
  <2>4. WorksOn(w)
    BY <1>5, <2>1, <2>2, <2>3 DEF WorksOn
  <2>5. UNCHANGED <<up, lock, faults>>
    BY <1>5 DEF PartDone, SourceRead, RowsStaged, RowsFetched, VectorStaged, RowsPurged, workFrame, handlerFrame
  <2> QED
    BY <1>3, <2>1, <2>2, <2>3, <2>4, <2>5
<1>6. ASSUME NEW w \in Workers, Ends(w) \/ ParseCompleted(w) \/ Published(w) \/ PurgeAsserted(w) \/ Abandon(w)
      PROVE  WorkersMove
  <2>1. worker' = [worker EXCEPT ![w] = Idle] /\ UNCHANGED <<up, lock, faults>>
    BY <1>6 DEF Ends, ParseCompleted, Published, PurgeAsserted, Abandon, Finish, Release, handlerFrame
  <2> QED
    BY <1>3, <2>1
<1>7. ASSUME NEW w \in Workers, Start(w) PROVE WorkersMove
  BY <1>0, <1>7 DEF Start, WorkersMove
<1>8. ASSUME NEW w \in Workers, Crash(w) PROVE WorkersMove
  <2>1. /\ up' = up \ {w} /\ worker' = [worker EXCEPT ![w] = Idle]
        /\ lock' = (IF lock = w THEN None ELSE lock) /\ faults' \in 0..MaxFaults
    BY <1>1, <1>8 DEF Crash, Release
  <2>2. /\ worker' \in [Workers -> Claims \union {Idle}] /\ worker'[w] = Idle
        /\ \A x \in Workers : x # w => worker'[x] = worker[x]
    BY <1>0, <2>1
  <2>3. \A x \in Workers : worker'[x] # Idle => x \in up'
    BY <1>0, <2>1, <2>2
  <2>4. \A x \in Workers : worker'[x] = worker[x] \/ worker'[x] = Idle
    BY <2>2
  <2>5. lock' \in up' \union {None} /\ up' \subseteq Workers
    BY <1>0, <2>1
  <2> QED
    BY <2>1, <2>2, <2>3, <2>4, <2>5 DEF WorkersMove
<1>9. ASSUME \/ \E v \in 1..MaxVersions : Adds(v)
             \/ \E v \in 1..MaxVersions, g \in 1..Len(generations) : AddsUnbound(v, g)
             \/ Deletes \/ Begin \/ \E g \in 1..Len(generations) : Commands(g)
             \/ \E j \in 1..Len(jobs) : Replay(j) \/ Expire(j)
             \/ DropLock
      PROVE  UNCHANGED <<worker, up>> /\ lock' \in {lock, None} /\ (faults' = faults \/ Fault)
  BY <1>9 DEF Adds, AddsUnbound, Deletes, Begin, Commands, Replay, Expire, DropLock,
              apiFrame, commandFrame, rebuildFrame
<1> QED
  BY <1>0, <1>1, <1>2, <1>4, <1>5, <1>6, <1>7, <1>8, <1>9, Kinds DEF Quiet

-----------------------------------------------------------------------------
(* Each part of the invariant is kept.                                       *)

\* What JobsMove says of the jobs that were there, field by field.
LEMMA OldJobs ==
  ASSUME RowsInv, JobsMove, NEW j \in 1..Len(jobs)
  PROVE  /\ j \in 1..Len(jobs') /\ jobs'[j].stage = jobs[j].stage /\ jobs'[j].version = jobs[j].version
         /\ jobs'[j].gen = jobs[j].gen /\ jobs'[j].mat = jobs[j].mat
         /\ jobs'[j].replay = jobs[j].replay
         /\ jobs[j].status \notin Live => jobs'[j] = jobs[j]
BY Domains DEF JobsMove, KeptJob, SameJob, RowsInv

LEMMA RowsKept ==
  ASSUME RowsInv, DocInv, JobInv, ClaimInv, RebuildNext
  PROVE  RowsInv'
<1>1. Growing /\ GensMove /\ MatsMove /\ JobsMove /\ WorkersMove /\ DocMove
  BY Grows, GensMoves, MatsMoves, JobsMoves, WorkersMoves, DocMoves
<1>2. current' \in Nat /\ current' <= Len(versions')
  <2>1. current \in Nat /\ current <= Len(versions) /\ Len(versions) \in Nat
    BY Domains DEF RowsInv, RagTypes, RagRefs
  <2>2. Len(versions) <= Len(versions') /\ Len(versions') \in Nat
    BY <1>1 DEF Growing
  <2>3. current' = current \/ (current' \in 1..Len(versions) /\ Len(versions') = Len(versions))
    BY <1>1 DEF DocMove, DocKept, DocCreated, DocReplaced, DocDeleted, DocPublished
  <2> QED
    BY <2>1, <2>2, <2>3
<1>3. doc' \in {"none", "processing", "active", "tombstoned"}
  BY <1>1 DEF DocMove, DocKept, DocCreated, DocReplaced, DocDeleted, DocPublished, RowsInv, RagTypes
<1>4. RagTypes'
  BY <1>1, <1>2, <1>3 DEF RagTypes, DocMove, GensMove, MatsMove, JobsMove, WorkersMove
<1>5. \A g \in 1..Len(generations') : generations'[g].head <= Len(mats')
  <2> SUFFICES ASSUME NEW g \in 1..Len(generations') PROVE generations'[g].head <= Len(mats')
    OBVIOUS
  <2>1. CASE g \notin 1..Len(generations)
    BY <1>1, <2>1 DEF GensMove, Growing
  <2>2. CASE g \in 1..Len(generations) /\ generations'[g].head = generations[g].head
    <3>1. generations[g].head <= Len(mats) /\ generations[g].head \in Nat
      BY <2>2, Domains DEF RowsInv, RagRefs, GenRec
    <3> QED
      BY <1>1, <2>2, <3>1 DEF Growing
  <2>3. ASSUME g \in 1..Len(generations), NEW w \in Workers, Published(w), g = Mine(w).gen
        PROVE  generations'[g].head <= Len(mats')
    <3>1. generations'[Mine(w).gen].head = Mine(w).mat /\ Mine(w).mat \in 1..Len(mats) /\ Len(mats') = Len(mats)
      BY <2>3, PublishedRows
    <3> QED
      BY <1>1, <2>3, <3>1 DEF Growing
  <2> QED
    BY <1>1, <2>1, <2>2, <2>3 DEF GensMove
<1>6. \A m \in 1..Len(mats') : mats'[m].gen \in 1..Len(generations') /\ mats'[m].version \in 1..Len(versions')
  <2> SUFFICES ASSUME NEW m \in 1..Len(mats')
               PROVE  mats'[m].gen \in 1..Len(generations') /\ mats'[m].version \in 1..Len(versions')
    OBVIOUS
  <2>1. CASE m \in 1..Len(mats)
    <3>1. mats[m].gen \in 1..Len(generations) /\ mats[m].version \in 1..Len(versions)
      BY <2>1 DEF RowsInv, RagRefs
    <3> QED
      BY <1>1, <2>1, <3>1 DEF Growing
  <2> QED
    BY <1>1, <2>1 DEF MatsMove
<1>7. ASSUME NEW j \in 1..Len(jobs')
      PROVE  /\ jobs'[j].gen <= Len(generations') /\ jobs'[j].mat <= Len(mats')
             /\ jobs'[j].version \in 1..Len(versions')
             /\ jobs'[j].lease => jobs'[j].status = "processing"
  <2>1. CASE j \in 1..Len(jobs)
    <3>1. jobs[j].gen \in Nat /\ jobs[j].mat \in Nat
      BY <2>1, Domains DEF RowsInv, JobRec
    <3>2. jobs[j].gen <= Len(generations) /\ jobs[j].mat <= Len(mats) /\ jobs[j].version \in 1..Len(versions)
      BY <2>1 DEF RowsInv, RagRefs
    <3>3. jobs'[j].gen = jobs[j].gen /\ jobs'[j].mat = jobs[j].mat /\ jobs'[j].version = jobs[j].version
      BY <1>1, <2>1, OldJobs
    <3>4. jobs'[j].lease => jobs'[j].status = "processing"
      BY <1>1, <2>1 DEF JobsMove, KeptJob
    <3>5. jobs'[j].gen <= Len(generations') /\ jobs'[j].mat <= Len(mats') /\ jobs'[j].version \in 1..Len(versions')
      BY <1>1, <3>1, <3>2, <3>3 DEF Growing
    <3> QED
      BY <3>4, <3>5
  <2>2. CASE j \notin 1..Len(jobs)
    BY <1>1, <2>2 DEF JobsMove, NewJob
  <2> QED
    BY <2>1, <2>2
<1>8. \A w \in Workers : worker'[w] # Idle => w \in up' /\ worker'[w].job \in 1..Len(jobs')
  <2> SUFFICES ASSUME NEW w \in Workers, worker'[w] # Idle PROVE w \in up' /\ worker'[w].job \in 1..Len(jobs')
    OBVIOUS
  <2>1. \A j \in 1..Len(jobs) : j \in 1..Len(jobs')
    BY <1>1, Domains DEF JobsMove, RowsInv
  <2>2. worker[w] # Idle => worker[w].job \in 1..Len(jobs)
    BY DEF RowsInv, RagRefs
  <2>3. CASE Takes(w)
    BY <1>1, <2>1, <2>3 DEF Takes, WorkersMove
  <2>4. CASE WorksOn(w)
    BY <1>1, <2>1, <2>2, <2>4 DEF WorksOn, PlaceMoves, WorkersMove
  <2> QED
    BY <1>1, <2>1, <2>2, <2>3, <2>4 DEF WorkersMove
<1>9. RagRefs'
  BY <1>1, <1>2, <1>5, <1>6, <1>7, <1>8 DEF RagRefs, WorkersMove
<1> QED
  BY <1>1, <1>4, <1>9 DEF RowsInv, GensMove

\* What was deleted stays deleted.
LEMMA StaysDeleted ==
  ASSUME DocMove, doc = "tombstoned"
  PROVE  doc' = "tombstoned" /\ DocKept
BY DEF DocMove, DocKept, DocCreated, DocReplaced, DocDeleted, DocPublished, Wanted

LEMMA DocKeeps ==
  ASSUME RowsInv, DocInv, JobInv, ClaimInv, RebuildNext
  PROVE  DocInv'
<1>1. Growing /\ MatsMove /\ JobsMove /\ DocMove
  BY Grows, MatsMoves, JobsMoves, DocMoves
<1>2. current \in Nat /\ current <= Len(versions)
  BY DEF RowsInv, RagTypes, RagRefs
<1>3. doc' = "none" => Len(versions') = 0 /\ Len(jobs') = 0 /\ Len(mats') = 0
  <2> HAVE doc' = "none"
  <2>1. Len(versions') = 0 /\ Len(jobs) = 0 /\ Len(mats) = 0
    BY <1>1 DEF DocMove, DocKept, DocCreated, DocReplaced, DocDeleted, DocPublished, DocInv
  <2>2. \A j \in 1..Len(jobs') : FALSE
    BY <1>1, <2>1 DEF JobsMove, NewJob
  <2>3. \A m \in 1..Len(mats') : FALSE
    BY <1>1, <2>1 DEF MatsMove
  <2> QED
    BY <1>1, <2>1, <2>2, <2>3 DEF JobsMove, Growing
<1>4. /\ doc' = "active" => current' # 0
      /\ doc' \in {"none", "processing"} => current' = 0
  BY <1>1 DEF DocMove, DocKept, DocCreated, DocReplaced, DocDeleted, DocPublished, DocInv
<1>5. ASSUME NEW v \in 1..Len(versions')
      PROVE  versions'[v] = "active" <=> doc' = "active" /\ v = current'
  <2>1. CASE DocKept
    BY <1>5, <2>1 DEF DocKept, DocInv
  <2>2. CASE DocCreated
    BY <1>5, <2>2 DEF DocCreated
  <2>3. CASE DocReplaced
    <3>1. v \in 1..Len(versions) \/ (v = Len(versions) + 1 /\ v # current)
      BY <1>1, <1>2, <1>5, <2>3 DEF DocReplaced, Growing
    <3> QED
      BY <2>3, <3>1 DEF DocReplaced, DocInv
  <2>4. CASE DocDeleted
    BY <1>5, <2>4 DEF DocDeleted
  <2>5. CASE DocPublished
    BY <1>5, <2>5 DEF DocPublished, DocInv
  <2> QED
    BY <1>1, <2>1, <2>2, <2>3, <2>4, <2>5 DEF DocMove
<1>6. ASSUME doc' = "tombstoned", NEW v \in 1..Len(versions') PROVE versions'[v] = "tombstoned"
  BY <1>1, <1>6 DEF DocMove, DocKept, DocCreated, DocReplaced, DocDeleted, DocPublished, DocInv
<1> QED
  BY <1>3, <1>4, <1>5, <1>6 DEF DocInv

LEMMA JobKeeps ==
  ASSUME RowsInv, DocInv, JobInv, ClaimInv, RebuildNext
  PROVE  JobInv'
<1>1. Growing /\ JobsMove /\ DocMove
  BY Grows, JobsMoves, DocMoves
<1> SUFFICES ASSUME NEW j \in 1..Len(jobs')
             PROVE  /\ jobs'[j].stage = "purge" => doc' = "tombstoned"
                    /\ jobs'[j].stage # "purge" /\ jobs'[j].gen # 0 =>
                         /\ jobs'[j].mat \in 1..Len(mats')
                         /\ mats'[jobs'[j].mat].version = jobs'[j].version
                         /\ mats'[jobs'[j].mat].gen = jobs'[j].gen
  BY DEF JobInv, Bound
<1>2. CASE j \in 1..Len(jobs)
  <2>1. /\ jobs'[j].stage = jobs[j].stage /\ jobs'[j].version = jobs[j].version
        /\ jobs'[j].gen = jobs[j].gen /\ jobs'[j].mat = jobs[j].mat
    BY <1>1, <1>2, OldJobs
  <2>2. /\ jobs[j].stage = "purge" => doc = "tombstoned"
        /\ jobs[j].stage # "purge" /\ jobs[j].gen # 0 =>
             /\ jobs[j].mat \in 1..Len(mats)
             /\ mats[jobs[j].mat].version = jobs[j].version /\ mats[jobs[j].mat].gen = jobs[j].gen
    BY <1>2 DEF JobInv, Bound
  <2>3. \A m \in 1..Len(mats) : m \in 1..Len(mats') /\ mats'[m].version = mats[m].version /\ mats'[m].gen = mats[m].gen
    BY <1>1 DEF Growing
  <2>4. doc = "tombstoned" => doc' = "tombstoned"
    BY <1>1, StaysDeleted
  <2> QED
    BY <2>1, <2>2, <2>3, <2>4
<1>3. CASE j \notin 1..Len(jobs)
  BY <1>1, <1>3 DEF JobsMove, NewJob, Bound
<1> QED
  BY <1>2, <1>3

LEMMA MatKeeps ==
  ASSUME RowsInv, DocInv, JobInv, MatInv, ClaimInv, RebuildNext
  PROVE  MatInv'
<1>1. Growing /\ GensMove /\ MatsMove /\ DocMove
  BY Grows, GensMoves, MatsMoves, DocMoves
<1>2. \A v \in 1..Len(versions) : versions[v] \in {"active", "tombstoned"} => versions'[v] \in {"active", "tombstoned"}
  BY <1>1 DEF DocMove, DocKept, DocCreated, DocReplaced, DocDeleted, DocPublished, DocInv
<1>3. ASSUME NEW m \in 1..Len(mats'), mats'[m].status = "published", doc' # "tombstoned", NEW c \in Chunks
      PROVE  mats'[m].rows[c] = "ready"
  <2>1. m \in 1..Len(mats) /\ doc # "tombstoned"
    BY <1>1, <1>3, StaysDeleted DEF MatsMove
  <2>2. CASE mats'[m].status = mats[m].status
    <3>1. mats[m].rows[c] = "ready"
      BY <1>3, <2>1, <2>2 DEF MatInv
    <3>2. ASSUME NEW w \in Workers, PartDone(w), RowMoves(w, m, c) PROVE mats'[m].rows[c] = "ready"
      <4>1. worker[w] # Idle
        BY <3>2, PartDoneMats
      <4>2. Mine(w).stage # "purge"
        BY <2>1, <4>1, MineIs DEF JobInv
      <4> QED
        BY <3>1, <3>2, <4>2 DEF RowMoves
    <3> QED
      BY <1>1, <2>1, <3>1, <3>2 DEF MatsMove
  <2>3. ASSUME NEW w \in Workers, Published(w), m = Mine(w).mat PROVE mats'[m].rows[c] = "ready"
    <3>1. mats'[Mine(w).mat].rows = mats[Mine(w).mat].rows /\ mats[Mine(w).mat].rows[c] = "ready"
      BY <2>3, PublishedRows
    <3> QED
      BY <2>3, <3>1
  <2> QED
    BY <1>1, <2>1, <2>2, <2>3 DEF MatsMove
<1>4. ASSUME NEW m \in 1..Len(mats'), generations'[mats'[m].gen].status \in Unserved
      PROVE  versions'[mats'[m].version] \in {"active", "tombstoned"}
  <2>1. CASE m \in 1..Len(mats)
    <3>1. /\ mats'[m].version = mats[m].version /\ mats'[m].gen = mats[m].gen
          /\ mats[m].gen \in 1..Len(generations) /\ mats[m].version \in 1..Len(versions)
      BY <1>1, <2>1 DEF Growing, RowsInv, RagRefs
    <3>2. generations[mats[m].gen].status \in Unserved
      BY <1>1, <1>4, <3>1 DEF GensMove
    <3>3. versions[mats[m].version] \in {"active", "tombstoned"}
      BY <2>1, <3>2 DEF MatInv, Unserved
    <3> QED
      BY <1>2, <3>1, <3>3
  <2>2. CASE m \notin 1..Len(mats)
    BY <1>1, <1>4, <2>2 DEF MatsMove, Unserved
  <2> QED
    BY <2>1, <2>2
<1> QED
  BY <1>3, <1>4 DEF MatInv, Unserved

LEMMA HeadKeeps ==
  ASSUME RowsInv, DocInv, JobInv, HeadInv, ClaimInv, RebuildNext
  PROVE  HeadInv'
<1>1. Growing /\ GensMove /\ MatsMove
  BY Grows, GensMoves, MatsMoves
<1>2. ASSUME NEW m \in 1..Len(mats), mats[m].status = "published" PROVE mats'[m].status = "published"
  <2>1. ASSUME NEW w \in Workers, Published(w), m = Mine(w).mat PROVE FALSE
    BY <1>2, <2>1, PublishedRows
  <2> QED
    BY <1>1, <1>2, <2>1 DEF MatsMove
<1> SUFFICES ASSUME NEW g \in 1..Len(generations'), generations'[g].head # 0
             PROVE  mats'[generations'[g].head].gen = g /\ mats'[generations'[g].head].status = "published"
  BY DEF HeadInv
<1>3. g \in 1..Len(generations)
  BY <1>1 DEF GensMove
<1>4. CASE generations'[g].head = generations[g].head
  <2>1. generations[g].head \in 1..Len(mats)
    <3>1. generations[g].head \in Nat /\ generations[g].head <= Len(mats) /\ Len(mats) \in Nat
      BY <1>3, Domains DEF RowsInv, RagRefs, GenRec
    <3> QED
      BY <1>4, <3>1
  <2>2. mats[generations[g].head].gen = g /\ mats[generations[g].head].status = "published"
    BY <1>3, <1>4 DEF HeadInv
  <2> QED
    BY <1>1, <1>2, <1>4, <2>1, <2>2 DEF Growing
<1>5. ASSUME NEW w \in Workers, Published(w), g = Mine(w).gen
      PROVE  mats'[generations'[g].head].gen = g /\ mats'[generations'[g].head].status = "published"
  <2>1. /\ generations'[Mine(w).gen].head = Mine(w).mat
        /\ mats'[Mine(w).mat].gen = Mine(w).gen /\ mats'[Mine(w).mat].status = "published"
    BY <1>5, PublishedRows
  <2> QED
    BY <1>5, <2>1
<1> QED
  BY <1>1, <1>3, <1>4, <1>5 DEF GensMove

\* After the deletion no row that a purge covers is opened again.
LEMMA CoveredKept ==
  ASSUME RowsInv, DocInv, JobInv, ClaimInv, RebuildNext, doc = "tombstoned", NEW job
  PROVE  Covered(job)' = Covered(job) /\ Covered(job) \subseteq 1..Len(mats)
<1>1. Growing /\ MatsMove
  BY Grows, MatsMoves
<1>2. DOMAIN mats = 1..Len(mats) /\ DOMAIN mats' = 1..Len(mats')
  BY <1>1, Domains, LenProperties DEF RowsInv, MatsMove
<1>3. 1..Len(mats') = 1..Len(mats)
  BY <1>1 DEF MatsMove, Growing
<1>4. \A m \in 1..Len(mats) : mats'[m].version = mats[m].version /\ mats'[m].gen = mats[m].gen
  BY <1>1 DEF Growing
<1> QED
  BY <1>2, <1>3, <1>4 DEF Covered

LEMMA NotOpenKept ==
  ASSUME RowsInv, DocInv, JobInv, ClaimInv, RebuildNext, doc = "tombstoned", NEW job, NotOpen(job)
  PROVE  NotOpen(job)'
<1>1. MatsMove
  BY MatsMoves
<1>2. Covered(job)' = Covered(job) /\ Covered(job) \subseteq 1..Len(mats)
  BY CoveredKept
<1> SUFFICES ASSUME NEW m \in 1..Len(mats), m \in Covered(job), NEW c \in Chunks PROVE ~Open(mats'[m].rows[c])
  BY <1>2 DEF NotOpen, Open
<1>3. ~Open(mats[m].rows[c])
  BY DEF NotOpen
<1>4. ASSUME NEW w \in Workers, PartDone(w), RowMoves(w, m, c) PROVE ~Open(mats'[m].rows[c])
  <2>1. ~RowsStaged(w)
    <3>1. RowsStaged(w) => At(w, "parse", "parsed") /\ Holds(w) /\ worker[w] # Idle
      BY DEF RowsStaged, At
    <3>2. Holds(w) /\ worker[w] # Idle => Mine(w).status \in Live
      BY MineIs
    <3> QED
      BY <3>1, <3>2 DEF ClaimInv
  <2> QED
    BY <1>3, <1>4, <2>1 DEF RowMoves, Open
<1> QED
  BY <1>1, <1>3, <1>4 DEF MatsMove

LEMMA ClaimKeeps ==
  ASSUME RowsInv, DocInv, JobInv, ClaimInv, RebuildNext
  PROVE  ClaimInv'
<1>1. Growing /\ JobsMove /\ DocMove /\ WorkersMove
  BY Grows, JobsMoves, DocMoves, WorkersMoves
<1> SUFFICES ASSUME NEW w \in Workers, worker'[w] # Idle
             PROVE  /\ Bound(Mine(w)')
                    /\ At(w, "parse", "parsed")' /\ doc' = "tombstoned" => Mine(w)'.status \notin Live
                    /\ At(w, "purge", "purged")' => NotOpen(Mine(w))'
  BY DEF ClaimInv, Bound, Mine
<1>2. PICK j : j = worker'[w].job
  OBVIOUS
<1>3. Mine(w)' = jobs'[j]
  BY <1>2 DEF Mine
<1>4. CASE Takes(w)
  <2>1. j \in 1..Len(jobs) /\ Bound(jobs[j]) /\ worker'[w].step = "claimed"
    BY <1>2, <1>4 DEF Takes, Taken
  <2>2. Bound(jobs'[j])
    BY <1>1, <2>1, OldJobs DEF Bound
  <2> QED
    BY <1>3, <2>1, <2>2 DEF At
<1>5. CASE worker'[w] = worker[w]
  <2>1. worker[w] # Idle /\ j \in 1..Len(jobs) /\ Mine(w) = jobs[j]
    BY <1>2, <1>5, MineIs
  <2>2. Bound(jobs'[j])
    BY <1>1, <2>1, OldJobs DEF Bound, ClaimInv
  <2>3. ASSUME At(w, "parse", "parsed")', doc' = "tombstoned" PROVE jobs'[j].status \notin Live
    <3>1. At(w, "parse", "parsed")
      BY <1>1, <1>3, <1>5, <2>1, <2>3, OldJobs DEF At
    <3>2. CASE doc = "tombstoned"
      BY <1>1, <2>1, <3>1, <3>2, OldJobs DEF ClaimInv
    <3>3. CASE doc # "tombstoned"
      <4>1. PICK P \in PurgeJobs : jobs' = Cancelled \o P
        BY <2>3, <3>3, OnlyDeletes DEF Deletes
      <4> QED
        BY <2>1, <4>1, DeletionRows DEF Live
    <3> QED
      BY <3>2, <3>3
  <2>4. ASSUME At(w, "purge", "purged")' PROVE NotOpen(Mine(w))'
    <3>1. At(w, "purge", "purged")
      BY <1>1, <1>3, <1>5, <2>1, <2>4, OldJobs DEF At
    <3>2. NotOpen(jobs[j]) /\ doc = "tombstoned"
      BY <2>1, <3>1 DEF ClaimInv, At, JobInv
    <3>3. PICK job : job = jobs[j]
      OBVIOUS
    <3>4. NotOpen(job)'
      BY <3>2, <3>3, NotOpenKept
    <3>5. jobs'[j].version = job.version /\ jobs'[j].gen = job.gen /\ jobs'[j].mat = job.mat
      BY <1>1, <2>1, <3>3, OldJobs
    <3> QED
      BY <1>3, <3>4, <3>5 DEF NotOpen, Covered
  <2> QED
    BY <1>3, <2>2, <2>3, <2>4
<1>6. CASE WorksOn(w)
  <2>1. worker[w] # Idle /\ PartDone(w)
    BY <1>6 DEF WorksOn
  <2>2. PICK k \in Claims : PlaceMoves(w, k) /\ worker'[w] = k
    BY <1>6 DEF WorksOn
  <2>3. j = worker[w].job /\ j \in 1..Len(jobs) /\ Mine(w) = jobs[j]
    BY <1>2, <2>1, <2>2, MineIs DEF PlaceMoves
  <2>4. jobs' = jobs /\ doc' = doc
    BY <2>1 DEF PartDone, SourceRead, RowsStaged, RowsFetched, VectorStaged, RowsPurged, workFrame
  <2>5. Bound(jobs'[j])
    BY <2>1, <2>3, <2>4 DEF ClaimInv
  <2>6. At(w, "parse", "parsed")' => doc' # "tombstoned"
    BY <2>2, <2>4 DEF At, PlaceMoves, Wanted
  <2>7. ASSUME At(w, "purge", "purged")' PROVE NotOpen(Mine(w))'
    <3>1. k.step = "purged"
      BY <2>2, <2>7 DEF At
    <3>2. PICK job : job = jobs[j]
      OBVIOUS
    <3>3. job.stage = "purge" /\ \A m \in Covered(job), c \in Chunks : ~Open(mats'[m].rows[c])
      BY <2>2, <2>3, <3>1, <3>2 DEF PlaceMoves
    <3>4. doc = "tombstoned"
      BY <2>3, <3>2, <3>3 DEF JobInv
    <3>5. Covered(job)' = Covered(job)
      BY <3>4, CoveredKept
    <3> QED
      BY <1>3, <2>4, <3>2, <3>3, <3>5 DEF NotOpen, Open
  <2> QED
    BY <1>3, <2>5, <2>6, <2>7
<1> QED
  BY <1>1, <1>4, <1>5, <1>6 DEF WorkersMove

LEMMA PurgeKeeps ==
  ASSUME RowsInv, DocInv, JobInv, ClaimInv, PurgeInv, RebuildNext
  PROVE  PurgeInv'
<1>1. Growing /\ JobsMove
  BY Grows, JobsMoves
<1> SUFFICES ASSUME NEW j \in 1..Len(jobs'), jobs'[j].stage = "purge", jobs'[j].status = "succeeded"
             PROVE  NotOpen(jobs[j])'
  BY DEF PurgeInv
<1>2. j \in 1..Len(jobs)
  BY <1>1 DEF JobsMove, NewJob
<1>3. /\ jobs[j].stage = "purge" /\ doc = "tombstoned"
      /\ jobs'[j].version = jobs[j].version /\ jobs'[j].gen = jobs[j].gen /\ jobs'[j].mat = jobs[j].mat
  BY <1>1, <1>2, OldJobs DEF JobInv
<1>4. NotOpen(jobs[j])
  <2>1. CASE jobs[j].status = "succeeded"
    BY <1>2, <1>3, <2>1 DEF PurgeInv
  <2>2. ASSUME NEW w \in Workers, PurgeAsserted(w), worker[w].job = j PROVE NotOpen(jobs[j])
    BY <2>2 DEF PurgeAsserted, At, ClaimInv, Mine
  <2> QED
    BY <1>1, <1>2, <2>1, <2>2 DEF JobsMove, KeptJob
<1>5. PICK job : job = jobs[j]
  OBVIOUS
<1>6. NotOpen(job)'
  BY <1>3, <1>4, <1>5, NotOpenKept
<1> QED
  BY <1>3, <1>5, <1>6 DEF NotOpen, Covered

\* Some generation that is or was the active one serves the current version.
ServeInv == doc = "active" => \E g \in 1..Len(generations) :
  generations[g].status \in {"active", "retired"} /\ Served(g) = current

LEMMA ServeKeeps ==
  ASSUME RowsInv, DocInv, JobInv, MatInv, HeadInv, ClaimInv, ServeInv, RebuildNext
  PROVE  ServeInv'
<1>1. Growing /\ GensMove /\ MatsMove /\ DocMove
  BY Grows, GensMoves, MatsMoves, DocMoves
<1>2. \A g \in 1..Len(generations) : g \in 1..Len(generations') /\ generations'[g] \in GenRec
  <2>1. DOMAIN generations' = 1..Len(generations') /\ \A g \in 1..Len(generations') : generations'[g] \in GenRec
    BY <1>1, LenProperties DEF GensMove
  <2> QED
    BY <1>1, <2>1 DEF Growing
<1>3. \A g \in 1..Len(generations) : generations[g].status \in {"active", "retired"} =>
                                       generations'[g].status \in {"active", "retired"}
  BY <1>1, <1>2 DEF GensMove, GenRec, Unserved
<1>4. ASSUME NEW g \in 1..Len(generations), generations'[g].head = generations[g].head
      PROVE  Served(g)' = Served(g)
  <2>1. generations[g].head \in Nat /\ generations[g].head <= Len(mats) /\ Len(mats) \in Nat
    BY Domains DEF RowsInv, RagRefs, GenRec
  <2>2. generations[g].head # 0 => generations[g].head \in 1..Len(mats)
    BY <2>1
  <2> QED
    BY <1>1, <1>4, <2>2 DEF Served, Growing
<1> SUFFICES ASSUME doc' = "active"
             PROVE  \E g \in 1..Len(generations') :
                      generations'[g].status \in {"active", "retired"} /\ Served(g)' = current'
  BY DEF ServeInv
<1>5. ASSUME NEW w \in Workers, Published(w)
      PROVE  \E g \in 1..Len(generations') :
               generations'[g].status \in {"active", "retired"} /\ Served(g)' = current'
  <2>4. PICK g, m, v : g = Mine(w).gen /\ m = Mine(w).mat /\ v = Mine(w).version
    OBVIOUS
  <2>1. /\ g \in 1..Len(generations) /\ m \in 1..Len(mats) /\ v \in 1..Len(versions) /\ m # 0
        /\ mats[m].version = v /\ mats[m].gen = g /\ mats'[m].version = v
        /\ \A i \in 1..Len(generations) : i # g => generations'[i] = generations[i]
        /\ generations'[g].head = m /\ current' = v /\ Wanted(v)
    BY <1>5, <2>4, PublishedRows
  <2>2. CASE generations[g].status \in {"active", "retired"}
    <3>1. Served(g)' = v
      BY <2>1 DEF Served
    <3> QED
      BY <1>2, <1>3, <2>1, <2>2, <3>1
  <2>3. CASE generations[g].status \notin {"active", "retired"}
    <3>1. generations[g].status \in Unserved
      BY <2>1, <2>3, Domains DEF RowsInv, GenRec, Unserved
    <3>2. versions[v] = "active" /\ doc = "active" /\ v = current
      BY <2>1, <3>1 DEF MatInv, Unserved, Wanted, DocInv
    <3>3. PICK h \in 1..Len(generations) : generations[h].status \in {"active", "retired"} /\ Served(h) = current
      BY <3>2 DEF ServeInv
    <3>4. Served(h)' = current
      BY <1>4, <2>1, <2>3, <3>3
    <3> QED
      BY <1>2, <1>3, <2>1, <3>2, <3>3, <3>4
  <2> QED
    BY <2>2, <2>3
<1>6. ASSUME \A w \in Workers : ~Published(w)
      PROVE  \E g \in 1..Len(generations') :
               generations'[g].status \in {"active", "retired"} /\ Served(g)' = current'
  <2>1. doc = "active" /\ current' = current
    BY <1>1, <1>6 DEF DocMove, DocKept, DocCreated, DocReplaced, DocDeleted, DocPublished
  <2>2. PICK h \in 1..Len(generations) : generations[h].status \in {"active", "retired"} /\ Served(h) = current
    BY <2>1 DEF ServeInv
  <2>3. Served(h)' = current
    BY <1>1, <1>4, <1>6, <2>2 DEF GensMove
  <2> QED
    BY <1>2, <1>3, <2>1, <2>2, <2>3
<1> QED
  BY <1>5, <1>6

-----------------------------------------------------------------------------
(* The invariant.                                                            *)

\* The rows refer to rows that exist (RowsInv); the document agrees with its versions,
\* a job with its materialization, a head with what was published; a worker knows
\* enough of its job that a deletion can take it from under it.
RagInv == RowsInv /\ DocInv /\ JobInv /\ MatInv /\ HeadInv /\ ClaimInv /\ PurgeInv /\ ServeInv

LEMMA RagInvInit == Init => RagInv
<1> SUFFICES ASSUME Init PROVE RagInv
  OBVIOUS
<1>1. /\ doc = "none" /\ current = 0 /\ versions = <<>> /\ mats = <<>> /\ jobs = <<>>
      /\ worker = [w \in Workers |-> Idle] /\ up = {} /\ lock = None /\ faults = 0
      /\ Len(versions) = 0 /\ Len(mats) = 0 /\ Len(jobs) = 0
  BY DEF Init
<1>2. PICK r : r = [status |-> "active", source |-> 0, head |-> 0]
  OBVIOUS
<1>3. r \in GenRec /\ r.status = "active" /\ r.head = 0
  BY <1>2 DEF GenRec
<1>4. generations = <<r>>
  BY <1>2 DEF Init
<1>5. generations \in Seq(GenRec) /\ Len(generations) = 1 /\ generations[1] = r
  BY <1>3, <1>4
<1>6. RagTypes
  BY <1>1, <1>5, BoundsAssumption DEF RagTypes
<1>7. RagRefs
  BY <1>1, <1>3, <1>5 DEF RagRefs
<1>8. OneActive /\ OneCandidate
  <2>1. \A g \in 1..Len(generations) : g = 1 /\ generations[g].status = "active"
    BY <1>3, <1>5
  <2>2. 1 \in 1..Len(generations)
    BY <1>5
  <2>3. DOMAIN generations = 1..Len(generations)
    BY <1>5, LenProperties
  <2> QED
    BY <2>1, <2>2, <2>3 DEF OneActive, OneCandidate, Candidates
<1>9. DocInv /\ JobInv /\ MatInv /\ ClaimInv /\ PurgeInv /\ ServeInv
  BY <1>1 DEF DocInv, JobInv, MatInv, ClaimInv, PurgeInv, ServeInv
<1>10. HeadInv
  BY <1>3, <1>5 DEF HeadInv
<1> QED
  BY <1>6, <1>7, <1>8, <1>9, <1>10 DEF RagInv, RowsInv

LEMMA RagInvStutters == RagInv /\ UNCHANGED vars => RagInv'
<1> SUFFICES ASSUME RagInv, UNCHANGED vars PROVE RagInv'
  OBVIOUS
<1> USE DEF vars, documentVars
<1>1. RowsInv'
  BY DEF RagInv, RowsInv, RagTypes, RagRefs, OneActive, OneCandidate, Candidates
<1>2. DocInv' /\ JobInv' /\ MatInv' /\ HeadInv' /\ ServeInv'
  BY DEF RagInv, DocInv, JobInv, MatInv, HeadInv, ServeInv, Served
<1>3. ClaimInv' /\ PurgeInv'
  BY DEF RagInv, ClaimInv, PurgeInv, NotOpen, Covered, At, Mine, Bound
<1> QED
  BY <1>1, <1>2, <1>3 DEF RagInv

LEMMA RagInvNext == RagInv /\ [RebuildNext]_vars => RagInv'
<1>1. ASSUME RagInv, RebuildNext PROVE RagInv'
  BY <1>1, RowsKept, DocKeeps, JobKeeps, MatKeeps, HeadKeeps, ClaimKeeps, PurgeKeeps, ServeKeeps DEF RagInv
<1> QED
  BY <1>1, RagInvStutters

\* Whatever the API, the workers and the operator do between each other's
\* transactions, the invariant holds.
THEOREM RagInvariant == RebuildSpec => []RagInv
BY RagInvInit, RagInvNext, PTL DEF RebuildSpec

-----------------------------------------------------------------------------
(* What the runs check.                                                      *)

\* The rows of a sequence that are all of a narrower type.
LEMMA SeqNarrows ==
  ASSUME NEW S, NEW T, NEW s \in Seq(S), \A i \in 1..Len(s) : s[i] \in T
  PROVE  s \in Seq(T)
<1>1. Len(s) \in Nat /\ s \in [1..Len(s) -> T]
  BY LenProperties
<1> QED
  BY <1>1, SeqDef

LEMMA InvTypeOK == RagInv => TypeOK
<1> SUFFICES ASSUME RagInv PROVE TypeOK
  OBVIOUS
<1>0. RagTypes /\ RagRefs /\ OneActive /\ OneCandidate
  BY DEF RagInv, RowsInv
<1> DEFINE Gens == [status : {"building", "verified", "active", "retired", "failed"},
                    source : Nat, head : 0..Len(mats)]
           Mats == [version : 1..MaxVersions, gen : DOMAIN generations, status : {"staging", "published"},
                    rows : [Chunks -> {"none", "staging", "ready", "purged"}]]
<1>1. generations \in Seq(Gens)
  <2>1. \A g \in 1..Len(generations) : generations[g] \in GenRec /\ generations[g].head <= Len(mats)
    BY <1>0, Domains DEF RagRefs
  <2>2. Len(mats) \in Nat
    BY <1>0, Domains
  <2>3. \A g \in 1..Len(generations) : generations[g] \in Gens
    BY <2>1, <2>2 DEF GenRec
  <2> QED
    BY <1>0, <2>3, SeqNarrows DEF RagTypes
<1>2. mats \in Seq(Mats)
  <2>1. \A m \in 1..Len(mats) : mats[m] \in MatRec /\ mats[m].gen \in DOMAIN generations
    BY <1>0, Domains DEF RagRefs
  <2>2. \A m \in 1..Len(mats) : mats[m] \in Mats
    BY <2>1 DEF MatRec
  <2> QED
    BY <1>0, <2>2, SeqNarrows DEF RagTypes
<1>3. jobs \in Seq(Jobs)
  <2>1. \A j \in 1..Len(jobs) : /\ jobs[j] \in JobRec
                                /\ jobs[j].gen <= Len(generations) /\ jobs[j].mat <= Len(mats)
    BY <1>0, Domains DEF RagRefs
  <2>2. Len(mats) \in Nat /\ Len(generations) \in Nat
    BY <1>0, Domains
  <2>3. ASSUME NEW j \in 1..Len(jobs) PROVE jobs[j] \in Jobs
    <3>1. jobs[j].gen \in 0..Len(generations) /\ jobs[j].mat \in 0..Len(mats)
      BY <2>1, <2>2 DEF JobRec
    <3> QED
      BY <2>1, <3>1 DEF JobRec, Jobs
  <2> QED
    BY <1>0, <2>3, SeqNarrows DEF RagTypes
<1>4. Cardinality({g \in DOMAIN generations : generations[g].status = "active"}) = 1
  <2>1. {g \in DOMAIN generations : generations[g].status = "active"} = {Active}
    BY <1>0, ActiveIs, Domains
  <2> QED
    BY <2>1, FS_Singleton
<1>5. Cardinality(Candidates) <= 1
  <2>1. CASE Candidates = {}
    BY <2>1, FS_EmptySet
  <2>2. ASSUME NEW g \in Candidates PROVE Cardinality(Candidates) <= 1
    <3>1. Candidates = {g}
      BY <1>0, <2>2 DEF OneCandidate
    <3>2. Cardinality({g}) = 1
      BY FS_Singleton
    <3> QED
      BY <3>1, <3>2
  <2> QED
    BY <2>1, <2>2
<1>6. current \in 0..Len(versions)
  BY <1>0, Domains DEF RagTypes, RagRefs
<1>7. /\ \A j \in DOMAIN jobs : jobs[j].lease => jobs[j].status = "processing"
      /\ \A w \in Workers : worker[w] # Idle => w \in up /\ worker[w].job \in DOMAIN jobs
  BY <1>0, Domains DEF RagRefs
<1> QED
  BY <1>0, <1>1, <1>2, <1>3, <1>4, <1>5, <1>6, <1>7 DEF TypeOK, RagTypes, RagRefs, VersionStatus

\* Every row is well formed and refers to rows that exist: one generation is active,
\* at most one is a candidate, only a job in processing has a lease.
THEOREM TypeCorrect == RebuildSpec => []TypeOK
BY RagInvariant, InvTypeOK, PTL

LEMMA InvServesCurrent == RagInv => ServesCurrent
<1> SUFFICES ASSUME RagInv, doc = "active"
             PROVE  /\ \E g \in DOMAIN generations :
                         generations[g].status \in {"active", "retired"} /\ Served(g) = current
                    /\ \A g \in DOMAIN generations : Served(g) = current => Whole(generations[g].head)
                    /\ \A v \in DOMAIN versions : versions[v] = "active" <=> v = current
  BY DEF ServesCurrent
<1>0. /\ DOMAIN generations = 1..Len(generations) /\ DOMAIN versions = 1..Len(versions)
      /\ Len(mats) \in Nat /\ \A g \in 1..Len(generations) : generations[g].head \in Nat
  BY Domains DEF RagInv, RowsInv, GenRec
<1>1. \E g \in 1..Len(generations) : generations[g].status \in {"active", "retired"} /\ Served(g) = current
  BY DEF RagInv, ServeInv
<1>2. ASSUME NEW g \in 1..Len(generations), Served(g) = current PROVE Whole(generations[g].head)
  <2>1. generations[g].head # 0
    BY <1>2 DEF Served, RagInv, DocInv
  <2>2. mats[generations[g].head].status = "published"
    BY <2>1 DEF RagInv, HeadInv
  <2>3. generations[g].head \in 1..Len(mats)
    BY <1>0, <2>1 DEF RagInv, RowsInv, RagRefs
  <2> QED
    BY <2>2, <2>3 DEF RagInv, MatInv, Whole
<1>3. \A v \in 1..Len(versions) : versions[v] = "active" <=> v = current
  BY DEF RagInv, DocInv
<1> QED
  BY <1>0, <1>1, <1>2, <1>3

\* What an active document serves is its current version, whole, whatever workers
\* that lost their lease, replays and rebuilds do.
THEOREM DocumentServed == RebuildSpec => []ServesCurrent
BY RagInvariant, InvServesCurrent, PTL

LEMMA InvPurgeIsFinal == RagInv => PurgeIsFinal
BY Domains DEF RagInv, RowsInv, PurgeInv, PurgeIsFinal, NothingReady, NotOpen, Open

\* No row that a successful purge covers is searchable again.
THEOREM PurgeLasts == RebuildSpec => []PurgeIsFinal
BY RagInvariant, InvPurgeIsFinal, PTL

LEMMA StepDeletedIsDead ==
  ASSUME RagInv, [RebuildNext]_vars, doc = "tombstoned"
  PROVE  /\ UNCHANGED <<doc, current, versions>>
         /\ \A g \in DOMAIN generations : generations'[g].head = generations[g].head
         /\ \A m \in DOMAIN mats : mats'[m].status = mats[m].status
<1>1. CASE UNCHANGED vars
  BY <1>1 DEF vars, documentVars
<1>2. CASE RebuildNext
  <2>1. DocMove /\ GensMove /\ MatsMove
    BY <1>2, DocMoves, GensMoves, MatsMoves DEF RagInv
  <2>2. /\ DOMAIN versions = 1..Len(versions) /\ DOMAIN generations = 1..Len(generations)
        /\ DOMAIN mats = 1..Len(mats) /\ versions \in Seq(VersionStatus)
    BY Domains DEF RagInv, RowsInv, RagTypes
  <2>3. ASSUME NEW w \in Workers, Published(w) PROVE FALSE
    BY <2>3, PublishedRows DEF Wanted, RagInv
  <2>4. doc' = doc /\ current' = current /\ versions' = versions
    <3>1. /\ doc' = doc /\ current' = current /\ Len(versions') = Len(versions)
          /\ \A v \in 1..Len(versions) : versions'[v] = versions[v]
      BY <2>1, StaysDeleted DEF DocKept, RagInv, DocInv
    <3>2. versions' \in Seq(VersionStatus)
      BY <2>1 DEF DocMove
    <3> QED
      BY <2>2, <3>1, <3>2, SeqEqual
  <2> QED
    BY <2>1, <2>2, <2>3, <2>4 DEF GensMove, MatsMove
<1> QED
  BY <1>1, <1>2

\* Nothing that was under way when the document was deleted publishes or revives any
\* of it.
THEOREM DeletionLasts == RebuildSpec => DeletedIsDead
<1>1. RagInv /\ [RebuildNext]_vars =>
        (doc = "tombstoned" =>
           /\ UNCHANGED <<doc, current, versions>>
           /\ \A g \in DOMAIN generations : generations'[g].head = generations[g].head
           /\ \A m \in DOMAIN mats : mats'[m].status = mats[m].status)
  BY StepDeletedIsDead
<1> QED
  BY <1>1, RagInvariant, PTL DEF RebuildSpec, DeletedIsDead

\* The active generation stays so unless the head moves.
LEMMA ActiveMoves ==
  ASSUME RagInv, RebuildNext, Active' # Active
  PROVE  \E g \in 1..Len(generations) : Moves(g) /\ Active' = g /\ UNCHANGED <<mats, current>>
<1>0. RowsInv /\ JobInv /\ ClaimInv /\ Active \in 1..Len(generations) /\ generations[Active].status = "active"
  BY ActiveIs DEF RagInv, RowsInv
<1>1. RowsInv'
  BY RagInvNext DEF RagInv
<1>2. \A g \in 1..Len(generations') : generations'[g].status = "active" => g = Active'
  <2>1. RagTypes' /\ OneActive'
    BY <1>1 DEF RowsInv
  <2>2. PICK a \in 1..Len(generations') :
          \A h \in 1..Len(generations') : generations'[h].status = "active" <=> h = a
    BY <2>1 DEF OneActive
  <2>3. DOMAIN generations' = 1..Len(generations')
    BY <2>1, LenProperties DEF RagTypes
  <2>4. Active' \in DOMAIN generations' /\ generations'[Active'].status = "active"
    BY <2>2, <2>3 DEF Active
  <2> QED
    BY <2>2, <2>3, <2>4
<1>3. Active \in 1..Len(generations')
  BY <1>0, Grows DEF Growing, RagInv
<1>4. generations'[Active].status # "active"
  BY <1>2, <1>3
<1>5. generations' # generations
  BY <1>0, <1>4
<1>6. ASSUME NEW g \in 1..Len(generations), Verify(g) \/ AbandonCandidate(g) PROVE FALSE
  <2>1. g # Active /\ \E status \in {"verified", "failed"} : generations' = SetStatus(g, status)
    BY <1>0, <1>6 DEF Verify, Verifiable, AbandonCandidate, Candidates
  <2>2. generations'[Active] = generations[Active]
    BY <1>0, <2>1, SetStatusRows
  <2> QED
    BY <1>0, <1>4, <2>2
<1>7. ASSUME NEW w \in Workers, Published(w) PROVE FALSE
  <2>1. generations'[Active].status = generations[Active].status
    BY <1>0, <1>7, PublishedRows
  <2> QED
    BY <1>0, <1>4, <2>1
<1>8. ~Begin
  <2>1. Begin => \E r : generations' = Append(generations, r)
    BY DEF Begin
  <2>2. generations \in Seq(GenRec)
    BY <1>0 DEF RowsInv, RagTypes
  <2>3. \A r : Append(generations, r)[Active] = generations[Active]
    BY <1>0, <2>2
  <2> QED
    BY <1>0, <1>4, <2>1, <2>3
<1>9. ASSUME NEW w \in Workers,
             \/ Claim(w) \/ Ends(w) \/ PartDone(w) \/ ParseCompleted(w) \/ PurgeAsserted(w) \/ Quiet(w)
      PROVE  FALSE
  BY <1>5, <1>9 DEF Claim, Ends, ParseCompleted, PurgeAsserted, finishFrame, Quiet, Abandon, Start, Crash, documentVars,
                    PartDone, SourceRead, RowsStaged, RowsFetched, VectorStaged, RowsPurged, workFrame
<1>10. ASSUME \/ \E j \in 1..Len(jobs) : Replay(j) \/ Expire(j)
              \/ DropLock \/ \E v \in 1..MaxVersions : Adds(v)
       PROVE  FALSE
  BY <1>5, <1>10 DEF Replay, Expire, DropLock, documentVars, Adds
<1>11. \E g \in 1..Len(generations) : Moves(g) /\ UNCHANGED <<mats, current>>
  <2>1. CASE \E g \in 1..Len(generations) : Commands(g)
    BY <1>6, <2>1 DEF Commands, commandFrame, rebuildFrame
  <2>2. CASE \E v \in 1..MaxVersions, g \in 1..Len(generations) : AddsUnbound(v, g)
    BY <2>2 DEF AddsUnbound
  <2>3. CASE Deletes
    BY <1>0, <1>5, <2>3, Domains DEF Deletes, RowsInv
  <2> QED
    BY <1>0, <1>7, <1>8, <1>9, <1>10, <2>1, <2>2, <2>3, Kinds
<1>12. PICK g \in 1..Len(generations) : Moves(g) /\ UNCHANGED <<mats, current>>
  BY <1>11
<1>13. generations'[g].status = "active" /\ Len(generations') = Len(generations)
  BY <1>0, <1>12, MovesRows
<1> QED
  BY <1>2, <1>12, <1>13

LEMMA StepCutoverServes ==
  ASSUME RagInv, [RebuildNext]_vars, Active' # Active
  PROVE  Served(Active)' = current /\ Whole(generations[Active'].head)
<1>1. RebuildNext
  BY DEF vars, documentVars, Active
<1>2. PICK g \in 1..Len(generations) : Moves(g) /\ Active' = g /\ UNCHANGED <<mats, current>>
  BY <1>1, ActiveMoves
<1>3. doc = "active" /\ Served(g) = current /\ current # 0 /\ generations[g].head # 0
  BY <1>2 DEF Moves, Promote, Rollback, Verifiable, RagInv, DocInv, Served
<1>4. generations'[g].head = generations[g].head
  BY <1>2, MovesRows DEF SameGeneration, RagInv
<1>5. Served(Active)' = current
  BY <1>2, <1>3, <1>4 DEF Served
<1>6. Whole(generations[g].head)
  <2>1. CASE Promote(g)
    <3>1. \A m \in DOMAIN mats : mats[m].gen = g => Whole(m)
      BY <2>1 DEF Promote, Verifiable
    <3>2. generations[g].head \in DOMAIN mats
      <4>1. generations[g].head \in Nat /\ generations[g].head <= Len(mats) /\ DOMAIN mats = 1..Len(mats)
        BY Domains DEF RagInv, RowsInv, RagRefs, GenRec
      <4> QED
        BY <1>3, <4>1
    <3> QED
      BY <1>3, <3>1, <3>2 DEF RagInv, HeadInv
  <2>2. CASE Rollback(g)
    BY <2>2 DEF Rollback
  <2> QED
    BY <1>2, <2>1, <2>2 DEF Moves
<1> QED
  BY <1>2, <1>5, <1>6

\* A cutover never loses an answer: what becomes active serves the current version.
THEOREM CutoverKeepsAnswers == RebuildSpec => CutoverServes
<1>1. RagInv /\ [RebuildNext]_vars =>
        (Active' # Active => Served(Active)' = current /\ Whole(generations[Active'].head))
  BY StepCutoverServes
<1> QED
  BY <1>1, RagInvariant, PTL DEF RebuildSpec, CutoverServes

-----------------------------------------------------------------------------
(* Versions and their jobs.                                                  *)

LiveOwn(j, v) == jobs[j].version = v /\ jobs[j].stage # "purge" /\ jobs[j].status \in Live

\* No operator replayed a job of v.
Plain(v) == \A j \in 1..Len(jobs) : jobs[j].version = v /\ jobs[j].stage # "purge" => ~jobs[j].replay

\* VersionFollowsJobs is not inductive: a sweep leaves no version waiting only
\* because a version never waits for two jobs.
Follows(v) ==
  /\ versions[v] = "uploaded" =>
       \E j \in 1..Len(jobs) : LiveOwn(j, v) /\ \A i \in 1..Len(jobs) : LiveOwn(i, v) => i = j
  /\ versions[v] = "failed" => \A j \in 1..Len(jobs) : ~LiveOwn(j, v)
  /\ versions[v] \in {"active", "tombstoned"} =>
       \A j \in 1..Len(jobs) : LiveOwn(j, v) /\ Bound(jobs[j]) => Served(jobs[j].gen) # v
  /\ \A i, j \in 1..Len(jobs) : LiveOwn(i, v) /\ LiveOwn(j, v) /\ jobs[i].gen = jobs[j].gen => i = j

FollowInv == \A v \in 1..Len(versions) : Plain(v) => Follows(v)

\* The generation of a job exists.
LEMMA BoundGen ==
  ASSUME RowsInv, NEW j \in 1..Len(jobs), Bound(jobs[j])
  PROVE  jobs[j].gen \in 1..Len(generations)
<1>1. jobs[j].gen \in Nat /\ jobs[j].gen <= Len(generations) /\ Len(generations) \in Nat
  BY Domains DEF RowsInv, RagRefs, JobRec
<1> QED
  BY <1>1 DEF Bound

\* A job that is live was so before or is new.
LEMMA LiveWas ==
  ASSUME RowsInv, JobsMove, NEW v, NEW j \in 1..Len(jobs), LiveOwn(j, v)'
  PROVE  LiveOwn(j, v) /\ jobs'[j].gen = jobs[j].gen
BY OldJobs DEF LiveOwn

LEMMA PlainWas ==
  ASSUME RowsInv, JobsMove, NEW v, Plain(v)'
  PROVE  Plain(v)
BY OldJobs DEF Plain

\* What a generation serves of the document changes when a worker publishes in it.
LEMMA ServedStays ==
  ASSUME RowsInv, Growing, NEW g \in 1..Len(generations), generations'[g].head = generations[g].head
  PROVE  Served(g)' = Served(g)
<1>1. generations[g].head \in Nat /\ generations[g].head <= Len(mats) /\ Len(mats) \in Nat
  BY Domains DEF RowsInv, RagRefs, GenRec
<1>2. generations[g].head # 0 => generations[g].head \in 1..Len(mats)
  BY <1>1
<1> QED
  BY <1>2 DEF Served, Growing

LEMMA ServedMoves ==
  ASSUME RowsInv, DocInv, JobInv, ClaimInv, RebuildNext, NEW g \in 1..Len(generations)
  PROVE  Served(g)' = Served(g) \/ \E w \in Workers : Published(w) /\ g = Mine(w).gen
BY Grows, GensMoves, ServedStays DEF GensMove

\* The version is as it was, no job of it is new, and none that it waits for ended.
LEMMA FollowsStill ==
  ASSUME RowsInv, JobsMove, NEW v, Follows(v), versions'[v] = versions[v],
         \A j \in 1..Len(jobs') : j \notin 1..Len(jobs) => ~LiveOwn(j, v)',
         versions[v] = "uploaded" => \A j \in 1..Len(jobs) : LiveOwn(j, v) => LiveOwn(j, v)',
         \A g \in 1..Len(generations) : Served(g)' = Served(g) \/ Served(g)' # v
  PROVE  Follows(v)'
<1>1. \A j \in 1..Len(jobs') : LiveOwn(j, v)' =>
        j \in 1..Len(jobs) /\ LiveOwn(j, v) /\ jobs'[j].gen = jobs[j].gen
  BY LiveWas
<1>2. \A j \in 1..Len(jobs) : j \in 1..Len(jobs')
  BY OldJobs
<1>3. \A j \in 1..Len(jobs) : Bound(jobs[j]) => jobs[j].gen \in 1..Len(generations)
  BY BoundGen
<1>4. versions[v] = "uploaded" =>
        \E j \in 1..Len(jobs') : LiveOwn(j, v)' /\ \A i \in 1..Len(jobs') : LiveOwn(i, v)' => i = j
  BY <1>1, <1>2 DEF Follows
<1>5. versions[v] \in {"active", "tombstoned"} =>
        \A j \in 1..Len(jobs') : LiveOwn(j, v)' /\ Bound(jobs'[j]) => Served(jobs[j].gen)' # v
  <2> SUFFICES ASSUME versions[v] \in {"active", "tombstoned"},
                      NEW j \in 1..Len(jobs'), LiveOwn(j, v)', Bound(jobs'[j])
               PROVE  Served(jobs[j].gen)' # v
    OBVIOUS
  <2>1. PICK g : g = jobs'[j].gen
    OBVIOUS
  <2>2. j \in 1..Len(jobs) /\ LiveOwn(j, v) /\ jobs[j].gen = g /\ Bound(jobs[j])
    BY <1>1, <2>1 DEF Bound
  <2>3. g \in 1..Len(generations) /\ Served(g) # v
    BY <1>3, <2>2 DEF Follows
  <2>4. Served(g)' # v
    BY <2>3
  <2> QED
    BY <2>1, <2>4 DEF Served
<1>6. \A i, j \in 1..Len(jobs') : LiveOwn(i, v)' /\ LiveOwn(j, v)' /\ jobs'[i].gen = jobs'[j].gen => i = j
  BY <1>1 DEF Follows
<1>7. versions[v] = "failed" => \A j \in 1..Len(jobs') : ~LiveOwn(j, v)'
  BY <1>1 DEF Follows
<1> QED
  BY <1>4, <1>5, <1>6, <1>7 DEF Follows

\* What the API wants processed waits for no job, and the active generation does not
\* serve it.
LEMMA WantsFollows ==
  ASSUME RowsInv, DocInv, NEW u, Wants(u)
  PROVE  /\ \A j \in 1..Len(jobs) : jobs[j].status \notin Live
         /\ \A v \in 1..Len(versions') : v # u => versions'[v] # "uploaded"
         /\ versions'[u] = "uploaded" \/ (versions'[u] = "active" /\ Served(Active) # u)
<1>0. /\ DOMAIN jobs = 1..Len(jobs) /\ DOMAIN versions = 1..Len(versions)
      /\ Len(jobs) \in Nat /\ Len(versions) \in Nat
  BY Domains DEF RowsInv
<1>1. CASE Creates(u)
  <2>1. versions' = <<"uploaded">> /\ u = 1 /\ Len(jobs) = 0
    BY <1>1 DEF Creates, DocInv
  <2> QED
    BY <2>1
<1>2. ASSUME ~Working
      PROVE  /\ \A j \in 1..Len(jobs) : jobs[j].status \notin Live
             /\ \A v \in 1..Len(versions) : versions[v] # "uploaded"
  BY <1>0, <1>2 DEF Working
<1>3. CASE Replaces(u)
  <2>1. /\ Len(versions') = u /\ u = Len(versions) + 1 /\ versions'[u] = "uploaded"
        /\ \A v \in 1..Len(versions) : versions'[v] = versions[v]
    BY <1>3, ReplacesRows
  <2>2. \A v \in 1..Len(versions') : v # u => v \in 1..Len(versions)
    BY <1>0, <2>1
  <2> QED
    BY <1>2, <1>3, <2>1, <2>2 DEF Replaces
<1>4. CASE Reopens(u)
  <2>1. /\ u \in 1..Len(versions) /\ Len(versions') = Len(versions)
        /\ \A v \in 1..Len(versions) :
             versions'[v] = IF v = u /\ versions[v] = "failed" THEN "uploaded" ELSE versions[v]
    BY <1>4, ReopensRows
  <2>2. versions[u] # "failed" => u = current /\ Served(Active) # u
    BY <1>4 DEF Reopens, Target, Newest
  <2>3. versions'[u] = "uploaded" \/ versions'[u] = "active"
    BY WantsRows
  <2>4. versions'[u] = "uploaded" \/ (versions'[u] = "active" /\ Served(Active) # u)
    BY <2>1, <2>2, <2>3
  <2> QED
    BY <1>2, <1>4, <2>1, <2>4 DEF Reopens
<1> QED
  BY <1>1, <1>3, <1>4 DEF Wants

\* The one live job is new.
LEMMA FollowsFresh ==
  ASSUME RowsInv, JobsMove, NEW n \in 1..Len(jobs'), NEW u, NEW v, LiveOwn(n, u)',
         \A j \in 1..Len(jobs) : jobs[j].status \notin Live,
         \A j \in 1..Len(jobs') : j \notin 1..Len(jobs) => j = n,
         v # u => versions'[v] # "uploaded",
         v = u => \/ versions'[v] = "uploaded"
                  \/ versions'[v] = "active" /\ (Bound(jobs'[n]) => Served(jobs[n].gen)' # v)
  PROVE  Follows(v)'
<1>1. \A j \in 1..Len(jobs') : LiveOwn(j, v)' => j = n /\ v = u
  BY LiveWas DEF LiveOwn
<1>2. v = u => LiveOwn(n, v)'
  OBVIOUS
<1> QED
  BY <1>1, <1>2 DEF Follows, Bound

LEMMA AddsFollow ==
  ASSUME RagInv, RebuildNext, NEW u \in 1..MaxVersions,
         Adds(u) \/ \E g \in 1..Len(generations) : AddsUnbound(u, g), NEW v \in 1..Len(versions')
  PROVE  Follows(v)'
<1>0. RowsInv /\ DocInv /\ JobsMove /\ Growing /\ jobs \in Seq(JobRec) /\ Len(jobs) \in Nat
  BY JobsMoves, Grows, Domains DEF RagInv, RowsInv, RagTypes
<1>1. Wants(u)
  BY DEF Adds, AddsUnbound, Wants
<1>2. ASSUME NEW job \in JobRec, jobs' = Append(jobs, job), job.status = "pending", job.stage = "parse",
             job.version = u, job.gen # 0 => Served(job.gen)' = Served(Active)
      PROVE  Follows(v)'
  <2> DEFINE n == Len(jobs) + 1
  <2>1. Len(jobs') = n /\ jobs'[n] = job
    BY <1>0, <1>2, AppendJob
  <2>2. n \in 1..Len(jobs') /\ \A j \in 1..Len(jobs') : j \notin 1..Len(jobs) => j = n
    BY <1>0, <2>1
  <2>3. PICK m : m = n
    OBVIOUS
  <2>4. LiveOwn(m, u)' /\ jobs'[m].gen = job.gen
    BY <1>2, <2>1, <2>3 DEF LiveOwn, Live
  <2>5. v = u => \/ versions'[v] = "uploaded"
                 \/ versions'[v] = "active" /\ (Bound(jobs'[m]) => Served(jobs[m].gen)' # v)
    <3>1. jobs'[m].gen # 0 => Served(jobs[m].gen)' = Served(Active)
      BY <1>2, <2>4 DEF Served
    <3> QED
      BY <1>0, <1>1, <3>1, WantsFollows DEF Bound
  <2> HIDE DEF n
  <2> QED
    BY <1>0, <1>1, <2>2, <2>3, <2>4, <2>5, WantsFollows, FollowsFresh
<1>3. ASSUME NEW g \in Nat, NEW m \in Nat PROVE Job("parse", u, g, m, FALSE) \in JobRec
  BY JobTyped
<1>4. CASE Adds(u)
  <2>1. jobs' = Append(jobs, Job("parse", u, Active, Len(mats) + 1, FALSE)) /\ UNCHANGED generations
    BY <1>4 DEF Adds, Parse, Allocate
  <2>2. Active \in 1..Len(generations) /\ Active \in Nat /\ Len(mats) + 1 \in Nat
    BY <1>0, ActiveIs DEF RowsInv, Growing
  <2>3. PICK job : job = Job("parse", u, Active, Len(mats) + 1, FALSE)
    OBVIOUS
  <2>4. job \in JobRec /\ job.status = "pending" /\ job.stage = "parse" /\ job.version = u /\ job.gen = Active
    BY <1>3, <2>2, <2>3 DEF Job
  <2>5. PICK a : a = Active
    OBVIOUS
  <2>6. Served(a)' = Served(a) /\ job.gen = a
    BY <1>0, <2>1, <2>2, <2>4, <2>5, ServedStays
  <2>7. Served(job.gen)' = Served(Active)
    BY <2>5, <2>6
  <2> QED
    BY <1>2, <2>1, <2>3, <2>4, <2>7
<1>5. ASSUME NEW g \in 1..Len(generations), AddsUnbound(u, g) PROVE Follows(v)'
  <2>1. PICK job : job = Job("parse", u, 0, 0, FALSE)
    OBVIOUS
  <2>2. jobs' = Append(jobs, job)
    BY <1>5, <2>1 DEF AddsUnbound, ParseUnbound
  <2>3. job \in JobRec /\ job.status = "pending" /\ job.stage = "parse" /\ job.version = u /\ job.gen = 0
    BY <1>3, <2>1 DEF Job
  <2> QED
    BY <1>2, <2>2, <2>3
<1> QED
  BY <1>4, <1>5

\* The jobs and the versions of a deleted document have ended.
LEMMA DeletesFollow ==
  ASSUME RagInv, RebuildNext, Deletes, NEW v \in 1..Len(versions')
  PROVE  Follows(v)'
<1>0. RowsInv /\ JobsMove /\ DocInv'
  BY JobsMoves, RagInvNext DEF RagInv
<1>1. doc' = "tombstoned"
  BY DEF Deletes, Tombstone
<1>2. PICK P \in PurgeJobs : jobs' = Cancelled \o P
  BY DEF Deletes
<1>3. \A j \in 1..Len(jobs') : ~LiveOwn(j, v)'
  BY <1>0, <1>2, DeletionRows DEF LiveOwn, Live
<1> QED
  BY <1>0, <1>1, <1>3 DEF Follows, DocInv

\* A candidate serves nothing yet.
LEMMA BeginFollows ==
  ASSUME RagInv, RebuildNext, Begin, \A w \in Workers : ~Published(w),
         NEW v \in 1..Len(versions'), v \in 1..Len(versions) => Follows(v)
  PROVE  Follows(v)'
<1> DEFINE n == Len(jobs) + 1
<1>0. /\ RowsInv /\ JobsMove /\ Growing /\ GensMove /\ MatsMove
      /\ Len(jobs) \in Nat /\ \A j \in 1..Len(jobs) : jobs[j] \in JobRec
  BY JobsMoves, GensMoves, MatsMoves, Grows, Domains DEF RagInv, RowsInv
<1>1. PICK g : g = Len(generations) + 1
  OBVIOUS
<1>2. /\ Allocate(current, g) /\ versions' = versions /\ doc = "active"
      /\ generations' = Append(generations, [status |-> "building", source |-> Active, head |-> 0])
  BY <1>1 DEF Begin, rebuildFrame
<1>3. current \in 1..MaxVersions /\ g \in Nat /\ current \in 1..Len(versions) /\ versions[current] = "active"
  <2>1. current \in Nat /\ current # 0 /\ current <= Len(versions) /\ Len(versions) <= MaxVersions
    BY <1>2 DEF RagInv, DocInv, RowsInv, RagRefs, RagTypes
  <2>2. current \in 1..MaxVersions /\ g \in Nat /\ current \in 1..Len(versions)
    BY <1>0, <1>1, <2>1, BoundsAssumption DEF Growing
  <2> QED
    BY <1>2, <2>2 DEF RagInv, DocInv
<1>4. /\ Len(jobs') = n /\ \A j \in 1..Len(jobs) : jobs'[j] = jobs[j]
      /\ jobs'[n] = Job("parse", current, g, Len(mats) + 1, FALSE)
  BY <1>0, <1>2, <1>3, AllocateRows
<1>5. jobs'[n].version = current /\ jobs'[n].gen = g
  BY <1>4 DEF Job
<1>6. \A j \in 1..Len(jobs') : j \notin 1..Len(jobs) => j = n
  BY <1>0, <1>4
<1>7. \A h \in 1..Len(generations) : Served(h)' = Served(h)
  BY ServedMoves DEF RagInv
<1> HIDE DEF n
<1>8. CASE v # current
  <2>1. \A j \in 1..Len(jobs') : j \notin 1..Len(jobs) => ~LiveOwn(j, v)'
    BY <1>5, <1>6, <1>8 DEF LiveOwn
  <2>2. \A j \in 1..Len(jobs) : LiveOwn(j, v) => LiveOwn(j, v)'
    BY <1>4 DEF LiveOwn
  <2> QED
    BY <1>0, <1>2, <1>7, <2>1, <2>2, FollowsStill
<1>9. CASE v = current
  <2>1. versions'[v] = "active" /\ versions[v] = "active" /\ Follows(v) /\ v # 0
    BY <1>2, <1>3, <1>9
  <2>2. \A j \in 1..Len(jobs') : LiveOwn(j, v)' =>
           \/ j = n
           \/ j \in 1..Len(jobs) /\ LiveOwn(j, v) /\ jobs'[j].gen = jobs[j].gen /\ jobs[j].gen # g
    <3>1. \A j \in 1..Len(jobs) : jobs[j].gen # g
      <4>1. \A j \in 1..Len(jobs) : jobs[j].gen \in Nat /\ jobs[j].gen <= Len(generations)
        BY <1>0 DEF RowsInv, RagRefs, JobRec
      <4> QED
        BY <1>0, <1>1, <4>1 DEF Growing
    <3> QED
      BY <1>0, <1>6, <3>1, LiveWas
  <2>3. \A j \in 1..Len(jobs) : Bound(jobs[j]) => jobs[j].gen \in 1..Len(generations)
    BY <1>0, BoundGen
  <2>4. Served(g)' # v
    <3>1. Len(generations') = g
      BY <1>1, <1>2 DEF RagInv, RowsInv, RagTypes
    <3>2. g \in 1..Len(generations') /\ g \notin 1..Len(generations)
      BY <1>0, <1>1, <3>1 DEF Growing
    <3>3. generations'[g].head = 0
      BY <1>0, <3>2 DEF GensMove
    <3> QED
      BY <2>1, <3>3 DEF Served
  <2>5. ASSUME NEW j \in 1..Len(jobs'), LiveOwn(j, v)', Bound(jobs'[j])
        PROVE  Served(jobs[j].gen)' # v
    <3>1. CASE j = n
      BY <1>5, <2>4, <3>1 DEF Served
    <3>2. CASE j # n
      <4>1. PICK h : h = jobs'[j].gen
        OBVIOUS
      <4>2. j \in 1..Len(jobs) /\ LiveOwn(j, v) /\ jobs[j].gen = h /\ Bound(jobs[j])
        BY <2>2, <2>5, <3>2, <4>1 DEF Bound
      <4>3. h \in 1..Len(generations) /\ Served(h) # v
        BY <2>1, <2>3, <4>2 DEF Follows
      <4> QED
        BY <1>7, <4>1, <4>3 DEF Served
    <3> QED
      BY <3>1, <3>2
  <2>6. \A i, j \in 1..Len(jobs') : LiveOwn(i, v)' /\ LiveOwn(j, v)' /\ jobs'[i].gen = jobs'[j].gen => i = j
    BY <1>5, <2>1, <2>2 DEF Follows
  <2> QED
    BY <2>1, <2>5, <2>6 DEF Follows
<1> QED
  BY <1>8, <1>9

\* The sweep of a claim fails a version with the one job it waits for.
LEMMA ClaimFollows ==
  ASSUME RagInv, RebuildNext, NEW w \in Workers, Claim(w), \A x \in Workers : ~Published(x),
         NEW v \in 1..Len(versions'), v \in 1..Len(versions) => Follows(v)
  PROVE  Follows(v)'
<1>0. /\ RowsInv /\ DocInv /\ JobInv /\ JobsMove /\ Len(versions') = Len(versions)
      /\ DOMAIN jobs = 1..Len(jobs) /\ DOMAIN versions = 1..Len(versions)
      /\ Len(jobs') = Len(jobs)
      /\ \A u \in 1..Len(versions) :
           versions'[u] = IF u \in Stranded /\ versions[u] = "uploaded" THEN "failed" ELSE versions[u]
      /\ \A j \in 1..Len(jobs) : j \in Exhausted =>
           /\ SameJob(jobs[j], jobs'[j]) /\ jobs[j].status = "processing" /\ jobs'[j].status = "failed"
  <2>1. RowsInv /\ DocInv /\ JobInv /\ JobsMove
    BY JobsMoves DEF RagInv
  <2> QED
    BY <2>1, ClaimRows, FailVersionsRows, Domains DEF RowsInv
<1>1. \A j \in 1..Len(jobs) : j \notin Exhausted => jobs'[j] = jobs[j] \/ Taken(j)
  BY <1>0, ClaimRows
<1>2. \A j \in 1..Len(jobs) : LiveOwn(j, v) /\ j \notin Exhausted => LiveOwn(j, v)'
  BY <1>1 DEF LiveOwn, Taken, SameJob, Live
<1>3. \A j \in 1..Len(jobs) : LiveOwn(j, v)' => LiveOwn(j, v) /\ j \notin Exhausted
  BY <1>0, LiveWas DEF LiveOwn, Live
<1>4. v \in 1..Len(versions) /\ Follows(v)
  BY <1>0
<1>5. \A g \in 1..Len(generations) : Served(g)' = Served(g)
  BY ServedMoves DEF RagInv
<1>6. CASE versions[v] = "uploaded" /\ v \in Stranded
  <2>1. PICK e \in Exhausted : jobs[e].stage # "purge" /\ jobs[e].version = v
    BY <1>6 DEF Stranded
  <2>2. e \in 1..Len(jobs) /\ LiveOwn(e, v)
    BY <1>0, <2>1 DEF Exhausted, LiveOwn, Live
  <2>3. \A j \in 1..Len(jobs') : ~LiveOwn(j, v)'
    BY <1>0, <1>3, <1>4, <1>6, <2>1, <2>2 DEF Follows
  <2>4. versions'[v] = "failed"
    BY <1>0, <1>4, <1>6
  <2> QED
    BY <2>3, <2>4 DEF Follows
<1>7. CASE ~(versions[v] = "uploaded" /\ v \in Stranded)
  <2>1. versions'[v] = versions[v]
    BY <1>0, <1>4, <1>7
  <2>2. ASSUME versions[v] = "uploaded", NEW j \in 1..Len(jobs), LiveOwn(j, v) PROVE LiveOwn(j, v)'
    <3>1. CASE j \in Exhausted
      <4>1. \A i \in 1..Len(jobs) : i # j /\ jobs[i].version = v => jobs[i].status \notin Live
        <5>1. \A i \in 1..Len(jobs) : LiveOwn(i, v) => i = j
          BY <1>4, <2>2 DEF Follows
        <5>2. \A i \in 1..Len(jobs) : jobs[i].version = v => jobs[i].stage # "purge"
          BY <1>0, <1>4, <2>2 DEF JobInv, DocInv
        <5> QED
          BY <5>1, <5>2 DEF LiveOwn
      <4>2. v \in Stranded
        BY <1>0, <1>4, <2>2, <3>1, <4>1 DEF Stranded, LiveOwn
      <4> QED
        BY <1>7, <2>2, <4>2
    <3> QED
      BY <1>2, <2>2, <3>1
  <2> QED
    BY <1>0, <1>4, <1>5, <2>1, <2>2, FollowsStill
<1> QED
  BY <1>6, <1>7

\* A job that fails for good takes with it the version that waits for it.
LEMMA FinishFollows ==
  ASSUME RagInv, RebuildNext, NEW w \in Workers, worker[w] # Idle,
         NEW outcome \in {"succeeded", "failed", "retry"}, Finish(w, outcome),
         outcome = "succeeded" => Mine(w).stage = "purge", \A x \in Workers : ~Published(x),
         NEW v \in 1..Len(versions'), v \in 1..Len(versions) => Follows(v)
  PROVE  Follows(v)'
<1>0. RowsInv /\ JobsMove
  BY JobsMoves DEF RagInv
<1>1. PICK j : j = worker[w].job
  OBVIOUS
<1>2. /\ j \in 1..Len(jobs) /\ Mine(w) = jobs[j] /\ Len(jobs') = Len(jobs)
      /\ \A i \in 1..Len(jobs) : i # j => jobs'[i] = jobs[i]
      /\ Holds(w) => jobs[j].status \in Live
  BY <1>0, <1>1, FinishRows, MineIs
<1>3. \A g \in 1..Len(generations) : Served(g)' = Served(g)
  BY ServedMoves DEF RagInv
<1>4. ASSUME versions' = versions, jobs[j].stage = "purge" \/ jobs'[j].status \in Live \/ jobs' = jobs
      PROVE  Follows(v)'
  <2>1. \A i \in 1..Len(jobs) : LiveOwn(i, v) => LiveOwn(i, v)'
    <3> SUFFICES ASSUME NEW i \in 1..Len(jobs), LiveOwn(i, v) PROVE LiveOwn(i, v)'
      OBVIOUS
    <3>1. jobs'[i].version = jobs[i].version /\ jobs'[i].stage = jobs[i].stage
      BY <1>0, OldJobs
    <3> QED
      BY <1>2, <1>4, <3>1 DEF LiveOwn
  <2> QED
    BY <1>0, <1>2, <1>3, <1>4, <2>1, FollowsStill
<1>5. ASSUME Holds(w), SameJob(jobs[j], jobs'[j]), jobs'[j].status = "failed", jobs[j].stage # "purge",
             versions' = FailVersions({jobs[j].version})
      PROVE  Follows(v)'
  <2>1. /\ v \in 1..Len(versions) /\ Follows(v)
        /\ versions'[v] = IF v = jobs[j].version /\ versions[v] = "uploaded" THEN "failed" ELSE versions[v]
    BY <1>0, <1>5, FailVersionsRows DEF RowsInv
  <2>2. CASE v = jobs[j].version /\ versions[v] = "uploaded"
    <3>1. LiveOwn(j, v) /\ ~LiveOwn(j, v)'
      BY <1>2, <1>5, <2>2 DEF LiveOwn, Live
    <3>2. \A i \in 1..Len(jobs') : ~LiveOwn(i, v)'
      BY <1>0, <1>2, <2>1, <2>2, <3>1, LiveWas DEF Follows
    <3> QED
      BY <2>1, <2>2, <3>2 DEF Follows
  <2>3. CASE v # jobs[j].version \/ versions[v] # "uploaded"
    <3>1. versions[v] = "uploaded" => \A i \in 1..Len(jobs) : LiveOwn(i, v) => LiveOwn(i, v)'
      BY <1>2, <2>3 DEF LiveOwn
    <3> QED
      BY <1>0, <1>2, <1>3, <2>1, <2>3, <3>1, FollowsStill
  <2> QED
    BY <2>2, <2>3
<1>6. \/ jobs' = jobs /\ versions' = versions
      \/ jobs'[j].status = "pending" /\ versions' = versions
      \/ /\ Holds(w) /\ SameJob(jobs[j], jobs'[j])
         /\ jobs'[j].status = (IF outcome = "succeeded" THEN "succeeded" ELSE "failed")
         /\ versions' = IF outcome # "succeeded" /\ jobs[j].stage # "purge"
                        THEN FailVersions({jobs[j].version}) ELSE versions
  BY <1>0, <1>1, FinishRows
<1> QED
  BY <1>2, <1>4, <1>5, <1>6 DEF Live

\* The embedding job takes the place of the parse job.
LEMMA CompletedFollows ==
  ASSUME RagInv, RebuildNext, NEW w \in Workers, ParseCompleted(w), \A x \in Workers : ~Published(x),
         NEW v \in 1..Len(versions'), v \in 1..Len(versions) => Follows(v)
  PROVE  Follows(v)'
<1>0. RowsInv /\ JobsMove /\ Len(jobs) \in Nat /\ versions' = versions
  BY JobsMoves, Domains DEF RagInv, RowsInv, ParseCompleted
<1>1. PICK j, n : j = worker[w].job /\ n = Len(jobs) + 1
  OBVIOUS
<1>2. /\ j \in 1..Len(jobs) /\ Len(jobs') = n
      /\ \A i \in 1..Len(jobs) : i # j => jobs'[i] = jobs[i]
      /\ jobs'[j].status = "succeeded" /\ jobs[j].stage = "parse" /\ jobs[j].status \in Live
      /\ jobs'[n].stage = "embedding" /\ jobs'[n].version = jobs[j].version /\ jobs'[n].gen = jobs[j].gen
      /\ jobs'[n].status = "pending"
  BY <1>0, <1>1, ParseCompletedRows
<1>3. n \in 1..Len(jobs') /\ \A i \in 1..Len(jobs') : i \notin 1..Len(jobs) => i = n
  BY <1>0, <1>1, <1>2
<1>4. \A g \in 1..Len(generations) : Served(g)' = Served(g)
  BY ServedMoves DEF RagInv
<1>5. v \in 1..Len(versions) /\ Follows(v)
  BY <1>0
<1>6. CASE v # jobs[j].version
  <2>1. \A i \in 1..Len(jobs') : i \notin 1..Len(jobs) => ~LiveOwn(i, v)'
    BY <1>2, <1>3, <1>6 DEF LiveOwn
  <2>2. \A i \in 1..Len(jobs) : LiveOwn(i, v) => LiveOwn(i, v)'
    BY <1>2, <1>6 DEF LiveOwn
  <2> QED
    BY <1>0, <1>4, <1>5, <2>1, <2>2, FollowsStill
<1>7. CASE v = jobs[j].version
  <2>1. LiveOwn(j, v) /\ ~LiveOwn(j, v)' /\ LiveOwn(n, v)'
    BY <1>2, <1>7 DEF LiveOwn, Live
  <2>2. \A i \in 1..Len(jobs') : LiveOwn(i, v)' =>
          i = n \/ (i \in 1..Len(jobs) /\ i # j /\ LiveOwn(i, v) /\ jobs'[i].gen = jobs[i].gen)
    BY <1>0, <1>3, <2>1, LiveWas
  <2>3. versions[v] = "uploaded" => \A i \in 1..Len(jobs') : LiveOwn(i, v)' => i = n
    BY <1>2, <1>5, <2>1, <2>2 DEF Follows
  <2>4. versions[v] # "failed"
    BY <1>2, <1>5, <2>1 DEF Follows
  <2>5. ASSUME versions[v] \in {"active", "tombstoned"}, NEW i \in 1..Len(jobs'), LiveOwn(i, v)', Bound(jobs'[i])
        PROVE  Served(jobs[i].gen)' # v
    <3>1. PICK g : g = jobs'[i].gen
      OBVIOUS
    <3>2. PICK k \in 1..Len(jobs) : LiveOwn(k, v) /\ jobs[k].gen = g
      BY <1>2, <2>1, <2>2, <2>5, <3>1
    <3>3. Bound(jobs[k])
      BY <2>5, <3>1, <3>2 DEF Bound
    <3>4. g \in 1..Len(generations) /\ Served(g) # v
      BY <1>0, <1>5, <2>5, <3>2, <3>3, BoundGen DEF Follows
    <3> QED
      BY <1>4, <3>1, <3>4 DEF Served
  <2>6. \A i, k \in 1..Len(jobs') : LiveOwn(i, v)' /\ LiveOwn(k, v)' /\ jobs'[i].gen = jobs'[k].gen => i = k
    BY <1>2, <1>5, <2>1, <2>2 DEF Follows
  <2> QED
    BY <1>0, <1>3, <2>1, <2>3, <2>4, <2>5, <2>6 DEF Follows
<1> QED
  BY <1>6, <1>7

\* The job that publishes a version is its only one for that generation.
LEMMA PublishedFollows ==
  ASSUME RagInv, RebuildNext, NEW w \in Workers, Published(w),
         NEW u \in 1..Len(versions'), u \in 1..Len(versions) => Follows(u)
  PROVE  Follows(u)'
<1>0. RowsInv /\ JobsMove /\ JobInv /\ ClaimInv /\ DocInv /\ Growing
  BY JobsMoves, Grows DEF RagInv
<1>1. PICK j, m, g, v : j = worker[w].job /\ m = Mine(w).mat /\ g = Mine(w).gen /\ v = Mine(w).version
  OBVIOUS
<1>2. /\ j \in 1..Len(jobs) /\ m \in 1..Len(mats) /\ g \in 1..Len(generations) /\ v \in 1..Len(versions)
      /\ Mine(w) = jobs[j] /\ jobs[j].stage = "embedding" /\ jobs[j].status \in Live /\ Wanted(v)
      /\ Len(jobs') = Len(jobs) /\ \A i \in 1..Len(jobs) : i # j => jobs'[i] = jobs[i]
      /\ jobs'[j].status = "succeeded" /\ m # 0
      /\ mats'[m].version = v /\ generations'[g].head = m
      /\ \A i \in 1..Len(generations) : i # g => generations'[i] = generations[i]
      /\ Len(versions') = Len(versions)
      /\ \A x \in 1..Len(versions) : versions'[x] =
           IF x = v THEN "active" ELSE IF x = current /\ versions[x] = "active" THEN "tombstoned" ELSE versions[x]
  BY <1>0, <1>1, PublishedRows
<1>3. jobs[j].version = v /\ jobs[j].gen = g /\ LiveOwn(j, v) /\ ~LiveOwn(j, u)'
  BY <1>1, <1>2 DEF LiveOwn, Live
<1>4. \A i \in 1..Len(jobs') : LiveOwn(i, u)' => i # j /\ LiveOwn(i, u) /\ jobs'[i] = jobs[i]
  BY <1>0, <1>2, <1>3, LiveWas
<1>5. Served(g)' = v /\ \A h \in 1..Len(generations) : h # g => Served(h)' = Served(h)
  BY <1>0, <1>2, ServedStays DEF Served
<1>6. u \in 1..Len(versions) /\ Follows(u)
  BY <1>2
<1>7. ASSUME u = v \/ u = current, NEW i \in 1..Len(jobs'), LiveOwn(i, u)', Bound(jobs'[i])
      PROVE  Served(jobs[i].gen)' # u
  <2>1. PICK h : h = jobs'[i].gen
    OBVIOUS
  <2>2. i \in 1..Len(jobs) /\ i # j /\ LiveOwn(i, u) /\ jobs[i].gen = h /\ Bound(jobs[i])
    BY <1>2, <1>4, <1>7, <2>1
  <2>3. h \in 1..Len(generations)
    BY <1>0, <2>2, BoundGen
  <2>4. u = v => h # g
    BY <1>2, <1>3, <1>6, <2>2 DEF Follows
  <2>5. versions[u] # "failed"
    BY <1>2, <1>6, <2>2 DEF Follows
  <2>6. u = v => versions[u] = "active"
    BY <1>2, <1>3, <1>6, <2>2 DEF Wanted, Follows
  <2>7. h # g => Served(h) # u
    <3>1. CASE versions[u] \in {"active", "tombstoned"}
      BY <1>6, <2>2, <3>1 DEF Follows
    <3>2. CASE versions[u] \notin {"active", "tombstoned"}
      <4>1. versions[u] = "uploaded" /\ u # v /\ u = current
        BY <1>0, <1>6, <1>7, <2>5, <2>6, <3>2, Domains DEF RowsInv, VersionStatus
      <4> QED
        BY <1>0, <1>2, <1>6, <4>1 DEF DocInv, Wanted
    <3> QED
      BY <3>1, <3>2
  <2>8. Served(h)' # u
    BY <1>5, <2>3, <2>4, <2>7
  <2> QED
    BY <2>1, <2>8 DEF Served
<1>8. CASE u # v /\ ~(u = current /\ versions[u] = "active")
  <2>1. versions'[u] = versions[u]
    BY <1>2, <1>6, <1>8
  <2>2. \A i \in 1..Len(jobs) : LiveOwn(i, u) => LiveOwn(i, u)'
    BY <1>2, <1>3, <1>8 DEF LiveOwn
  <2>3. \A h \in 1..Len(generations) : Served(h)' = Served(h) \/ Served(h)' # u
    BY <1>5, <1>8
  <2>4. \A i \in 1..Len(jobs') : i \notin 1..Len(jobs) => ~LiveOwn(i, u)'
    BY <1>2
  <2> QED
    BY <1>0, <1>6, <2>1, <2>2, <2>3, <2>4, FollowsStill
<1>9. CASE u = v \/ (u = current /\ versions[u] = "active")
  <2>1. versions'[u] \in {"active", "tombstoned"}
    BY <1>2, <1>6, <1>9
  <2>2. \A i, k \in 1..Len(jobs') : LiveOwn(i, u)' /\ LiveOwn(k, u)' /\ jobs'[i].gen = jobs'[k].gen => i = k
    BY <1>2, <1>4, <1>6 DEF Follows
  <2> QED
    BY <1>7, <1>9, <2>1, <2>2 DEF Follows
<1> QED
  BY <1>8, <1>9

\* Of the other steps an operator's replay makes a job, and no step changes the status
\* of a version or ends a job.
LEMMA OthersFollow ==
  ASSUME RagInv, RebuildNext, \A w \in Workers : ~Published(w),
         \/ \E j \in 1..Len(jobs) : Replay(j) \/ Expire(j)
         \/ \E w \in Workers : PartDone(w) \/ Quiet(w)
         \/ DropLock \/ \E g \in 1..Len(generations) : Commands(g),
         NEW v \in 1..Len(versions'), v \in 1..Len(versions) => Follows(v), Plain(v)'
  PROVE  Follows(v)'
<1>0. RowsInv /\ JobsMove /\ jobs \in Seq(JobRec) /\ Len(jobs) \in Nat /\ DOMAIN jobs = 1..Len(jobs)
  BY JobsMoves, Domains DEF RagInv, RowsInv, RagTypes
<1>1. versions' = versions
  BY DEF Replay, Expire, documentVars, PartDone, SourceRead, RowsStaged, RowsFetched, VectorStaged, RowsPurged,
         workFrame, Quiet, Abandon, Start, Crash, DropLock, Commands, commandFrame, rebuildFrame
<1>2. \A g \in 1..Len(generations) : Served(g)' = Served(g)
  BY ServedMoves DEF RagInv
<1>3. ASSUME \A j \in 1..Len(jobs') : j \notin 1..Len(jobs) => ~LiveOwn(j, v)',
             \A j \in 1..Len(jobs) : jobs'[j].status = jobs[j].status
      PROVE  Follows(v)'
  <2>1. \A j \in 1..Len(jobs) : LiveOwn(j, v) => LiveOwn(j, v)'
    BY <1>0, <1>3, OldJobs DEF LiveOwn
  <2> QED
    BY <1>0, <1>1, <1>2, <1>3, <2>1, FollowsStill
<1>4. ASSUME NEW j \in 1..Len(jobs), Replay(j) PROVE Follows(v)'
  <2>1. PICK job : job = Job(jobs[j].stage, jobs[j].version, jobs[j].gen, jobs[j].mat, TRUE)
    OBVIOUS
  <2>2. job \in JobRec /\ job.replay
    <3>1. /\ jobs[j].stage \in {"parse", "embedding", "purge"} /\ jobs[j].version \in 1..MaxVersions
          /\ jobs[j].gen \in Nat /\ jobs[j].mat \in Nat
      BY <1>0, Domains DEF RowsInv, JobRec
    <3>2. PICK st \in {"parse", "embedding", "purge"}, u \in 1..MaxVersions, g \in Nat, m \in Nat, b \in BOOLEAN :
            st = jobs[j].stage /\ u = jobs[j].version /\ g = jobs[j].gen /\ m = jobs[j].mat /\ b = TRUE
      BY <3>1
    <3>3. job = Job(st, u, g, m, b)
      BY <2>1, <3>2
    <3>4. Job(st, u, g, m, b) \in JobRec
      BY JobTyped
    <3>5. job.replay
      BY <2>1 DEF Job
    <3> QED
      BY <3>3, <3>4, <3>5
  <2>3. jobs' = Append(jobs, job)
    BY <1>4, <2>1 DEF Replay
  <2>4. /\ Len(jobs') = Len(jobs) + 1 /\ jobs'[Len(jobs) + 1] = job
        /\ \A i \in 1..Len(jobs) : jobs'[i] = jobs[i]
    BY <1>0, <2>2, <2>3, AppendJob
  <2>5. \A i \in 1..Len(jobs') : i \notin 1..Len(jobs) => jobs'[i].replay
    <3>1. \A i \in 1..Len(jobs') : i \notin 1..Len(jobs) => i = Len(jobs) + 1
      BY <1>0, <2>4
    <3> QED
      BY <2>2, <2>4, <3>1
  <2>6. \A i \in 1..Len(jobs') : i \notin 1..Len(jobs) => ~LiveOwn(i, v)'
    BY <2>5 DEF Plain, LiveOwn
  <2> QED
    BY <1>3, <2>4, <2>6
<1>5. ASSUME NEW j \in 1..Len(jobs), Expire(j) PROVE Follows(v)'
  <2>1. jobs' = [jobs EXCEPT ![j] = [jobs[j] EXCEPT !.lease = FALSE]]
    BY <1>0, <1>5 DEF Expire
  <2>2. DOMAIN jobs' = 1..Len(jobs) /\ \A i \in 1..Len(jobs) : jobs'[i].status = jobs[i].status
    BY <1>0, <2>1, Domains DEF RowsInv, JobRec
  <2>3. Len(jobs') = Len(jobs)
    BY <1>0, <2>2, LenProperties DEF JobsMove
  <2> QED
    BY <1>3, <2>2, <2>3
<1>6. ASSUME UNCHANGED jobs PROVE Follows(v)'
  BY <1>3, <1>6
<1>7. ASSUME \/ \E w \in Workers : PartDone(w) \/ Quiet(w)
             \/ DropLock \/ \E g \in 1..Len(generations) : Commands(g)
      PROVE  UNCHANGED jobs
  BY <1>7 DEF PartDone, SourceRead, RowsStaged, RowsFetched, VectorStaged, RowsPurged,
              workFrame, Quiet, Abandon, Start, Crash, DropLock, Commands, commandFrame
<1> QED
  BY <1>4, <1>5, <1>6, <1>7

LEMMA FollowKeeps ==
  ASSUME RagInv, FollowInv, RebuildNext
  PROVE  FollowInv'
<1> SUFFICES ASSUME NEW v \in 1..Len(versions'), Plain(v)' PROVE Follows(v)'
  BY DEF FollowInv
<1>0. RowsInv /\ JobsMove
  BY JobsMoves DEF RagInv
<1>1. v \in 1..Len(versions) => Follows(v)
  BY <1>0, PlainWas DEF FollowInv
<1>2. ASSUME NEW w \in Workers, Published(w) PROVE Follows(v)'
  BY <1>1, <1>2, PublishedFollows
<1>3. CASE \A w \in Workers : ~Published(w)
  <2>1. ASSUME NEW u \in 1..MaxVersions, Adds(u) \/ \E g \in 1..Len(generations) : AddsUnbound(u, g)
        PROVE  Follows(v)'
    BY <2>1, AddsFollow
  <2>2. CASE Deletes
    BY <2>2, DeletesFollow
  <2>3. CASE Begin
    BY <1>1, <1>3, <2>3, BeginFollows
  <2>4. ASSUME NEW w \in Workers, Claim(w) PROVE Follows(v)'
    BY <1>1, <1>3, <2>4, ClaimFollows
  <2>5. ASSUME NEW w \in Workers, Ends(w) PROVE Follows(v)'
    BY <1>1, <1>3, <2>5, FinishFollows DEF Ends
  <2>6. ASSUME NEW w \in Workers, PurgeAsserted(w) PROVE Follows(v)'
    BY <1>1, <1>3, <2>6, FinishFollows DEF PurgeAsserted, At
  <2>7. ASSUME NEW w \in Workers, ParseCompleted(w) PROVE Follows(v)'
    BY <1>1, <1>3, <2>7, CompletedFollows
  <2>8. CASE \/ \E j \in 1..Len(jobs) : Replay(j) \/ Expire(j)
             \/ \E w \in Workers : PartDone(w) \/ Quiet(w)
             \/ DropLock \/ \E g \in 1..Len(generations) : Commands(g)
    BY <1>1, <1>3, <2>8, OthersFollow
  <2> QED
    BY <1>0, <1>3, <2>1, <2>2, <2>3, <2>4, <2>5, <2>6, <2>7, <2>8, Kinds
<1> QED
  BY <1>2, <1>3

LEMMA InvVersionFollowsJobs == RagInv /\ FollowInv => VersionFollowsJobs
<1> SUFFICES ASSUME RagInv, FollowInv PROVE VersionFollowsJobs
  OBVIOUS
<1>0. DOMAIN versions = 1..Len(versions) /\ DOMAIN jobs = 1..Len(jobs)
  BY Domains DEF RagInv, RowsInv
<1> SUFFICES ASSUME NEW v \in 1..Len(versions)
             PROVE  LET own  == {j \in 1..Len(jobs) : jobs[j].version = v /\ jobs[j].stage # "purge"}
                        live == {j \in own : jobs[j].status \in Live}
                    IN (\A j \in own : ~jobs[j].replay) =>
                         /\ versions[v] = "uploaded" => live # {}
                         /\ versions[v] = "failed" => live = {}
                         /\ versions[v] \in {"active", "tombstoned"} =>
                              \A j \in live : Bound(jobs[j]) => Served(jobs[j].gen) # v
                         /\ \A i, j \in live : jobs[i].gen = jobs[j].gen => i = j
  BY <1>0 DEF VersionFollowsJobs
<1> DEFINE own  == {j \in 1..Len(jobs) : jobs[j].version = v /\ jobs[j].stage # "purge"}
           live == {j \in own : jobs[j].status \in Live}
<1>1. SUFFICES ASSUME \A j \in own : ~jobs[j].replay
               PROVE  /\ versions[v] = "uploaded" => live # {}
                      /\ versions[v] = "failed" => live = {}
                      /\ versions[v] \in {"active", "tombstoned"} =>
                           \A j \in live : Bound(jobs[j]) => Served(jobs[j].gen) # v
                      /\ \A i, j \in live : jobs[i].gen = jobs[j].gen => i = j
  OBVIOUS
<1>2. Follows(v)
  BY <1>1 DEF FollowInv, Plain
<1>3. \A j \in 1..Len(jobs) : j \in live <=> LiveOwn(j, v)
  BY DEF LiveOwn
<1>4. live \subseteq 1..Len(jobs)
  OBVIOUS
<1> HIDE DEF live
<1> QED
  BY <1>2, <1>3, <1>4 DEF Follows

\* Without an operator's replay a version waits exactly as long as a job of it is live,
\* and no two jobs work on it for one generation.
THEOREM VersionsFollow == RebuildSpec => []VersionFollowsJobs
<1>1. Init => FollowInv
  BY DEF Init, FollowInv
<1>2. RagInv /\ FollowInv /\ [RebuildNext]_vars => FollowInv'
  <2>1. ASSUME RagInv, FollowInv, UNCHANGED vars PROVE FollowInv'
    BY <2>1 DEF FollowInv, Plain, Follows, LiveOwn, Bound, Served, vars, documentVars
  <2> QED
    BY <2>1, FollowKeeps
<1>3. RebuildSpec => []FollowInv
  BY <1>1, <1>2, RagInvariant, PTL DEF RebuildSpec
<1> QED
  BY <1>3, RagInvariant, InvVersionFollowsJobs, PTL
=============================================================================
