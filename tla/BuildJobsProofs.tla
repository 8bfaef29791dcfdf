-------------------------- MODULE BuildJobsProofs --------------------------
(* Proofs about module BuildJobs, for any number of requests, cascades of  *)
(* any length and any pollers.                                             *)
EXTENDS BuildJobs, TLAPS

USE MaxJobsAssumption, ClientAssumption

Steps == {"begin", "make", "callback", "finish", "publish", "skip"}

(***************************************************************************)
(* What a step of one request leaves alone.                                *)
(***************************************************************************)

\* A step that is about one request keeps the invariants of the others.
LEMMA OthersKept ==
    ASSUME NEW r \in Requests,
           \A s \in Requests \ {r} :
               /\ stage'[s] = stage[s] /\ size'[s] = size[s]
               /\ at'[s] = at[s] /\ step'[s] = step[s],
           \A s \in Requests \ {r}, i \in 1..MaxJobs :
               jobs'[<<s, i>>] = jobs[<<s, i>>]
    PROVE  \A s \in Requests \ {r} :
               /\ RequestInv(s) => RequestInv(s)'
               /\ \A i \in 1..MaxJobs : JobInv(s, i) => JobInv(s, i)'
<1> SUFFICES ASSUME NEW s \in Requests \ {r}
             PROVE  /\ RequestInv(s) => RequestInv(s)'
                    /\ \A i \in 1..MaxJobs : JobInv(s, i) => JobInv(s, i)'
  OBVIOUS
<1>1. RequestInv(s) => RequestInv(s)'
  BY DEF RequestInv
<1>2. RootOk(s)' = RootOk(s)
  BY DEF RootOk
<1>3. ASSUME NEW i \in 1..MaxJobs PROVE Done(s, i)' <=> Done(s, i)
  BY <1>2 DEF Done
<1>4. ASSUME NEW i \in 1..MaxJobs
      PROVE  InProgress(s, jobs[<<s, i>>])' <=> InProgress(s, jobs[<<s, i>>])
  BY <1>2 DEF InProgress
<1>5. ASSUME NEW i \in 1..MaxJobs PROVE JobInv(s, i) => JobInv(s, i)'
  BY <1>3, <1>4 DEF JobInv
<1>6. QED
  BY <1>1, <1>5

\* Nobody's poll is spoilt as long as the jobs that have been run stay as
\* they are.
LEMMA PollKept ==
    ASSUME TypeOK, PollInv, poll' = poll,
           \A j \in JobIds : jobs[j].state \in Executed => jobs'[j] = jobs[j]
    PROVE  PollInv'
<1>1. poll.reading # "idle" => poll.job \in JobIds
  BY DEF TypeOK, PollResult
<1>2. QED
  BY <1>1 DEF PollInv

\* The lock's invariant survives any step that keeps the holders.
LEMMA LockKept ==
    ASSUME LockInv, UNCHANGED lock,
           \A s \in Requests :
               stage'[s] \in Building \cup {"leaked"} =>
                   stage[s] \in Building \cup {"leaked"}
    PROVE  LockInv'
BY DEF LockInv

(***************************************************************************)
(* The build thread.                                                       *)
(***************************************************************************)

\* The job a thread is at has not been run.
LEMMA CurrentNotRun ==
    ASSUME IInv, NEW r \in Requests, stage[r] = "run", at[r] <= size[r]
    PROVE  /\ at[r] \in 1..MaxJobs
           /\ Current(r) \in JobIds
           /\ InProgress(r, jobs[Current(r)])
           /\ jobs[Current(r)] \in Job
           /\ jobs[Current(r)].state \notin Executed
<1>1. at[r] \in 1..MaxJobs
  BY DEF IInv, TypeOK
<1>2. Current(r) \in JobIds
  BY <1>1 DEF Current, JobIds
<1>3. InProgress(r, jobs[Current(r)])
  <2>1. JobInv(r, at[r])
    BY <1>1 DEF IInv
  <2>2. at[r] \in Int /\ size[r] \in Int
    BY DEF IInv, TypeOK
  <2>3. QED
    BY <2>1, <2>2 DEF JobInv, Current
<1>4. jobs[Current(r)].state \notin Executed
  BY <1>3 DEF InProgress, Executed, Queued, Unstarted
<1>5. QED
  BY <1>1, <1>2, <1>3, <1>4 DEF IInv, TypeOK

\* A thread changes one job, and goes on with it or turns to the next.
LEMMA ThreadStep ==
    ASSUME IInv, NEW r \in Requests, stage[r] = "run", at[r] <= size[r],
           NEW job \in Job, NEW s \in Steps,
           jobs' = [jobs EXCEPT ![Current(r)] = job],
           UNCHANGED <<lock, stage, size, autoReboot, parentFile, poll>>,
           outcome' \in [Requests -> Executed],
           step' = [step EXCEPT ![r] = s],
           \/ at' = at /\ InProgress(r, job)'
           \/ /\ at' = [at EXCEPT ![r] = @ + 1]
              /\ s = "begin"
              /\ \A k \in Int : k = at[r] => Done(r, k)'
    PROVE  IInv'
<1>1. /\ TypeOK /\ LockInv /\ PollInv /\ RequestInv(r)
      /\ \A i \in 1..MaxJobs : JobInv(r, i)
      /\ at[r] \in 1..MaxJobs /\ size[r] \in 1..MaxJobs
      /\ at \in [Requests -> 1..(MaxJobs + 1)]
      /\ jobs \in [JobIds -> Job] /\ step \in [Requests -> Steps]
      /\ Current(r) \in JobIds /\ jobs[Current(r)].state \notin Executed
  BY CurrentNotRun DEF IInv, TypeOK, Steps, RequestInv
<1>2. at'[r] \in {at[r], at[r] + 1} /\ at' \in [Requests -> 1..(MaxJobs + 1)]
  BY <1>1
<1>3. TypeOK'
  BY <1>1, <1>2 DEF TypeOK, Steps
<1>4. LockInv'
  BY <1>1, LockKept
<1>5. PollInv'
  BY <1>1, PollKept
<1>6. RequestInv(r)'
  BY <1>1, <1>2 DEF RequestInv
<1>7. \A i \in 1..MaxJobs : i # at[r] => jobs'[<<r, i>>] = jobs[<<r, i>>]
  BY <1>1 DEF Current, JobIds
<1>8. jobs'[<<r, at[r]>>] = job
  BY <1>1 DEF Current
<1>9. ASSUME NEW i \in 1..MaxJobs PROVE JobInv(r, i)'
  <2>1. CASE i < at[r]
    <3>1. 1 # at[r]
      BY <1>1, <2>1
    <3>2. RootOk(r)' = RootOk(r)
      BY <1>7, <3>1 DEF RootOk
    <3>3. Done(r, i)
      BY <1>1, <2>1 DEF JobInv
    <3>4. Done(r, i)'
      BY <1>1, <1>7, <2>1, <3>2, <3>3 DEF Done
    <3>5. stage'[r] = "run" /\ i < at'[r]
      BY <1>1, <1>2, <2>1
    <3>6. QED
      BY <3>4, <3>5 DEF JobInv
  <2>2. CASE i = at[r]
    <3>1. CASE at' = at /\ InProgress(r, job)'
      BY <1>1, <1>8, <2>2, <3>1 DEF JobInv
    <3>2. CASE at' = [at EXCEPT ![r] = @ + 1] /\ Done(r, i)'
      <4>1. i < at'[r] /\ Done(r, i)'
        BY <1>1, <2>2, <3>2
      <4>2. QED
        BY <4>1 DEF JobInv
    <3>3. QED
      BY <2>2, <3>1, <3>2
  <2>3. CASE i > at[r]
    <3>1. jobs'[<<r, i>>] = jobs[<<r, i>>]
      BY <1>1, <1>7, <2>3
    <3>2. jobs[<<r, i>>] = IF i > size[r] THEN NoJob ELSE Queued
      BY <1>1, <2>3 DEF JobInv
    <3>3. CASE at'[r] = at[r]
      BY <1>1, <2>3, <3>1, <3>2, <3>3 DEF JobInv
    <3>4. CASE at'[r] # at[r]
      <4>1. at'[r] = at[r] + 1 /\ step'[r] = "begin"
        BY <1>1, <1>2, <3>4
      <4>2. InProgress(r, Queued)'
        BY <4>1 DEF InProgress, Queued, Unstarted
      <4>3. i > at'[r] \/ i = at'[r]
        BY <1>1, <2>3, <4>1
      <4>4. ~(i < at'[r])
        BY <1>1, <2>3, <4>1
      <4>5. QED
        BY <1>1, <3>1, <3>2, <4>2, <4>3, <4>4 DEF JobInv
    <3>5. QED
      BY <3>3, <3>4
  <2>4. QED
    BY <1>1, <2>1, <2>2, <2>3
<1>10. \A q \in Requests \ {r} :
           /\ RequestInv(q) => RequestInv(q)'
           /\ \A i \in 1..MaxJobs : JobInv(q, i) => JobInv(q, i)'
  <2>1. \A q \in Requests \ {r} :
            /\ stage'[q] = stage[q] /\ size'[q] = size[q]
            /\ at'[q] = at[q] /\ step'[q] = step[q]
    BY <1>1
  <2>2. \A q \in Requests \ {r}, i \in 1..MaxJobs :
            jobs'[<<q, i>>] = jobs[<<q, i>>]
    BY <1>1 DEF Current, JobIds
  <2>3. QED
    BY <2>1, <2>2, OthersKept
<1>11. QED
  BY <1>3, <1>4, <1>5, <1>6, <1>9, <1>10 DEF IInv

\* What a write to one field of a job leaves.
LEMMA StateWritten ==
    ASSUME NEW x \in Job, NEW v \in JobState
    PROVE  \E y \in Job : /\ y = [x EXCEPT !.state = v]
                          /\ y.state = v
                          /\ y.exited = x.exited
                          /\ y.finished = x.finished
<1> USE DEF Job
<1> WITNESS [x EXCEPT !.state = v] \in Job
<1> QED
  OBVIOUS

LEMMA ExitWritten ==
    ASSUME NEW x \in Job
    PROVE  \E y \in Job : /\ y = [x EXCEPT !.exited = TRUE]
                          /\ y.state = x.state
                          /\ y.exited
<1> USE DEF Job
<1> WITNESS [x EXCEPT !.exited = TRUE] \in Job
<1> QED
  OBVIOUS

LEMMA ArmedWritten ==
    ASSUME NEW x \in Job, NEW b \in BOOLEAN
    PROVE  \E y \in Job : /\ y = [x EXCEPT !.armed = b]
                          /\ y.state = x.state
                          /\ y.exited = x.exited
<1> USE DEF Job
<1> WITNESS [x EXCEPT !.armed = b] \in Job
<1> QED
  OBVIOUS

LEMMA FinishWritten ==
    ASSUME NEW x \in Job
    PROVE  \E y \in Job : /\ y = [x EXCEPT !.finished = TRUE]
                          /\ y.state = x.state
                          /\ y.exited = x.exited
                          /\ y.finished
<1> USE DEF Job
<1> WITNESS [x EXCEPT !.finished = TRUE] \in Job
<1> QED
  OBVIOUS

\* Every step of the build thread.
LEMMA ThreadIInv ==
    ASSUME IInv, NEW r \in Requests, stage[r] = "run", at[r] <= size[r],
           BuildThread(r)
    PROVE  IInv'
<1> DEFINE old == jobs[Current(r)]
<1>1. /\ InProgress(r, old) /\ old \in Job /\ at[r] \in 1..MaxJobs
      /\ Current(r) \in JobIds /\ jobs \in [JobIds -> Job]
      /\ outcome \in [Requests -> Executed]
      /\ autoReboot[r] \in BOOLEAN
  BY CurrentNotRun DEF IInv, TypeOK
<1>2. ASSUME NEW job, jobs' = [jobs EXCEPT ![Current(r)] = job]
      PROVE  /\ at[r] # 1 => RootOk(r)' = RootOk(r)
             /\ jobs'[<<r, at[r]>>] = job
             /\ at[r] = 1 => (RootOk(r)' <=> job.state = "succeeded")
  BY <1>1, <1>2 DEF RootOk, Current
<1>3. CASE Begin(r)
  <2>1. PICK job \in Job :
            /\ job = [old EXCEPT !.state = "running"]
            /\ job.state = "running"
    BY <1>1, StateWritten DEF JobState, Executed
  <2>2. jobs' = [jobs EXCEPT ![Current(r)] = job]
    BY <1>3, <2>1 DEF Begin
  <2>3. /\ at' = at /\ outcome' = outcome
        /\ UNCHANGED <<lock, stage, size, autoReboot, parentFile, poll>>
        /\ step' = [step EXCEPT ![r] = "make"] /\ step'[r] = "make"
        /\ at[r] = 1 \/ RootOk(r)
    BY <1>3 DEF Begin, Goto, IInv, TypeOK
  <2>4. InProgress(r, job)'
    BY <1>2, <2>1, <2>2, <2>3 DEF InProgress
  <2>5. QED
    BY <1>1, <2>1, <2>2, <2>3, <2>4, ThreadStep DEF Steps
<1>4. ASSUME NEW o \in Executed, MakeExits(r, o) PROVE IInv'
  <2> DEFINE s == IF o = "succeeded" THEN "callback" ELSE "finish"
  <2>1. PICK job \in Job :
            /\ job = [old EXCEPT !.exited = TRUE]
            /\ job.state = old.state
            /\ job.exited
    BY <1>1, ExitWritten
  <2>2. jobs' = [jobs EXCEPT ![Current(r)] = job]
    BY <1>4, <2>1 DEF MakeExits
  <2>3. /\ at' = at /\ outcome' \in [Requests -> Executed]
        /\ UNCHANGED <<lock, stage, size, autoReboot, parentFile, poll>>
        /\ step[r] = "make" /\ step' = [step EXCEPT ![r] = s]
        /\ step'[r] = s
    BY <1>1, <1>4 DEF MakeExits, At, Goto, IInv, TypeOK
  <2>4. old.state = "running" /\ (at[r] = 1 \/ RootOk(r))
    BY <1>1, <2>3 DEF InProgress
  <2>5. InProgress(r, job)'
    <3>1. step'[r] \in {"callback", "finish"}
      BY <2>3
    <3>2. at'[r] = 1 \/ RootOk(r)'
      BY <1>2, <2>2, <2>3, <2>4
    <3>3. job.state = "running" /\ job.exited
      BY <2>1, <2>4
    <3>4. QED
      BY <3>1, <3>2, <3>3 DEF InProgress
  <2>6. QED
    BY <1>1, <2>1, <2>2, <2>3, <2>5, ThreadStep DEF Steps
<1>5. ASSUME NEW raises \in BOOLEAN, OnSuccess(r, raises) PROVE IInv'
  <2>1. PICK job \in Job :
            /\ job = [old EXCEPT !.armed = autoReboot[r] /\ ~raises]
            /\ job.state = old.state
            /\ job.exited = old.exited
    BY <1>1, ArmedWritten
  <2>2. jobs' = [jobs EXCEPT ![Current(r)] = job]
    BY <1>5, <2>1 DEF OnSuccess
  <2>3. /\ at' = at /\ outcome' = outcome
        /\ UNCHANGED <<lock, stage, size, autoReboot, parentFile, poll>>
        /\ step[r] = "callback" /\ step' = [step EXCEPT ![r] = "finish"]
        /\ step'[r] = "finish"
    BY <1>5 DEF OnSuccess, At, Goto, IInv, TypeOK
  <2>4. old.state = "running" /\ old.exited /\ (at[r] = 1 \/ RootOk(r))
    BY <1>1, <2>3 DEF InProgress
  <2>5. InProgress(r, job)'
    BY <1>2, <2>1, <2>2, <2>3, <2>4 DEF InProgress
  <2>6. QED
    BY <1>1, <2>1, <2>2, <2>3, <2>5, ThreadStep DEF Steps
<1>6. CASE SetFinishedAt(r)
  <2>1. PICK job \in Job :
            /\ job = [old EXCEPT !.finished = TRUE]
            /\ job.state = old.state
            /\ job.exited = old.exited
            /\ job.finished
    BY <1>1, FinishWritten
  <2>2. jobs' = [jobs EXCEPT ![Current(r)] = job]
    BY <1>6, <2>1 DEF SetFinishedAt
  <2>3. /\ at' = at /\ outcome' = outcome
        /\ UNCHANGED <<lock, stage, size, autoReboot, parentFile, poll>>
        /\ step[r] = "finish" /\ step' = [step EXCEPT ![r] = "publish"]
        /\ step'[r] = "publish"
    BY <1>6 DEF SetFinishedAt, At, Goto, IInv, TypeOK
  <2>4. old.state = "running" /\ old.exited /\ (at[r] = 1 \/ RootOk(r))
    BY <1>1, <2>3 DEF InProgress
  <2>5. InProgress(r, job)'
    BY <1>2, <2>1, <2>2, <2>3, <2>4 DEF InProgress
  <2>6. QED
    BY <1>1, <2>1, <2>2, <2>3, <2>5, ThreadStep DEF Steps
<1>7. CASE Publish(r)
  <2>1. PICK job \in Job :
            /\ job = [old EXCEPT !.state = outcome[r]]
            /\ job.state \in Executed
            /\ job.exited = old.exited
            /\ job.finished = old.finished
    <3>1. outcome[r] \in Executed /\ outcome[r] \in JobState
      BY <1>1 DEF JobState, Executed
    <3>2. QED
      BY <1>1, <3>1, StateWritten
  <2>2. jobs' = [jobs EXCEPT ![Current(r)] = job]
    BY <1>7, <2>1 DEF Publish
  <2>3. /\ at' = [at EXCEPT ![r] = @ + 1] /\ outcome' = outcome
        /\ UNCHANGED <<lock, stage, size, autoReboot, parentFile, poll>>
        /\ step[r] = "publish" /\ step' = [step EXCEPT ![r] = "begin"]
    BY <1>7 DEF Publish, At, NextJob, Goto
  <2>4. old.exited /\ old.finished /\ (at[r] = 1 \/ RootOk(r))
    BY <1>1, <2>3 DEF InProgress
  <2>5. \A k \in Int : k = at[r] => Done(r, k)'
    BY <1>2, <2>1, <2>2, <2>4 DEF Done
  <2>6. QED
    BY <1>1, <2>1, <2>2, <2>3, <2>5, ThreadStep DEF Steps
<1>8. CASE Skip(r)
  <2>1. PICK job \in Job :
            /\ job = [old EXCEPT !.state = "skipped"]
            /\ job.state = "skipped"
    BY <1>1, StateWritten DEF JobState, Executed
  <2>2. jobs' = [jobs EXCEPT ![Current(r)] = job]
    BY <1>8, <2>1 DEF Skip
  <2>3. /\ at' = at /\ outcome' = outcome
        /\ UNCHANGED <<lock, stage, size, autoReboot, parentFile, poll>>
        /\ step' = [step EXCEPT ![r] = "skip"] /\ step'[r] = "skip"
        /\ at[r] > 1 /\ ~RootOk(r)
    BY <1>8 DEF Skip, Goto, IInv, TypeOK
  <2>4. InProgress(r, job)'
    BY <1>1, <1>2, <2>1, <2>2, <2>3 DEF InProgress
  <2>5. QED
    BY <1>1, <2>1, <2>2, <2>3, <2>4, ThreadStep DEF Steps
<1>9. CASE SkipFinishedAt(r)
  <2>1. PICK job \in Job :
            /\ job = [old EXCEPT !.finished = TRUE]
            /\ job.state = old.state
            /\ job.finished
    BY <1>1, FinishWritten
  <2>2. jobs' = [jobs EXCEPT ![Current(r)] = job]
    BY <1>9, <2>1 DEF SkipFinishedAt
  <2>3. /\ at' = [at EXCEPT ![r] = @ + 1] /\ outcome' = outcome
        /\ UNCHANGED <<lock, stage, size, autoReboot, parentFile, poll>>
        /\ step[r] = "skip" /\ step' = [step EXCEPT ![r] = "begin"]
    BY <1>9 DEF SkipFinishedAt, At, NextJob, Goto
  <2>4. old.state = "skipped" /\ at[r] > 1 /\ ~RootOk(r)
    BY <1>1, <2>3 DEF InProgress
  <2>5. \A k \in Int : k = at[r] => Done(r, k)'
    <3>1. ASSUME NEW k \in Int, k = at[r] PROVE Done(r, k)'
      <4>1. k # 1 /\ at[r] # 1
        BY <1>1, <2>4, <3>1
      <4>2. ~RootOk(r)'
        BY <1>2, <2>2, <2>4, <4>1
      <4>3. jobs'[<<r, k>>] = job
        BY <1>2, <2>2, <3>1
      <4>4. QED
        BY <2>1, <2>4, <4>1, <4>2, <4>3 DEF Done
    <3>2. QED
      BY <3>1
  <2>6. QED
    BY <1>1, <2>1, <2>2, <2>3, <2>5, ThreadStep DEF Steps
<1>10. ~ReleaseLock(r)
  BY <1>1 DEF ReleaseLock, IInv, TypeOK
<1>11. QED
  BY <1>3, <1>4, <1>5, <1>6, <1>7, <1>8, <1>9, <1>10 DEF BuildThread

(***************************************************************************)
(* The HTTP request's thread, and the end of the build thread.             *)
(***************************************************************************)

\* A step that moves one request to another stage and touches no job.
LEMMA StageStep ==
    ASSUME IInv, NEW r \in Requests,
           UNCHANGED <<step, outcome, jobs, parentFile, poll>>,
           lock' \in BOOLEAN,
           autoReboot' \in [Requests -> BOOLEAN],
           NEW st \in Building \cup {"new", "rejected", "leaked", "over"},
           stage' = [stage EXCEPT ![r] = st],
           NEW n \in 0..MaxJobs, size' = [size EXCEPT ![r] = n],
           NEW a \in 1..(MaxJobs + 1), at' = [at EXCEPT ![r] = a],
           RequestInv(r)', \A i \in 1..MaxJobs : JobInv(r, i)',
           LockInv'
    PROVE  IInv'
<1>1. TypeOK /\ PollInv
  BY DEF IInv
<1>2. TypeOK'
  BY <1>1 DEF TypeOK
<1>3. PollInv'
  BY <1>1, PollKept
<1>4. \A q \in Requests \ {r} :
          /\ RequestInv(q) => RequestInv(q)'
          /\ \A i \in 1..MaxJobs : JobInv(q, i) => JobInv(q, i)'
  <2>1. \A q \in Requests \ {r} :
            /\ stage'[q] = stage[q] /\ size'[q] = size[q]
            /\ at'[q] = at[q] /\ step'[q] = step[q]
    BY <1>1 DEF TypeOK
  <2>2. QED
    BY <2>1, OthersKept
<1>5. QED
  BY <1>2, <1>3, <1>4 DEF IInv

\* A request that is refused, or gets the lock.
LEMMA SubmitIInv ==
    ASSUME IInv, NEW r \in Requests, NEW auto \in BOOLEAN, Submit(r, auto)
    PROVE  IInv'
<1>1. /\ TypeOK /\ LockInv /\ RequestInv(r) /\ stage[r] = "new"
      /\ \A i \in 1..MaxJobs : JobInv(r, i)
      /\ UNCHANGED <<size, at, step, outcome, jobs, parentFile, poll>>
      /\ size[r] \in 0..MaxJobs /\ at[r] \in 1..(MaxJobs + 1)
  BY DEF IInv, TypeOK, Submit
<1>2. PICK st \in {"rejected", "scan"} :
          /\ stage' = [stage EXCEPT ![r] = st]
          /\ st = "rejected" => UNCHANGED lock
          /\ st = "scan" => ~lock /\ lock'
          /\ lock' \in BOOLEAN /\ autoReboot' \in [Requests -> BOOLEAN]
  BY <1>1 DEF Submit, TypeOK
<1>3. stage'[r] = st /\ \A q \in Requests \ {r} : stage'[q] = stage[q]
  BY <1>1, <1>2 DEF TypeOK
<1>4. RequestInv(r)'
  BY <1>1, <1>2, <1>3 DEF RequestInv
<1>5. \A i \in 1..MaxJobs : JobInv(r, i)'
  BY <1>1, <1>2, <1>3 DEF JobInv
<1>6. LockInv'
  BY <1>1, <1>2, <1>3 DEF LockInv, Building
<1>7. /\ size' = [size EXCEPT ![r] = size[r]]
      /\ at' = [at EXCEPT ![r] = at[r]]
  BY <1>1 DEF TypeOK
<1>8. QED
  BY <1>1, <1>2, <1>4, <1>5, <1>6, <1>7, StageStep DEF Building

\* The scan of the profiles, and the file that is gone.
LEMMA ScanIInv ==
    ASSUME IInv, NEW r \in Requests, StatParent(r) \/ ReadParent(r)
    PROVE  IInv'
<1>1. /\ TypeOK /\ LockInv /\ RequestInv(r) /\ stage[r] \in {"scan", "read"}
      /\ \A i \in 1..MaxJobs : JobInv(r, i)
      /\ UNCHANGED <<lock, size, autoReboot, at, step, outcome, jobs,
                     parentFile, poll>>
      /\ size[r] \in 0..MaxJobs /\ at[r] \in 1..(MaxJobs + 1)
  BY DEF IInv, TypeOK, StatParent, ReadParent
<1>2. PICK st \in {"scan", "read", "leaked"} :
          stage' = [stage EXCEPT ![r] = st]
  BY DEF StatParent, ReadParent
<1>3. stage'[r] = st /\ \A q \in Requests \ {r} : stage'[q] = stage[q]
  BY <1>1, <1>2 DEF TypeOK
<1>4. RequestInv(r)'
  BY <1>1, <1>2, <1>3 DEF RequestInv
<1>5. \A i \in 1..MaxJobs : JobInv(r, i)'
  BY <1>1, <1>2, <1>3 DEF JobInv
<1>6. LockInv'
  BY <1>1, <1>2, <1>3, LockKept DEF Building
<1>7. /\ size' = [size EXCEPT ![r] = size[r]]
      /\ at' = [at EXCEPT ![r] = at[r]]
      /\ lock' \in BOOLEAN /\ autoReboot' \in [Requests -> BOOLEAN]
  BY <1>1 DEF TypeOK
<1>8. QED
  BY <1>1, <1>2, <1>4, <1>5, <1>6, <1>7, StageStep DEF Building

\* The cascade is known.
LEMMA ComputedIInv ==
    ASSUME IInv, NEW r \in Requests, NEW n \in 1..MaxJobs,
           CascadeComputed(r, n)
    PROVE  IInv'
<1>1. /\ TypeOK /\ LockInv /\ RequestInv(r) /\ stage[r] = "scan"
      /\ \A i \in 1..MaxJobs : JobInv(r, i)
      /\ UNCHANGED <<lock, autoReboot, at, step, outcome, jobs, parentFile,
                     poll>>
      /\ stage' = [stage EXCEPT ![r] = "create"]
      /\ size' = [size EXCEPT ![r] = n]
      /\ at[r] \in 1..(MaxJobs + 1)
  BY DEF IInv, TypeOK, CascadeComputed
<1>2. /\ stage'[r] = "create" /\ size'[r] = n /\ at[r] = 1
      /\ \A q \in Requests \ {r} : stage'[q] = stage[q]
  BY <1>1 DEF TypeOK, RequestInv
<1>3. RequestInv(r)'
  BY <1>1, <1>2 DEF RequestInv
<1>4. \A i \in 1..MaxJobs : JobInv(r, i)'
  BY <1>1, <1>2 DEF JobInv
<1>5. LockInv'
  BY <1>1, <1>2, LockKept DEF Building
<1>6. /\ n \in 0..MaxJobs
      /\ at' = [at EXCEPT ![r] = at[r]]
      /\ lock' \in BOOLEAN /\ autoReboot' \in [Requests -> BOOLEAN]
  BY <1>1 DEF TypeOK
<1>7. QED
  BY <1>1, <1>3, <1>4, <1>5, <1>6, StageStep DEF Building

\* All jobs are created.
LEMMA StartIInv ==
    ASSUME IInv, NEW r \in Requests, StartThread(r) PROVE IInv'
<1>1. /\ TypeOK /\ LockInv /\ RequestInv(r)
      /\ stage[r] = "create" /\ at[r] > size[r]
      /\ \A i \in 1..MaxJobs : JobInv(r, i)
      /\ UNCHANGED <<lock, size, autoReboot, step, outcome, jobs, parentFile,
                     poll>>
      /\ stage' = [stage EXCEPT ![r] = "run"]
      /\ at' = [at EXCEPT ![r] = 1]
      /\ size[r] \in 0..MaxJobs /\ at[r] \in 1..(MaxJobs + 1)
  BY DEF IInv, TypeOK, StartThread
<1>2. /\ stage'[r] = "run" /\ at'[r] = 1 /\ at[r] = size[r] + 1
      /\ step[r] = "begin"
      /\ \A q \in Requests \ {r} : stage'[q] = stage[q]
  BY <1>1 DEF TypeOK, RequestInv
<1>3. RequestInv(r)'
  BY <1>1, <1>2 DEF RequestInv
<1>4. ASSUME NEW i \in 1..MaxJobs PROVE JobInv(r, i)'
  <2>1. jobs'[<<r, i>>] = IF i > size[r] THEN NoJob ELSE Queued
    BY <1>1, <1>2 DEF JobInv
  <2>2. InProgress(r, Queued)'
    BY <1>1, <1>2 DEF InProgress
  <2>3. QED
    BY <1>1, <1>2, <2>1, <2>2 DEF JobInv
<1>5. LockInv'
  BY <1>1, <1>2, LockKept DEF Building
<1>6. /\ 1 \in 1..(MaxJobs + 1)
      /\ size' = [size EXCEPT ![r] = size[r]]
      /\ lock' \in BOOLEAN /\ autoReboot' \in [Requests -> BOOLEAN]
  BY <1>1 DEF TypeOK
<1>7. QED
  BY <1>1, <1>3, <1>4, <1>5, <1>6, StageStep DEF Building

\* The finally clause.
LEMMA ReleaseIInv ==
    ASSUME IInv, NEW r \in Requests, ReleaseLock(r) PROVE IInv'
<1>1. /\ TypeOK /\ LockInv /\ RequestInv(r)
      /\ stage[r] = "run" /\ at[r] > size[r]
      /\ \A i \in 1..MaxJobs : JobInv(r, i)
      /\ UNCHANGED <<size, autoReboot, at, step, outcome, jobs, parentFile,
                     poll>>
      /\ stage' = [stage EXCEPT ![r] = "over"] /\ lock' = FALSE
      /\ size[r] \in 0..MaxJobs /\ at[r] \in 1..(MaxJobs + 1)
  BY DEF IInv, TypeOK, ReleaseLock
<1>2. /\ stage'[r] = "over" /\ at[r] = size[r] + 1
      /\ \A q \in Requests \ {r} : stage'[q] = stage[q]
  BY <1>1 DEF TypeOK, RequestInv
<1>3. RequestInv(r)'
  BY <1>1, <1>2 DEF RequestInv
<1>4. ASSUME NEW i \in 1..MaxJobs PROVE JobInv(r, i)'
  <2>1. Done(r, i)' <=> Done(r, i)
    BY <1>1 DEF Done, RootOk
  <2>2. QED
    BY <1>1, <1>2, <2>1 DEF JobInv
<1>5. LockInv'
  BY <1>1, <1>2 DEF LockInv, Building
<1>6. /\ size' = [size EXCEPT ![r] = size[r]]
      /\ at' = [at EXCEPT ![r] = at[r]]
      /\ lock' \in BOOLEAN /\ autoReboot' \in [Requests -> BOOLEAN]
  BY <1>1 DEF TypeOK
<1>7. QED
  BY <1>1, <1>3, <1>4, <1>5, <1>6, StageStep DEF Building

\* One job is created.
LEMMA NewJobIInv ==
    ASSUME IInv, NEW r \in Requests, NewJob(r) PROVE IInv'
<1>1. /\ TypeOK /\ LockInv /\ PollInv /\ RequestInv(r)
      /\ stage[r] = "create" /\ at[r] <= size[r]
      /\ \A i \in 1..MaxJobs : JobInv(r, i)
      /\ UNCHANGED <<lock, stage, size, autoReboot, step, outcome,
                     parentFile, poll>>
      /\ at' = [at EXCEPT ![r] = @ + 1]
      /\ at \in [Requests -> 1..(MaxJobs + 1)] /\ size[r] \in 0..MaxJobs
      /\ at[r] \in 1..MaxJobs
      /\ jobs \in [JobIds -> Job]
  BY DEF IInv, TypeOK, NewJob
<1>2. Current(r) \in JobIds /\ jobs[Current(r)] = NoJob
  BY <1>1 DEF Current, JobIds, JobInv
<1>3. PICK job \in Job : job = Queued
  BY DEF Job, JobState, Queued, Unstarted
<1>4. jobs' = [jobs EXCEPT ![Current(r)] = job]
  BY <1>3 DEF NewJob
<1>5. TypeOK'
  <2>1. at' \in [Requests -> 1..(MaxJobs + 1)]
    BY <1>1
  <2>2. jobs' \in [JobIds -> Job]
    BY <1>1, <1>4
  <2>3. QED
    BY <1>1, <2>1, <2>2 DEF TypeOK
<1>6. LockInv'
  BY <1>1, LockKept
<1>7. PollInv'
  <2>1. jobs[Current(r)].state \notin Executed
    BY <1>2 DEF NoJob, Unstarted, Executed
  <2>2. QED
    BY <1>1, <1>4, <2>1, PollKept
<1>8. RequestInv(r)'
  BY <1>1 DEF RequestInv
<1>9. \A i \in 1..MaxJobs : JobInv(r, i)'
  <2>1. \A i \in 1..MaxJobs :
            jobs'[<<r, i>>] = IF i = at[r] THEN Queued ELSE jobs[<<r, i>>]
    BY <1>1, <1>3, <1>4 DEF Current, JobIds
  <2>2. at'[r] = at[r] + 1
    BY <1>1
  <2>3. QED
    BY <1>1, <2>1, <2>2 DEF JobInv
<1>10. \A q \in Requests \ {r} :
           /\ RequestInv(q) => RequestInv(q)'
           /\ \A i \in 1..MaxJobs : JobInv(q, i) => JobInv(q, i)'
  <2>1. \A q \in Requests \ {r} :
            /\ stage'[q] = stage[q] /\ size'[q] = size[q]
            /\ at'[q] = at[q] /\ step'[q] = step[q]
    BY <1>1
  <2>2. \A q \in Requests \ {r}, i \in 1..MaxJobs :
            jobs'[<<q, i>>] = jobs[<<q, i>>]
    BY <1>1, <1>4 DEF Current, JobIds
  <2>3. QED
    BY <2>1, <2>2, OthersKept
<1>11. QED
  BY <1>5, <1>6, <1>7, <1>8, <1>9, <1>10 DEF IInv

(***************************************************************************)
(* Everybody else.                                                         *)
(***************************************************************************)

\* A job that has been run has its exit code and its finish time.
LEMMA RunJobsAreComplete ==
    ASSUME IInv, NEW j \in JobIds, jobs[j].state \in Executed
    PROVE  jobs[j].exited /\ jobs[j].finished
<1>1. PICK r \in Requests, i \in 1..MaxJobs : j = <<r, i>>
  BY DEF JobIds
<1>2. JobInv(r, i)
  BY DEF IInv
<1>3. j # <<>> /\ jobs[j] # NoJob /\ jobs[j] # Queued
  BY <1>1 DEF NoJob, Queued, Unstarted, Executed
<1>4. ~InProgress(r, jobs[j])
  BY <1>3 DEF InProgress, Executed
<1>5. Done(r, i)
  BY <1>1, <1>2, <1>3, <1>4 DEF JobInv
<1>6. QED
  BY <1>1, <1>5 DEF Done, Executed

\* A poller's reads, a saved profile and a stuttering step change no job.
LEMMA ClientIInv ==
    ASSUME IInv, UNCHANGED <<lock, requestVars, jobs>>, TypeOK', PollInv'
    PROVE  IInv'
<1>1. UNCHANGED <<lock, stage, size, at, step, jobs>>
  BY DEF requestVars
<1>2. LockInv'
  BY <1>1, LockKept DEF IInv
<1>3. \A r \in Requests :
          /\ RequestInv(r)'
          /\ \A i \in 1..MaxJobs : JobInv(r, i)'
  <2>1. ASSUME NEW r \in Requests, NEW i \in 1..MaxJobs
        PROVE  /\ Done(r, i)' <=> Done(r, i)
               /\ InProgress(r, jobs[<<r, i>>])'
                     <=> InProgress(r, jobs[<<r, i>>])
    BY <1>1 DEF Done, InProgress, RootOk
  <2>2. QED
    BY <1>1, <2>1 DEF IInv, RequestInv, JobInv
<1>4. QED
  BY <1>2, <1>3 DEF IInv

\* The poller reads only what its job has become.
LEMMA PollerIInv == ASSUME IInv, Poller PROVE IInv'
<1>1. TypeOK /\ PollInv /\ UNCHANGED <<lock, requestVars, jobs, parentFile>>
  BY DEF IInv, Poller, PollState, PollRest, PollArmed
<1>2. UNCHANGED <<stage, size, autoReboot, at, step, outcome>>
  BY <1>1 DEF requestVars
<1>3. ASSUME NEW j \in JobIds, PollState(j) PROVE TypeOK' /\ PollInv'
  <2>1. jobs[j].state \in JobState
    BY <1>1, <1>3 DEF PollState, Created, TypeOK, Job
  <2>2. poll' \in PollResult
    BY <1>3, <2>1 DEF PollState, PollResult
  <2>3. TypeOK'
    BY <1>1, <1>2, <2>2 DEF TypeOK
  <2>4. PollInv'
    BY <1>1, <1>3 DEF PollState, PollInv
  <2>5. QED
    BY <2>3, <2>4
<1>4. poll.reading \in {"rest", "armed"} =>
          poll \in PollResult /\ poll.job \in JobIds
  BY <1>1 DEF TypeOK, PollResult
<1>5. CASE PollRest
  <2>1. /\ poll \in PollResult /\ jobs[poll.job] \in Job
        /\ poll.reading = "rest"
    BY <1>1, <1>4, <1>5 DEF PollRest, TypeOK
  <2>2. /\ poll' \in PollResult /\ poll'.reading = "armed"
        /\ poll'.job = poll.job /\ poll'.state = poll.state
        /\ poll'.exited = jobs[poll.job].exited
        /\ poll'.finished = jobs[poll.job].finished
    BY <1>5, <2>1 DEF PollRest, PollResult, Job
  <2>3. TypeOK'
    BY <1>1, <1>2, <2>2 DEF TypeOK
  <2>4. jobs[poll.job].state \in Executed =>
            jobs[poll.job].exited /\ jobs[poll.job].finished
    BY <1>4, <2>1, RunJobsAreComplete
  <2>5. PollInv'
    BY <1>1, <2>1, <2>2, <2>4 DEF PollInv
  <2>6. QED
    BY <1>1, <2>3, <2>5, ClientIInv
<1>6. CASE PollArmed
  <2>1. /\ poll \in PollResult /\ jobs[poll.job] \in Job
        /\ poll.reading = "armed"
    BY <1>1, <1>4, <1>6 DEF PollArmed, TypeOK
  <2>2. /\ poll' \in PollResult /\ poll'.reading = "done"
        /\ poll'.job = poll.job /\ poll'.state = poll.state
        /\ poll'.exited = poll.exited /\ poll'.finished = poll.finished
        /\ poll'.armed = jobs[poll.job].armed
    BY <1>6, <2>1 DEF PollArmed, PollResult, Job
  <2>3. TypeOK'
    BY <1>1, <1>2, <2>2 DEF TypeOK
  <2>4. PollInv'
    BY <1>1, <2>1, <2>2 DEF PollInv
  <2>5. QED
    BY <1>1, <2>3, <2>4, ClientIInv
<1>7. QED
  BY <1>1, <1>3, <1>5, <1>6, ClientIInv DEF Poller, JobIds

-----------------------------------------------------------------------------
(* The theorems.                                                           *)

\* The invariant holds before the first request.
LEMMA InitIInv == Init => IInv
<1> SUFFICES ASSUME Init PROVE IInv
  OBVIOUS
<1>1. TypeOK
  <2>1. NoJob \in Job
    BY DEF NoJob, Unstarted, Job
  <2>2. jobs \in [JobIds -> Job]
    BY <2>1 DEF Init
  <2>3. /\ size \in [Requests -> 0..MaxJobs]
        /\ at \in [Requests -> 1..(MaxJobs + 1)]
    BY DEF Init
  <2>4. QED
    BY <2>2, <2>3 DEF Init, TypeOK, Executed
<1>2. LockInv
  BY DEF Init, LockInv, Building
<1>3. ASSUME NEW r \in Requests PROVE RequestInv(r)
  BY DEF Init, RequestInv
<1>4. ASSUME NEW r \in Requests, NEW i \in 1..MaxJobs PROVE JobInv(r, i)
  BY DEF Init, JobInv, JobIds
<1>5. PollInv
  BY DEF Init, PollInv
<1>6. QED
  BY <1>1, <1>2, <1>3, <1>4, <1>5 DEF IInv

\* Every step keeps the invariant.
LEMMA NextIInv == IInv /\ [Next]_vars => IInv'
<1> SUFFICES ASSUME IInv, [Next]_vars PROVE IInv'
  OBVIOUS
<1>1. ASSUME NEW r \in Requests, NEW auto \in BOOLEAN, Submit(r, auto)
      PROVE  IInv'
  BY <1>1, SubmitIInv
<1>2. ASSUME NEW r \in Requests, Handler(r) PROVE IInv'
  BY <1>2, ScanIInv, ComputedIInv, NewJobIInv, StartIInv DEF Handler
<1>3. ASSUME NEW r \in Requests, BuildThread(r) PROVE IInv'
  <2>1. CASE ReleaseLock(r)
    BY <2>1, ReleaseIInv
  <2>2. CASE ~ReleaseLock(r)
    <3>1. stage[r] = "run" /\ at[r] <= size[r]
      BY <1>3, <2>2 DEF BuildThread, Begin, MakeExits, OnSuccess,
                        SetFinishedAt, Publish, Skip, SkipFinishedAt, At
    <3>2. QED
      BY <1>3, <3>1, ThreadIInv
  <2>3. QED
    BY <2>1, <2>2
<1>4. CASE SaveProfile
  <2>1. TypeOK' /\ PollInv'
    BY <1>4 DEF SaveProfile, requestVars, IInv, TypeOK, PollInv
  <2>2. QED
    BY <1>4, <2>1, ClientIInv DEF SaveProfile
<1>5. CASE Poller
  BY <1>5, PollerIInv
<1>6. CASE UNCHANGED vars
  <2>1. TypeOK' /\ PollInv'
    BY <1>6 DEF vars, requestVars, IInv, TypeOK, PollInv
  <2>2. QED
    BY <1>6, <2>1, ClientIInv DEF vars
<1>7. QED
  BY <1>1, <1>2, <1>3, <1>4, <1>5, <1>6 DEF Next

\* The invariant, for any requests, cascades and pollers.
THEOREM Invariance == Spec => []IInv
BY InitIInv, NextIInv, PTL DEF Spec

\* Two cascades never have unfinished jobs at the same time.
THEOREM NoInterleaving == Spec => []CascadesDoNotInterleave
<1>1. IInv => CascadesDoNotInterleave
  <2> SUFFICES ASSUME IInv, NEW j \in JobIds, NEW k \in JobIds,
                      Created(j), jobs[j].state \notin Terminal,
                      Created(k), jobs[k].state \notin Terminal
               PROVE  j[1] = k[1]
    BY DEF CascadesDoNotInterleave
  <2>1. ASSUME NEW r \in Requests, NEW i \in 1..MaxJobs,
               Created(<<r, i>>), jobs[<<r, i>>].state \notin Terminal
        PROVE  stage[r] \in Building
    <3>1. JobInv(r, i)
      BY DEF IInv
    <3>2. jobs[<<r, i>>] # NoJob
      BY <2>1 DEF Created, NoJob, Unstarted
    <3>3. stage[r] \in {"create", "run", "over"}
      BY <3>1, <3>2 DEF JobInv
    <3>4. stage[r] # "over"
      <4>1. ~Done(r, i)
        BY <2>1 DEF Done, Terminal
      <4>2. QED
        BY <3>1, <3>2, <4>1 DEF JobInv
    <3>5. QED
      BY <3>3, <3>4 DEF Building
  <2>2. /\ j[1] \in Requests /\ j[2] \in 1..MaxJobs /\ j = <<j[1], j[2]>>
        /\ k[1] \in Requests /\ k[2] \in 1..MaxJobs /\ k = <<k[1], k[2]>>
    BY DEF JobIds
  <2>3. stage[j[1]] \in Building /\ stage[k[1]] \in Building
    BY <2>1, <2>2
  <2>4. QED
    BY <2>2, <2>3 DEF IInv, LockInv
<1>2. QED
  BY <1>1, Invariance, PTL

\* How a cascade ends.
THEOREM Outcome == Spec => []CascadeOutcome
<1>1. IInv => CascadeOutcome
  <2> SUFFICES ASSUME IInv, NEW r \in Requests, stage[r] = "over"
               PROVE  /\ jobs[<<r, 1>>].state \in Executed
                      /\ \A i \in 2..size[r] :
                             jobs[<<r, i>>].state \in
                                 IF RootOk(r) THEN Executed ELSE {"skipped"}
    BY DEF CascadeOutcome
  <2>1. size[r] \in 1..MaxJobs
    BY DEF IInv, RequestInv, TypeOK
  <2>2. \A i \in 1..size[r] : Done(r, i)
    <3>1. ASSUME NEW i \in 1..size[r] PROVE Done(r, i)
      <4>1. i \in 1..MaxJobs /\ i <= size[r]
        BY <2>1
      <4>2. JobInv(r, i)
        BY <4>1 DEF IInv
      <4>3. QED
        BY <4>1, <4>2 DEF JobInv
    <3>2. QED
      BY <3>1
  <2>3. QED
    BY <2>1, <2>2 DEF Done
<1>2. QED
  BY <1>1, Invariance, PTL

\* What a poller learns of a build that has been run is final.
THEOREM PollersFinal == Spec => []PollersSeeFinal
<1>1. IInv => PollersSeeFinal
  BY DEF IInv, PollInv, PollersSeeFinal, Answer, Final
<1>2. QED
  BY <1>1, Invariance, PTL

=============================================================================
