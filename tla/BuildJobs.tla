----------------------------- MODULE BuildJobs -----------------------------
(***************************************************************************)
(* BuildJobManager of fleetboot/server/build_jobs.py: requests that start  *)
(* a build and the profiles downstream of it, the thread that runs them    *)
(* one after the other under the build lock, and a client that polls.      *)
(*                                                                         *)
(* Which profiles a cascade has, and in which order, is module             *)
(* BuildCascade; here it is a number of jobs, the first being jobs[0] of   *)
(* the code.  The fields of a job are written one at a time, without a     *)
(* lock, and read the same way: the writes and the reads are steps.        *)
(***************************************************************************)
EXTENDS Integers

CONSTANTS
    Requests,     \* start_build calls; each is one handler and one thread
    MaxJobs,      \* bound on the length of a cascade
    CanEdit,      \* may somebody save profiles meanwhile?
    Watched       \* jobs somebody polls

ASSUME MaxJobsAssumption == MaxJobs \in Nat \ {0}
ASSUME ClientAssumption == CanEdit \in BOOLEAN /\ Watched \subseteq Requests \X (1..MaxJobs)

VARIABLES
    lock,         \* _running_lock
    stage,        \* where each request is
    size,         \* len(jobs)
    autoReboot,   \* the request's auto_reboot
    at,           \* the job of the request being created or run
    step,         \* where _execute is
    outcome,      \* its local `outcome`
    jobs,         \* the BuildJob objects
    parentFile,   \* does the parent file the scan is at exist?
    poll          \* what a poller has read of a job

requestVars == <<stage, size, autoReboot, at, step, outcome>>
vars == <<lock, requestVars, jobs, parentFile, poll>>

-----------------------------------------------------------------------------
JobState == {"queued", "running", "succeeded", "failed", "skipped"}
Executed == {"succeeded", "failed"}
Terminal == Executed \cup {"skipped"}

JobIds == Requests \X (1..MaxJobs)

Job == [state : JobState \cup {"none"},   \* none: not created yet
        exited : BOOLEAN,                 \* exit_code is set
        finished : BOOLEAN,               \* finished_at is set
        armed : BOOLEAN]                  \* auto_reboot_armed is set

Unstarted(s) ==
    [state |-> s, exited |-> FALSE, finished |-> FALSE, armed |-> FALSE]

NoJob == Unstarted("none")
Queued == Unstarted("queued")

\* The job a request is at.
Current(r) == <<r, at[r]>>

Created(j) == jobs[j].state # "none"

\* root_ok of _run_cascade
RootOk(r) == jobs[<<r, 1>>].state = "succeeded"

\* The stages in which a request holds the build lock.
Building == {"scan", "read", "create", "run"}

-----------------------------------------------------------------------------
(* start_with_downstream, in the thread of the HTTP request.               *)

\* Variant: the lock is not tested.
SubmitUnlocked(r, auto) ==
    /\ stage[r] = "new"
    /\ lock' = TRUE
    /\ stage' = [stage EXCEPT ![r] = "scan"]
    /\ autoReboot' = [autoReboot EXCEPT ![r] = auto]
    /\ UNCHANGED <<size, at, step, outcome, jobs, parentFile, poll>>

\* _running_lock.acquire(blocking=False)
Submit(r, auto) ==
    /\ stage[r] = "new"
    /\ IF lock
       THEN /\ stage' = [stage EXCEPT ![r] = "rejected"]
            /\ UNCHANGED <<lock, autoReboot>>
       ELSE /\ lock' = TRUE
            /\ stage' = [stage EXCEPT ![r] = "scan"]
            /\ autoReboot' = [autoReboot EXCEPT ![r] = auto]
    /\ UNCHANGED <<size, at, step, outcome, jobs, parentFile, poll>>

\* parent_file.is_file() in _read_profile_parents
StatParent(r) ==
    /\ stage[r] = "scan"
    /\ parentFile
    /\ stage' = [stage EXCEPT ![r] = "read"]
    /\ UNCHANGED <<lock, size, autoReboot, at, step, outcome, jobs,
                   parentFile, poll>>

\* parent_file.read_text(): a file deleted since raises FileNotFoundError,
\* which nobody between here and the HTTP framework catches.
ReadParent(r) ==
    /\ stage[r] = "read"
    /\ stage' = [stage EXCEPT ![r] = IF parentFile THEN "scan" ELSE "leaked"]
    /\ UNCHANGED <<lock, size, autoReboot, at, step, outcome, jobs,
                   parentFile, poll>>

\* compute_build_cascade returns n profiles.
CascadeComputed(r, n) ==
    /\ stage[r] = "scan"
    /\ stage' = [stage EXCEPT ![r] = "create"]
    /\ size' = [size EXCEPT ![r] = n]
    /\ UNCHANGED <<lock, autoReboot, at, step, outcome, jobs, parentFile,
                   poll>>

\* _new_job, once per profile.
NewJob(r) ==
    /\ stage[r] = "create"
    /\ at[r] <= size[r]
    /\ jobs' = [jobs EXCEPT ![Current(r)] = Queued]
    /\ at' = [at EXCEPT ![r] = @ + 1]
    /\ UNCHANGED <<lock, stage, size, autoReboot, step, outcome, parentFile,
                   poll>>

\* thread.start()
StartThread(r) ==
    /\ stage[r] = "create"
    /\ at[r] > size[r]
    /\ stage' = [stage EXCEPT ![r] = "run"]
    /\ at' = [at EXCEPT ![r] = 1]
    /\ UNCHANGED <<lock, size, autoReboot, step, outcome, jobs, parentFile,
                   poll>>

-----------------------------------------------------------------------------
(* _run_cascade and _execute, in the build thread.                         *)

At(r, s) == stage[r] = "run" /\ at[r] <= size[r] /\ step[r] = s

Goto(r, s) == step' = [step EXCEPT ![r] = s]

NextJob(r) ==
    /\ at' = [at EXCEPT ![r] = @ + 1]
    /\ Goto(r, "begin")

\* Variant: descendants run whatever became of the root.
BeginRegardless(r) ==
    /\ At(r, "begin")
    /\ jobs' = [jobs EXCEPT ![Current(r)].state = "running"]
    /\ Goto(r, "make")
    /\ UNCHANGED <<lock, stage, size, autoReboot, at, outcome, parentFile,
                   poll>>

\* job.state = RUNNING
Begin(r) ==
    /\ At(r, "begin")
    /\ at[r] = 1 \/ RootOk(r)
    /\ jobs' = [jobs EXCEPT ![Current(r)].state = "running"]
    /\ Goto(r, "make")
    /\ UNCHANGED <<lock, stage, size, autoReboot, at, outcome, parentFile,
                   poll>>

\* Variant: the outcome is published as soon as it is known.
MakeExitsPublishing(r, o) ==
    /\ At(r, "make")
    /\ jobs' = [jobs EXCEPT ![Current(r)].exited = TRUE,
                            ![Current(r)].state = o]
    /\ outcome' = [outcome EXCEPT ![r] = o]
    /\ Goto(r, IF o = "succeeded" THEN "callback" ELSE "finish")
    /\ UNCHANGED <<lock, stage, size, autoReboot, at, parentFile, poll>>

\* make exits (zero or not), or cannot be run at all.  An exception while its
\* output is read counts as a failure too, and leaves make running unwatched:
\* there exited stands for the end of the reading, not of the process.
MakeExits(r, o) ==
    /\ At(r, "make")
    /\ jobs' = [jobs EXCEPT ![Current(r)].exited = TRUE]
    /\ outcome' = [outcome EXCEPT ![r] = o]
    /\ Goto(r, IF o = "succeeded" THEN "callback" ELSE "finish")
    /\ UNCHANGED <<lock, stage, size, autoReboot, at, parentFile, poll>>

\* on_success: records how many reboots it armed, or raises before that.
OnSuccess(r, raises) ==
    /\ At(r, "callback")
    /\ jobs' = [jobs EXCEPT ![Current(r)].armed = autoReboot[r] /\ ~raises]
    /\ Goto(r, "finish")
    /\ UNCHANGED <<lock, stage, size, autoReboot, at, outcome, parentFile,
                   poll>>

\* job.finished_at = time.time()
SetFinishedAt(r) ==
    /\ At(r, "finish")
    /\ jobs' = [jobs EXCEPT ![Current(r)].finished = TRUE]
    /\ Goto(r, "publish")
    /\ UNCHANGED <<lock, stage, size, autoReboot, at, outcome, parentFile,
                   poll>>

\* job.state = outcome
Publish(r) ==
    /\ At(r, "publish")
    /\ jobs' = [jobs EXCEPT ![Current(r)].state = outcome[r]]
    /\ NextJob(r)
    /\ UNCHANGED <<lock, stage, size, autoReboot, outcome, parentFile, poll>>

\* job.state = SKIPPED, then job.finished_at
Skip(r) ==
    /\ At(r, "begin")
    /\ at[r] > 1 /\ ~RootOk(r)
    /\ jobs' = [jobs EXCEPT ![Current(r)].state = "skipped"]
    /\ Goto(r, "skip")
    /\ UNCHANGED <<lock, stage, size, autoReboot, at, outcome, parentFile,
                   poll>>

SkipFinishedAt(r) ==
    /\ At(r, "skip")
    /\ jobs' = [jobs EXCEPT ![Current(r)].finished = TRUE]
    /\ NextJob(r)
    /\ UNCHANGED <<lock, stage, size, autoReboot, outcome, parentFile, poll>>

\* Variant: a failed root ends the thread, its descendants stay queued.
ReleaseAfterFailedRoot(r) ==
    /\ stage[r] = "run"
    /\ at[r] > size[r] \/ (at[r] = 2 /\ ~RootOk(r))
    /\ lock' = FALSE
    /\ stage' = [stage EXCEPT ![r] = "over"]
    /\ UNCHANGED <<size, autoReboot, at, step, outcome, jobs, parentFile,
                   poll>>

\* Variant: no finally clause.
ReleaseAfterSuccess(r) ==
    /\ stage[r] = "run"
    /\ at[r] > size[r]
    /\ lock' = ~RootOk(r)
    /\ stage' = [stage EXCEPT ![r] = "over"]
    /\ UNCHANGED <<size, autoReboot, at, step, outcome, jobs, parentFile,
                   poll>>

\* the finally clause
ReleaseLock(r) ==
    /\ stage[r] = "run"
    /\ at[r] > size[r]
    /\ lock' = FALSE
    /\ stage' = [stage EXCEPT ![r] = "over"]
    /\ UNCHANGED <<size, autoReboot, at, step, outcome, jobs, parentFile,
                   poll>>

-----------------------------------------------------------------------------
(* Everybody else.                                                         *)

\* save_profile writes the parent file or unlinks it.
SaveProfile ==
    /\ CanEdit
    /\ parentFile' = ~parentFile
    /\ UNCHANGED <<lock, requestVars, jobs, poll>>

\* _job_dict and builds_snapshot read a job's fields in this order.
PollState(j) ==
    /\ poll.reading \in {"idle", "done"}
    /\ Created(j)
    /\ poll' = [reading |-> "rest", job |-> j, state |-> jobs[j].state,
                finished |-> FALSE, armed |-> FALSE, exited |-> FALSE]
    /\ UNCHANGED <<lock, requestVars, jobs, parentFile>>

PollRest ==
    /\ poll.reading = "rest"
    /\ poll' = [poll EXCEPT !.reading = "armed",
                            !.exited = jobs[poll.job].exited,
                            !.finished = jobs[poll.job].finished]
    /\ UNCHANGED <<lock, requestVars, jobs, parentFile>>

PollArmed ==
    /\ poll.reading = "armed"
    /\ poll' = [poll EXCEPT !.reading = "done",
                            !.armed = jobs[poll.job].armed]
    /\ UNCHANGED <<lock, requestVars, jobs, parentFile>>

-----------------------------------------------------------------------------
Init ==
    /\ lock = FALSE
    /\ stage = [r \in Requests |-> "new"]
    /\ size = [r \in Requests |-> 0]
    /\ autoReboot = [r \in Requests |-> FALSE]
    /\ at = [r \in Requests |-> 1]
    /\ step = [r \in Requests |-> "begin"]
    /\ outcome = [r \in Requests |-> "failed"]
    /\ jobs = [j \in JobIds |-> NoJob]
    /\ parentFile \in BOOLEAN
    /\ poll = [reading |-> "idle"]

Handler(r) ==
    \/ StatParent(r) \/ ReadParent(r) \/ NewJob(r) \/ StartThread(r)
    \/ \E n \in 1..MaxJobs : CascadeComputed(r, n)

BuildThread(r) ==
    \/ Begin(r) \/ SetFinishedAt(r) \/ Publish(r)
    \/ Skip(r) \/ SkipFinishedAt(r) \/ ReleaseLock(r)
    \/ \E o \in Executed : MakeExits(r, o)
    \/ \E raises \in BOOLEAN : OnSuccess(r, raises)

Poller == (\E j \in Watched : PollState(j)) \/ PollRest \/ PollArmed

Next ==
    \/ \E r \in Requests : \/ \E auto \in BOOLEAN : Submit(r, auto)
                           \/ Handler(r)
                           \/ BuildThread(r)
    \/ SaveProfile
    \/ Poller

Spec == Init /\ [][Next]_vars

(* Fairness: threads run, make exits, and the scan of the profiles is not  *)
(* endless.  Nothing is assumed of clients.                                *)
FairSpec ==
    /\ Spec
    /\ \A r \in Requests :
           /\ WF_vars(Handler(r))
           /\ WF_vars(BuildThread(r))
           /\ SF_vars(\E n \in 1..MaxJobs : CascadeComputed(r, n))

-----------------------------------------------------------------------------
(* Properties.                                                             *)

PollResult ==
    [reading : {"rest", "armed", "done"}, job : JobIds, state : JobState,
     exited : BOOLEAN, finished : BOOLEAN, armed : BOOLEAN]

\* The values the variables range over.
TypeOK ==
    /\ lock \in BOOLEAN
    /\ stage \in [Requests -> Building \cup {"new", "rejected", "leaked", "over"}]
    /\ size \in [Requests -> 0..MaxJobs]
    /\ autoReboot \in [Requests -> BOOLEAN]
    /\ at \in [Requests -> 1..(MaxJobs + 1)]
    /\ step \in [Requests -> {"begin", "make", "callback", "finish",
                              "publish", "skip"}]
    /\ outcome \in [Requests -> Executed]
    /\ jobs \in [JobIds -> Job]
    /\ parentFile \in BOOLEAN
    /\ poll \in PollResult \cup {[reading |-> "idle"]}

\* A cascade is not interleaved with another: at most one request has jobs
\* that have not reached a terminal state, queued ones included.
CascadesDoNotInterleave ==
    \A j, k \in JobIds :
        /\ Created(j) /\ jobs[j].state \notin Terminal
        /\ Created(k) /\ jobs[k].state \notin Terminal
        => j[1] = k[1]

\* The outcomes of a finished cascade: all descendants skipped if the root
\* failed, all of them run if it did not, whichever of them failed.
CascadeOutcome ==
    \A r \in Requests : stage[r] = "over" =>
        /\ jobs[<<r, 1>>].state \in Executed
        /\ \A i \in 2..size[r] :
               jobs[<<r, i>>].state \in
                   IF RootOk(r) THEN Executed ELSE {"skipped"}

Answer == poll.reading = "done" /\ poll.state \in Terminal

Final(p) ==
    p.exited /\ p.finished /\ p.armed = jobs[p.job].armed

\* "Pollers stop at the first terminal state": whoever reads that a build
\* succeeded or failed reads everything else of it in its final form, the
\* number of reboots the callback armed included.
PollersSeeFinal == Answer /\ poll.state \in Executed => Final(poll)

\* BuildAlreadyRunningError is raised when a build is running.
RejectedOnlyWhileBuilding ==
    [][\A r \in Requests :
          stage[r] = "new" /\ stage'[r] = "rejected" =>
              \E s \in Requests : stage[s] \in Building]_vars

\* Every job that is created comes to an end, however many others fail.
JobsEnd ==
    \A r \in Requests :
        (\E i \in 1..MaxJobs : Created(<<r, i>>))
            ~> \A i \in 1..MaxJobs :
                   Created(<<r, i>>) => jobs[<<r, i>>].state \in Terminal

\* The build lock comes free again, unless a request has left it behind.
LockComesFree == lock ~> (~lock \/ \E r \in Requests : stage[r] = "leaked")

-----------------------------------------------------------------------------
(* The inductive strengthening.                                            *)

\* One request at most has the lock, or has left without giving it back.
LockInv ==
    /\ \A r \in Requests : stage[r] \in Building \cup {"leaked"} => lock
    /\ \A r, s \in Requests :
           /\ stage[r] \in Building \cup {"leaked"}
           /\ stage[s] \in Building \cup {"leaked"}
           => r = s

\* What a job looks like once the thread has moved on to the next.
Done(r, i) ==
    /\ jobs[<<r, i>>].finished
    /\ IF i = 1 \/ RootOk(r)
       THEN jobs[<<r, i>>].state \in Executed /\ jobs[<<r, i>>].exited
       ELSE jobs[<<r, i>>].state = "skipped"

\* What the job looks like that the thread is at.
InProgress(r, j) ==
    IF step[r] = "skip"
    THEN j.state = "skipped" /\ at[r] > 1 /\ ~RootOk(r)
    ELSE IF step[r] = "begin" THEN j = Queued
    ELSE /\ j.state = "running"
         /\ at[r] = 1 \/ RootOk(r)
         /\ step[r] \in {"callback", "finish", "publish"} => j.exited
         /\ step[r] = "publish" => j.finished

JobInv(r, i) ==
    LET j == jobs[<<r, i>>]
    IN  /\ stage[r] = "create" => j = IF i < at[r] THEN Queued ELSE NoJob
        /\ stage[r] = "run" =>
               IF i < at[r] THEN Done(r, i)
               ELSE IF i > size[r] THEN j = NoJob
               ELSE IF i > at[r] THEN j = Queued
               ELSE InProgress(r, j)
        /\ stage[r] = "over" => IF i <= size[r] THEN Done(r, i) ELSE j = NoJob
        /\ stage[r] \notin {"create", "run", "over"} => j = NoJob

RequestInv(r) ==
    /\ stage[r] \in {"create", "run", "over"} =>
           size[r] >= 1 /\ at[r] <= size[r] + 1
    /\ stage[r] \notin {"create", "run", "over"} => at[r] = 1
    /\ ~(stage[r] = "run" /\ at[r] <= size[r]) => step[r] = "begin"

\* What a poller has read of a job that has been run.
PollInv ==
    poll.reading # "idle" /\ poll.state \in Executed =>
        /\ jobs[poll.job].state \in Executed
        /\ poll.reading # "rest" => poll.exited /\ poll.finished
        /\ poll.reading = "done" => poll.armed = jobs[poll.job].armed

IInv ==
    /\ TypeOK
    /\ LockInv
    /\ \A r \in Requests : RequestInv(r)
    /\ \A r \in Requests, i \in 1..MaxJobs : JobInv(r, i)
    /\ PollInv

=============================================================================
