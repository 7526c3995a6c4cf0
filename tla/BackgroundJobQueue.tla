------------------------- MODULE BackgroundJobQueue -------------------------
(***************************************************************************)
(* The durable PostgreSQL job queue of TRD BOT: the background_jobs rows,  *)
(* the repository operations on them (db/background_job_repositories.py),  *)
(* the worker that claims and runs one job at a time (jobs.py,             *)
(* scripts/run_background_worker.py) and the API calls that enqueue,       *)
(* cancel and retry a job (api/routes/jobs.py).                            *)
(*                                                                         *)
(* Every repository operation reads the clock first, then takes the row    *)
(* lock (SELECT ... FOR UPDATE, SKIP LOCKED for a claim) and reads the row,*)
(* then writes and commits.  These are three separate steps here, so time  *)
(* may pass and other sessions may run between them.                       *)
(*                                                                         *)
(* Time is relative: row.delay is run_after - now and row.lease is         *)
(* lease_expires_at - now; a call that read the clock `age' ticks ago      *)
(* compares against -age.  Timers stop counting MaxAge below zero, where   *)
(* no comparison can tell them apart any more.                             *)
(***************************************************************************)
EXTENDS Integers, FiniteSets

CONSTANTS
    Worker,          \* worker processes (worker_id)
    Client,          \* API request sessions
    Job,             \* (kind, idempotency_key) pairs, unique in the table
    NoOne,           \* no session / no lease owner
    NoJob,           \* no job
    PolicyAttempts,  \* BackgroundJobPolicy.max_attempts
    HardLimit,       \* MAX_BACKGROUND_JOB_ATTEMPTS
    RetryDelays,     \* BackgroundJobPolicy.retry_delays
    LeaseDuration,   \* lease_duration
    MaxProgress,     \* stands for 100 percent
    MaxAge,          \* bound: ticks that may pass during one repository call
    MaxCrashes       \* bound: worker crashes in one behaviour

ASSUME SessionAssumption ==
    /\ Worker \cap Client = {}
    /\ NoOne \notin Worker \cup Client
    /\ NoJob \notin Job

\* BackgroundJobPolicy.__post_init__ and the Field bounds of BackgroundJob.
ASSUME PolicyAssumption ==
    /\ HardLimit \in Nat
    /\ PolicyAttempts \in 1..HardLimit
    /\ RetryDelays \in [1..(PolicyAttempts - 1) -> Nat]
    /\ LeaseDuration \in Nat \ {0}
    /\ MaxProgress \in Nat \ {0}
    /\ MaxAge \in Nat
    /\ MaxCrashes \in Nat

VARIABLES
    job,      \* the background_jobs table
    lock,     \* which session holds each row's lock
    call,     \* the repository call each session is in
    run,      \* the BackgroundJobContext each worker executes
    crashes   \* number of worker crashes so far

vars == <<job, lock, call, run, crashes>>

Session == Worker \cup Client
Status == {"absent", "queued", "running", "succeeded", "failed", "cancelled"}
Terminal == {"succeeded", "failed", "cancelled"}
Error == {"none", "handler_error", "attempts_exhausted"}

Row == [status : Status, progress : 0..MaxProgress, attempts : Nat,
        budget : Nat, delay : Int, owner : Worker \cup {NoOne}, lease : Int,
        cancel : BOOLEAN, result : BOOLEAN, error : Error,
        started : BOOLEAN, finished : BOOLEAN]

Operation == {"none", "claim", "heartbeat", "succeed", "fail",
              "enqueue", "request_cancel", "retry_failed"}

\* arg is the reported progress of a heartbeat, retry the retryable flag of fail.
Call == [op : Operation, job : Job \cup {NoJob}, age : Nat,
         row : Row, arg : 0..MaxProgress, retry : BOOLEAN]

Context == [job : Job \cup {NoJob}, attempt : Nat]

NoRow == [status |-> "absent", progress |-> 0, attempts |-> 0,
          budget |-> PolicyAttempts, delay |-> 0, owner |-> NoOne, lease |-> 0,
          cancel |-> FALSE, result |-> FALSE, error |-> "none",
          started |-> FALSE, finished |-> FALSE]

NoCall == [op |-> "none", job |-> NoJob, age |-> 0, row |-> NoRow,
           arg |-> 0, retry |-> FALSE]

NoRun == [job |-> NoJob, attempt |-> 0]

TypeOK ==
    /\ job \in [Job -> Row]
    /\ lock \in [Job -> Session \cup {NoOne}]
    /\ call \in [Session -> Call]
    /\ run \in [Worker -> Context]
    /\ crashes \in Nat

Init ==
    /\ job = [j \in Job |-> NoRow]
    /\ lock = [j \in Job |-> NoOne]
    /\ call = [s \in Session |-> NoCall]
    /\ run = [w \in Worker |-> NoRun]
    /\ crashes = 0

-----------------------------------------------------------------------------
(* Row transitions: the model_copy(update=...) blocks of the repository.   *)

\* BackgroundJobBuilder.build
NewRow == [NoRow EXCEPT !.status = "queued"]

\* _cancelled
Cancelled(r) ==
    [r EXCEPT !.status = "cancelled", !.owner = NoOne, !.lease = 0,
              !.cancel = TRUE, !.finished = TRUE]

\* Mutant of Exhausted: finished_at is not set.
ExhaustedUnfinished(r) ==
    [r EXCEPT !.status = "failed", !.owner = NoOne, !.lease = 0,
              !.error = "attempts_exhausted"]

\* claim_next, attempt_count >= max_attempts: stored without validation
Exhausted(r) ==
    [r EXCEPT !.status = "failed", !.owner = NoOne, !.lease = 0,
              !.error = "attempts_exhausted", !.finished = TRUE]

\* Mutant of Claimed: reclaiming an expired lease is not counted as an attempt.
ClaimedUncounted(r, w, age) ==
    [r EXCEPT !.status = "running", !.owner = w, !.lease = LeaseDuration - age,
              !.attempts = IF r.status = "running" THEN @ ELSE @ + 1,
              !.started = TRUE, !.finished = FALSE, !.error = "none"]

\* claim_next, the row handed to worker w by a call of the given age
Claimed(r, w, age) ==
    [r EXCEPT !.status = "running", !.attempts = @ + 1, !.owner = w,
              !.lease = LeaseDuration - age, !.started = TRUE,
              !.finished = FALSE, !.error = "none"]

Heartbeaten(r, p, age) ==
    [r EXCEPT !.progress = p, !.lease = LeaseDuration - age]

Succeeded(r) ==
    [r EXCEPT !.status = "succeeded", !.progress = MaxProgress, !.owner = NoOne,
              !.lease = 0, !.result = TRUE, !.finished = TRUE]

\* fail, retryable with budget left
Requeued(r, delay) ==
    [r EXCEPT !.status = "queued", !.progress = 0, !.owner = NoOne,
              !.lease = 0, !.delay = delay]

Failed(r) ==
    [r EXCEPT !.status = "failed", !.owner = NoOne, !.lease = 0,
              !.error = "handler_error", !.finished = TRUE]

\* retry_failed: one more attempt than were used so far
Retried(r, age) ==
    [r EXCEPT !.status = "queued", !.progress = 0, !.budget = r.attempts + 1,
              !.delay = -age, !.cancel = FALSE, !.result = FALSE,
              !.error = "none", !.finished = FALSE]

\* BackgroundJobPolicy.retry_delay_after
RetryDelayAfter(attempt) ==
    IF attempt >= PolicyAttempts THEN 0 ELSE RetryDelays[attempt]

-----------------------------------------------------------------------------
(* Calls: read the clock, lock the row, commit.                            *)

NewCall(op, j, p, retry) ==
    [NoCall EXCEPT !.op = op, !.job = j, !.arg = p, !.retry = retry]

\* A repository method starts: it reads the clock and has no row yet.
Begin(s, op, j, p, retry) == call' = [call EXCEPT ![s] = NewCall(op, j, p, retry)]

\* A repository method returned and its transaction ended.
Return(s, j) ==
    /\ call' = [call EXCEPT ![s] = NoCall]
    /\ lock' = [lock EXCEPT ![j] = NoOne]

Write(j, r) == job' = [job EXCEPT ![j] = r]

\* _locked_row: SELECT ... WHERE job_id = j FOR UPDATE waits for the lock and
\* then sees the latest committed row.
LockRow(s) ==
    LET j == call[s].job IN
    /\ call[s].op \in {"heartbeat", "succeed", "fail", "request_cancel", "retry_failed"}
    /\ lock[j] = NoOne
    /\ lock' = [lock EXCEPT ![j] = s]
    /\ call' = [call EXCEPT ![s].row = job[j]]
    /\ UNCHANGED <<job, run, crashes>>

Holds(s, op) ==
    /\ call[s].op = op
    /\ call[s].job # NoJob
    /\ lock[call[s].job] = s

\* Mutant of OwnedRunning: the lease owner is not compared.
OwnedByAnyone(s) ==
    /\ call[s].row.status = "running"
    /\ call[s].row.lease > -call[s].age

\* _owned_running, evaluated on the locked row with the call's clock reading
OwnedRunning(s) ==
    LET r == call[s].row IN
    /\ r.status = "running"
    /\ r.owner = s
    /\ r.lease > -call[s].age

-----------------------------------------------------------------------------
(* claim_next                                                              *)

\* BackgroundJobWorker.run_once -> claim_next reads claimed_at once.
ClaimStart(w) ==
    /\ call[w].op = "none"
    /\ run[w] = NoRun
    /\ Begin(w, "claim", NoJob, 0, FALSE)
    /\ UNCHANGED <<job, lock, run, crashes>>

\* Mutant of Claimable: expired leases are not reclaimed.
ClaimableQueued(j, age) == job[j].status = "queued" /\ job[j].delay <= -age

\* The WHERE clause of the claim for a clock reading `age' ticks old.
Claimable(j, age) ==
    \/ job[j].status = "queued" /\ job[j].delay <= -age
    \/ job[j].status = "running" /\ job[j].lease <= -age

\* FOR UPDATE SKIP LOCKED: rows another session holds are passed over.
ClaimCandidates(w) ==
    {j \in Job : lock[j] = NoOne /\ Claimable(j, call[w].age)}

\* ORDER BY run_after, created_at LIMIT 1; creation order is left open.
ClaimSelect(w, j) ==
    /\ call[w].op = "claim"
    /\ call[w].job = NoJob
    /\ j \in ClaimCandidates(w)
    /\ \A k \in ClaimCandidates(w) : job[j].delay <= job[k].delay
    /\ lock' = [lock EXCEPT ![j] = w]
    /\ call' = [call EXCEPT ![w].job = j, ![w].row = job[j]]
    /\ UNCHANGED <<job, run, crashes>>

\* No row: rollback, run_once returns None and the worker sleeps.
ClaimNothing(w) ==
    /\ call[w].op = "claim"
    /\ call[w].job = NoJob
    /\ ClaimCandidates(w) = {}
    /\ call' = [call EXCEPT ![w] = NoCall]
    /\ UNCHANGED <<job, lock, run, crashes>>

\* The two `continue' branches commit and loop with the same claimed_at.
ClaimContinue(w) ==
    LET j == call[w].job
        r == call[w].row IN
    /\ Holds(w, "claim")
    /\ \/ r.cancel /\ Write(j, Cancelled(r))
       \/ ~r.cancel /\ r.attempts >= r.budget /\ Write(j, Exhausted(r))
    /\ lock' = [lock EXCEPT ![j] = NoOne]
    /\ call' = [call EXCEPT ![w].job = NoJob, ![w].row = NoRow]
    /\ UNCHANGED <<run, crashes>>

\* The claim commits and the worker enters the handler with its own copy.
ClaimCommit(w) ==
    LET j == call[w].job
        r == call[w].row
        claimed == Claimed(r, w, call[w].age) IN
    /\ Holds(w, "claim")
    /\ ~r.cancel
    /\ r.attempts < r.budget
    /\ Write(j, claimed)
    /\ run' = [run EXCEPT ![w] = [job |-> j, attempt |-> claimed.attempts]]
    /\ Return(w, j)
    /\ UNCHANGED crashes

-----------------------------------------------------------------------------
(* The handler: any sequence of heartbeats, then a result or an error.     *)

InHandler(w) == run[w] # NoRun /\ call[w].op = "none"

\* BackgroundJobContext.heartbeat
HeartbeatStart(w, p) ==
    /\ InHandler(w)
    /\ Begin(w, "heartbeat", run[w].job, p, FALSE)
    /\ UNCHANGED <<job, lock, run, crashes>>

\* The handler returned a result reference.
SucceedStart(w) ==
    /\ InHandler(w)
    /\ Begin(w, "succeed", run[w].job, 0, FALSE)
    /\ UNCHANGED <<job, lock, run, crashes>>

\* The handler raised, or the payload version or the kind is not supported.
FailStart(w, retryable) ==
    /\ InHandler(w)
    /\ Begin(w, "fail", run[w].job, 0, retryable)
    /\ UNCHANGED <<job, lock, run, crashes>>

\* heartbeat stores the progress and renews the lease.
HeartbeatCommit(w) ==
    LET j == call[w].job
        r == call[w].row IN
    /\ Holds(w, "heartbeat")
    /\ OwnedRunning(w)
    /\ call[w].arg >= r.progress
    /\ call[w].arg < MaxProgress
    /\ Write(j, Heartbeaten(r, call[w].arg, call[w].age))
    /\ Return(w, j)
    /\ UNCHANGED <<run, crashes>>

\* heartbeat raises (lost lease, or progress that moves back): the exception
\* leaves the handler and run_once calls fail, as retryable unless the handler
\* has turned it into a final error.  Nothing rolls the transaction back, so
\* fail reads its own clock but meets the row still locked and unchanged.
HeartbeatRaise(w, retryable) ==
    /\ Holds(w, "heartbeat")
    /\ \/ ~OwnedRunning(w)
       \/ call[w].arg < call[w].row.progress
    /\ call' = [call EXCEPT ![w] = [NewCall("fail", @.job, 0, retryable)
                                       EXCEPT !.row = call[w].row]]
    /\ UNCHANGED <<job, lock, run, crashes>>

FinishRun(w) == run' = [run EXCEPT ![w] = NoRun]

\* Mutant of SucceedCommit: a requested cancellation is overlooked.
SucceedCommitUncancelled(w) ==
    /\ Holds(w, "succeed")
    /\ OwnedRunning(w)
    /\ Write(call[w].job, Succeeded(call[w].row))
    /\ Return(w, call[w].job)
    /\ FinishRun(w)
    /\ UNCHANGED crashes

\* succeed, which turns into a cancellation when one was requested
SucceedCommit(w) ==
    LET j == call[w].job
        r == call[w].row IN
    /\ Holds(w, "succeed")
    /\ OwnedRunning(w)
    /\ Write(j, IF r.cancel THEN Cancelled(r) ELSE Succeeded(r))
    /\ Return(w, j)
    /\ FinishRun(w)
    /\ UNCHANGED crashes

\* Mutant of FailCommit: one retry too many.
FailCommitOffByOne(w) ==
    LET j == call[w].job
        r == call[w].row
        again == call[w].retry /\ r.attempts <= r.budget
        delay == RetryDelayAfter(run[w].attempt) - call[w].age IN
    /\ Holds(w, "fail")
    /\ OwnedRunning(w)
    /\ Write(j, IF r.cancel THEN Cancelled(r)
                ELSE IF again THEN Requeued(r, delay) ELSE Failed(r))
    /\ Return(w, j)
    /\ FinishRun(w)
    /\ UNCHANGED crashes

\* fail: a requested cancellation first, then another attempt, then the end
FailCommit(w) ==
    LET j == call[w].job
        r == call[w].row
        delay == RetryDelayAfter(run[w].attempt) - call[w].age IN
    /\ Holds(w, "fail")
    /\ OwnedRunning(w)
    /\ \/ r.cancel /\ Write(j, Cancelled(r))
       \/ /\ ~r.cancel
          /\ call[w].retry /\ r.attempts < r.budget
          /\ Write(j, Requeued(r, delay))
       \/ /\ ~r.cancel
          /\ ~(call[w].retry /\ r.attempts < r.budget)
          /\ Write(j, Failed(r))
    /\ Return(w, j)
    /\ FinishRun(w)
    /\ UNCHANGED crashes

\* BackgroundJobConflictError: run_once gives the job up without a write.
Conflict(w) ==
    /\ Holds(w, "succeed") \/ Holds(w, "fail")
    /\ ~OwnedRunning(w)
    /\ Return(w, call[w].job)
    /\ FinishRun(w)
    /\ UNCHANGED <<job, crashes>>

\* The worker process dies anywhere; PostgreSQL rolls its transaction back.
Crash(w) ==
    /\ crashes < MaxCrashes
    /\ run[w] # NoRun \/ call[w] # NoCall
    /\ crashes' = crashes + 1
    /\ lock' = [j \in Job |-> IF lock[j] = w THEN NoOne ELSE lock[j]]
    /\ call' = [call EXCEPT ![w] = NoCall]
    /\ FinishRun(w)
    /\ UNCHANGED job

-----------------------------------------------------------------------------
(* API requests                                                            *)

\* enqueue -> stage: look the idempotency key up.
EnqueueStage(c, j) ==
    /\ call[c].op = "none"
    /\ job[j].status = "absent"
    /\ Begin(c, "enqueue", j, 0, FALSE)
    /\ UNCHANGED <<job, lock, run, crashes>>

\* enqueue -> commit: insert, or IntegrityError, rollback and the existing row.
EnqueueCommit(c) ==
    LET j == call[c].job IN
    /\ call[c].op = "enqueue"
    /\ Write(j, IF job[j].status = "absent" THEN NewRow ELSE job[j])
    /\ call' = [call EXCEPT ![c] = NoCall]
    /\ UNCHANGED <<lock, run, crashes>>

\* cancel_background_job and retry_background_job: 404 unless the row exists.
OperatorStart(c, op, j) ==
    /\ call[c].op = "none"
    /\ job[j].status # "absent"
    /\ Begin(c, op, j, 0, FALSE)
    /\ UNCHANGED <<job, lock, run, crashes>>

RequestCancelCommit(c) ==
    LET j == call[c].job
        r == call[c].row IN
    /\ Holds(c, "request_cancel")
    /\ \/ r.status \in Terminal /\ UNCHANGED job
       \/ r.status = "queued" /\ Write(j, Cancelled(r))
       \/ r.status = "running" /\ Write(j, [r EXCEPT !.cancel = TRUE])
    /\ Return(c, j)
    /\ UNCHANGED <<run, crashes>>

\* Mutant of RetryFailedCommit: the hard limit is not checked.
RetryFailedCommitUnlimited(c) ==
    LET r == call[c].row IN
    /\ Holds(c, "retry_failed")
    /\ Write(call[c].job, IF r.status = "failed" THEN Retried(r, call[c].age) ELSE r)
    /\ Return(c, call[c].job)
    /\ UNCHANGED <<run, crashes>>

\* Anything but a failed row below the hard limit is refused with a 409.
RetryFailedCommit(c) ==
    LET j == call[c].job
        r == call[c].row IN
    /\ Holds(c, "retry_failed")
    /\ Write(j, IF r.status = "failed" /\ r.attempts < HardLimit
                THEN Retried(r, call[c].age) ELSE r)
    /\ Return(c, j)
    /\ UNCHANGED <<run, crashes>>

-----------------------------------------------------------------------------
\* One tick down, stopping where every comparison has become true.
CountDown(t) == IF t > -MaxAge THEN t - 1 ELSE t

\* A row seen one tick later.
Aged(r) ==
    [r EXCEPT !.delay = IF r.status = "absent" THEN 0 ELSE CountDown(@),
              !.lease = IF r.owner = NoOne THEN 0 ELSE CountDown(@)]

\* The clock that run_after and the leases are compared with.
Tick ==
    /\ \A s \in Session : call[s].op # "none" => call[s].age < MaxAge
    /\ job' = [j \in Job |-> Aged(job[j])]
    /\ call' = [s \in Session |->
                 IF call[s].op = "none" THEN call[s]
                 ELSE [call[s] EXCEPT !.age = @ + 1, !.row = Aged(@)]]
    /\ UNCHANGED <<lock, run, crashes>>

WorkerStep(w) ==
    \/ ClaimStart(w)
    \/ \E j \in Job : ClaimSelect(w, j)
    \/ ClaimNothing(w)
    \/ ClaimContinue(w)
    \/ ClaimCommit(w)
    \/ \E p \in 0..(MaxProgress - 1) : HeartbeatStart(w, p)
    \/ SucceedStart(w)
    \/ \E retryable \in BOOLEAN : FailStart(w, retryable)
    \/ HeartbeatCommit(w)
    \/ \E retryable \in BOOLEAN : HeartbeatRaise(w, retryable)
    \/ SucceedCommit(w)
    \/ FailCommit(w)
    \/ Conflict(w)

ClientStep(c) ==
    \/ \E j \in Job : EnqueueStage(c, j)
    \/ EnqueueCommit(c)
    \/ \E j \in Job, op \in {"request_cancel", "retry_failed"} : OperatorStart(c, op, j)
    \/ RequestCancelCommit(c)
    \/ RetryFailedCommit(c)

Next ==
    \/ \E w \in Worker : WorkerStep(w) \/ Crash(w)
    \/ \E c \in Client : ClientStep(c)
    \/ \E s \in Session : LockRow(s)
    \/ Tick

Spec == Init /\ [][Next]_vars

(***************************************************************************)
(* Fairness.  Workers poll for ever and their handlers are finite code, so *)
(* a run ends even if its heartbeats interleave with the operator's calls  *)
(* (strong fairness); PostgreSQL grants a row lock to the longest waiter,  *)
(* and the clock advances.  Nothing is assumed of operators or of crashes. *)
(***************************************************************************)
Fairness ==
    /\ \A w \in Worker :
        /\ WF_vars(ClaimStart(w))
        /\ SF_vars(\E j \in Job : ClaimSelect(w, j))
        /\ WF_vars(ClaimNothing(w))
        /\ WF_vars(ClaimContinue(w) \/ ClaimCommit(w))
        /\ SF_vars(SucceedStart(w) \/ \E retryable \in BOOLEAN : FailStart(w, retryable))
        /\ WF_vars(HeartbeatCommit(w) \/ \E retryable \in BOOLEAN : HeartbeatRaise(w, retryable))
        /\ WF_vars(SucceedCommit(w) \/ FailCommit(w) \/ Conflict(w))
    /\ \A s \in Session : SF_vars(LockRow(s))
    /\ \A c \in Client :
        WF_vars(EnqueueCommit(c) \/ RequestCancelCommit(c) \/ RetryFailedCommit(c))
    /\ WF_vars(Tick)

FairSpec == Spec /\ Fairness

-----------------------------------------------------------------------------
(* Properties                                                              *)

\* BackgroundJob.validate_lifecycle
RowValid(r) ==
    /\ r.attempts <= r.budget
    /\ r.status \in {"absent", "queued"} =>
          r.owner = NoOne /\ ~r.finished /\ ~r.result /\ r.error = "none"
    /\ r.status = "running" =>
          /\ r.owner # NoOne /\ r.started /\ ~r.finished
          /\ r.attempts >= 1 /\ r.progress < MaxProgress
          /\ ~r.result /\ r.error = "none"
    /\ r.status \in Terminal => r.finished /\ r.owner = NoOne
    /\ r.status = "succeeded" => r.progress = MaxProgress /\ r.error = "none"
    /\ r.status = "failed" => ~r.result /\ r.error # "none"
    /\ r.status = "cancelled" => ~r.result /\ r.error = "none"

\* Every stored row passes BackgroundJob.validate_lifecycle, although
\* claim_next stores an exhausted row without validating it.  A row that does
\* not pass makes _from_row raise in every later claim that selects it.
RowsValid == \A j \in Job : RowValid(job[j])

\* An attempt of a job is executed by one worker only: two workers inside the
\* handler of the same job hold different attempt numbers, whatever crashes,
\* expired leases, automatic and manual retries came before.
OneRunnerPerAttempt ==
    \A v, w \in Worker :
        v # w /\ run[v] # NoRun /\ run[w] # NoRun => run[v] # run[w]

\* The lease a worker finds under its own name belongs to the attempt it is
\* executing (lease_owner is the only fence _owned_running checks).
LeaseMatchesAttempt ==
    \A w \in Worker :
        run[w] # NoRun /\ job[run[w].job].owner = w
            => job[run[w].job].attempts = run[w].attempt

\* A worker that holds an older attempt never changes the row: its heartbeat,
\* success or failure is rejected even if it arrives after a reclaim, a
\* cancellation or a manual retry.
StaleWorkerRejected ==
    [][\A j \in Job, w \in Worker :
          lock[j] = w /\ lock'[j] = NoOne /\ job'[j] # job[j] /\ run[w] # NoRun
              => job[j].status = "running" /\ job[j].attempts = run[w].attempt]_vars

\* An accepted cancellation is never lost: from then on the row can only
\* become cancelled, never succeed, fail or be queued again.
CancellationSticks ==
    [][\A j \in Job : job[j].cancel =>
          job'[j].cancel /\ job'[j].status \in {job[j].status, "cancelled"}]_vars

\* Manual retries never extend a job past MAX_BACKGROUND_JOB_ATTEMPTS, and no
\* operation hands back attempts that were already used.
AttemptsBounded ==
    /\ [](\A j \in Job : job[j].budget <= HardLimit)
    /\ [][\A j \in Job : job'[j].attempts >= job[j].attempts]_vars

\* API requests stop arriving.
OperatorsQuiet == <>[](\A c \in Client : call[c].op = "none")

\* Every enqueued job reaches a terminal status although workers crash at any
\* point: an abandoned lease is reclaimed until the attempts are used up.
\* Requests that keep the row locked may make SKIP LOCKED pass it over for
\* ever, so the promise is made for the time after them.
EveryJobFinishes ==
    OperatorsQuiet =>
        \A j \in Job : job[j].status # "absent" ~> job[j].status \in Terminal

-----------------------------------------------------------------------------
(* The abstract life cycle that this module implements.                    *)

\* A row without its timers and its report fields.
Timeless(r) == [status |-> r.status, progress |-> r.progress, attempts |-> r.attempts,
                budget |-> r.budget, owner |-> r.owner, cancel |-> r.cancel]

TimelessRows == [j \in Job |-> Timeless(job[j])]

Lifecycle == INSTANCE JobLifecycle WITH row <- TimelessRows

\* Every call takes effect as one atomic, authorised step at its commit, though
\* the clock, the row and the write are three steps of the code: no update is
\* lost and no decision is taken on a row that has changed since it was read.
AtomicLifecycle == Lifecycle!Spec
=============================================================================
