---------------------------- MODULE JobLifecycle ----------------------------
(***************************************************************************)
(* What the job queue promises to its users: every repository operation is *)
(* one atomic, authorised step of a job's life cycle.  There are no locks, *)
(* no copies of rows and no clock; a lease may expire at any moment.       *)
(* BackgroundJobQueue implements this specification, and the modules about *)
(* the work done inside a job use it as their queue.                       *)
(***************************************************************************)
EXTENDS Naturals

CONSTANTS
    Worker,          \* worker processes (worker_id)
    Job,             \* (kind, idempotency_key) pairs
    NoOne,           \* no lease owner
    NoJob,           \* no job
    PolicyAttempts,  \* BackgroundJobPolicy.max_attempts
    HardLimit,       \* MAX_BACKGROUND_JOB_ATTEMPTS
    MaxProgress      \* stands for 100 percent

ASSUME LifecycleAssumption ==
    /\ NoOne \notin Worker /\ NoJob \notin Job
    /\ PolicyAttempts \in Nat /\ HardLimit \in Nat /\ MaxProgress \in Nat

VARIABLES
    row,   \* the life cycle part of every background_jobs row
    run    \* the job and attempt each worker is executing

vars == <<row, run>>

Open == {"queued", "running"}
Terminal == {"succeeded", "failed", "cancelled"}

Absent == [status |-> "absent", progress |-> 0, attempts |-> 0,
           budget |-> PolicyAttempts, owner |-> NoOne, cancel |-> FALSE]

NoRun == [job |-> NoJob, attempt |-> 0]

Init ==
    /\ row = [j \in Job |-> Absent]
    /\ run = [w \in Worker |-> NoRun]

Idle(w) == run[w] = NoRun

\* The lease the worker's current run still holds.
Owns(w) ==
    /\ ~Idle(w)
    /\ row[run[w].job].status = "running"
    /\ row[run[w].job].owner = w

\* The row leaves the worker: its status, progress and owner change together.
Leave(j, status, progress) ==
    row' = [row EXCEPT ![j].status = status, ![j].progress = progress, ![j].owner = NoOne]

Finish(w) == run' = [run EXCEPT ![w] = NoRun]

\* An insert under the unique (kind, idempotency_key).
Enqueue(j) ==
    /\ row[j].status = "absent"
    /\ row' = [row EXCEPT ![j].status = "queued"]
    /\ UNCHANGED run

\* A queued row, or a running one whose lease expired, starts a new attempt.
Claim(w, j) ==
    /\ Idle(w)
    /\ row[j].status \in Open
    /\ ~row[j].cancel
    /\ row[j].attempts < row[j].budget
    /\ row' = [row EXCEPT ![j].status = "running", ![j].owner = w,
                          ![j].attempts = @ + 1]
    /\ run' = [run EXCEPT ![w] = [job |-> j, attempt |-> row[j].attempts + 1]]

\* A claim that meets a row it may not start settles it instead.
Settle(j) ==
    /\ row[j].status \in Open
    /\ \/ row[j].cancel /\ row' = [row EXCEPT ![j].status = "cancelled", ![j].owner = NoOne]
       \/ /\ ~row[j].cancel
          /\ row[j].attempts >= row[j].budget
          /\ row' = [row EXCEPT ![j].status = "failed", ![j].owner = NoOne]
    /\ UNCHANGED run

Heartbeat(w, p) ==
    /\ Owns(w)
    /\ p >= row[run[w].job].progress
    /\ row' = [row EXCEPT ![run[w].job].progress = p]
    /\ UNCHANGED run

Succeed(w) ==
    LET j == run[w].job IN
    /\ Owns(w)
    /\ IF row[j].cancel
       THEN row' = [row EXCEPT ![j].status = "cancelled", ![j].owner = NoOne]
       ELSE Leave(j, "succeeded", MaxProgress)
    /\ Finish(w)

Fail(w, retryable) ==
    LET j == run[w].job
        again == retryable /\ row[j].attempts < row[j].budget IN
    /\ Owns(w)
    /\ \/ /\ row[j].cancel
          /\ row' = [row EXCEPT ![j].status = "cancelled", ![j].owner = NoOne]
       \/ ~row[j].cancel /\ again /\ Leave(j, "queued", 0)
       \/ ~row[j].cancel /\ ~again /\ Leave(j, "failed", row[j].progress)
    /\ Finish(w)

\* The worker crashed, or gave up because its lease was lost.
Abandon(w) ==
    /\ ~Idle(w)
    /\ Finish(w)
    /\ UNCHANGED row

RequestCancel(j) ==
    /\ row[j].status \in Open
    /\ row' = [row EXCEPT ![j].cancel = TRUE,
                          ![j].status = IF @ = "queued" THEN "cancelled" ELSE @]
    /\ UNCHANGED run

\* One more attempt than were used, up to the hard limit.
Retry(j) ==
    /\ row[j].status = "failed"
    /\ row[j].attempts < HardLimit
    /\ row' = [row EXCEPT ![j].status = "queued", ![j].progress = 0,
                          ![j].budget = row[j].attempts + 1, ![j].cancel = FALSE]
    /\ UNCHANGED run

Next ==
    \/ \E j \in Job : Enqueue(j) \/ Settle(j) \/ RequestCancel(j) \/ Retry(j)
    \/ \E w \in Worker :
        \/ \E j \in Job : Claim(w, j)
        \/ \E p \in 0..(MaxProgress - 1) : Heartbeat(w, p)
        \/ Succeed(w)
        \/ \E retryable \in BOOLEAN : Fail(w, retryable)
        \/ Abandon(w)

Spec == Init /\ [][Next]_vars
=============================================================================
