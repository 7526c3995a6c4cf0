----------------------------- MODULE JobHandler -----------------------------
(***************************************************************************)
(* What every job handler does around its own work: a worker claims a job, *)
(* enters the handler, reports progress through the lease, and leaves it   *)
(* with a result or an exception (BackgroundJobWorker.run_once and the     *)
(* try/except of the handlers in api/job_handlers.py).  The queue          *)
(* underneath is JobLifecycle.                                             *)
(***************************************************************************)
EXTENDS JobLifecycle

CONSTANTS
    MaxLapses,       \* bound: leases that expire while their worker is at work
    MaxCrashes       \* bound: worker crashes in one behaviour

ASSUME HandlerBounds == MaxLapses \in Nat /\ MaxCrashes \in Nat

VARIABLES
    pc,        \* where in its handler each worker is; "idle" outside
    final,     \* context.job.attempt_count >= context.job.max_attempts
    lapses,    \* number of leases lost so far by a worker still at work
    crashes    \* number of worker crashes so far

handlerVars == <<pc, final, lapses, crashes>>

HandlerInit ==
    /\ Init
    /\ pc = [w \in Worker |-> "idle"]
    /\ final = [w \in Worker |-> FALSE]
    /\ lapses = 0
    /\ crashes = 0

\* No worker has outlived its lease so far.
LeasesHeld == lapses = 0

Goto(w, label) == pc' = [pc EXCEPT ![w] = label]

\* A running row can be claimed once its lease expired: the worker that held
\* it is gone, or it is late and works on without knowing.
Lapse(j) ==
    \/ ~(\E w \in Worker : Owns(w) /\ run[w].job = j) /\ UNCHANGED lapses
    \/ /\ \E w \in Worker : Owns(w) /\ run[w].job = j
       /\ lapses < MaxLapses
       /\ lapses' = lapses + 1

\* run_once claims the job and calls the handler, which starts at `first'.
Enter(w, j, first) ==
    /\ Lapse(j)
    /\ Claim(w, j)
    /\ Goto(w, first)
    /\ final' = [final EXCEPT ![w] = row[j].attempts + 1 >= row[j].budget]
    /\ UNCHANGED crashes

\* claim_next settles a cancelled or exhausted row on its way.
SettleRow(j) ==
    /\ Lapse(j)
    /\ Settle(j)
    /\ UNCHANGED <<pc, final, crashes>>

\* context.heartbeat(p): accepted, refused because the lease is lost, or
\* refused because progress would move back.
Report(w, p, accepted, lost, back) ==
    /\ \/ Heartbeat(w, p) /\ Goto(w, accepted)
       \/ ~Owns(w) /\ Goto(w, lost) /\ UNCHANGED vars
       \/ /\ Owns(w)
          /\ p < row[run[w].job].progress
          /\ Goto(w, back)
          /\ UNCHANGED vars
    /\ UNCHANGED <<final, lapses, crashes>>

\* report_progress(p) == context.heartbeat(max(p, context.job.progress_percent))
ReportClamped(w, p, accepted, lost) ==
    LET known == row[run[w].job].progress IN
    Report(w, IF p >= known THEN p ELSE known, accepted, lost, lost)

\* The handler returned: succeed, or a conflict that gives the job up.
SucceedJob(w) ==
    /\ pc[w] = "succeed"
    /\ Succeed(w) \/ (~Owns(w) /\ Abandon(w))
    /\ Goto(w, "idle")
    /\ UNCHANGED <<final, lapses, crashes>>

\* The handler raised: "error" is retryable, "fatal" a BackgroundJobHandlerError
\* with retryable = False.
FailJob(w) ==
    /\ pc[w] \in {"error", "fatal"}
    /\ Fail(w, pc[w] = "error") \/ (~Owns(w) /\ Abandon(w))
    /\ Goto(w, "idle")
    /\ UNCHANGED <<final, lapses, crashes>>

\* except Exception: re-raise unless this was the last attempt.
Raised(w) ==
    /\ pc[w] = "raised"
    /\ Goto(w, IF final[w] THEN "fail_active" ELSE "error")
    /\ UNCHANGED <<row, run, final, lapses, crashes>>

Crash(w) ==
    /\ crashes < MaxCrashes
    /\ Abandon(w)
    /\ Goto(w, "idle")
    /\ crashes' = crashes + 1
    /\ UNCHANGED <<final, lapses>>

\* The operator's calls on the job.
Operator(j) ==
    /\ RequestCancel(j) \/ Retry(j)
    /\ UNCHANGED handlerVars
=============================================================================
