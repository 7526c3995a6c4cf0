------------------------ MODULE ExperimentExecution ------------------------
(***************************************************************************)
(* Historical experiments: the runner of one execution                     *)
(* (research/experiment_execution_runner.py), the candidate hand-off after *)
(* it (api/background_jobs.py) and the handler around both                 *)
(* (run_experiment_job in api/job_handlers.py).  A record's `done' is its  *)
(* progress_percent.                                                       *)
(***************************************************************************)
EXTENDS DurableExecution

VARIABLES
    stored,    \* executions whose experiment is in the registry
    handed     \* executions whose candidate was handed off

results == <<stored, handed>>
allVars == <<row, run, pc, final, lapses, crashes, exec, copy, stored, handed>>

Label == {"idle", "report_5", "load", "start", "progress_5", "check_1", "save_20",
          "progress_20", "check_2", "compute", "check_3", "save_90", "progress_90",
          "save_succeeded", "progress_95", "save_failed", "returned", "report_98",
          "succeed", "raised", "fail_active", "save_fail_active", "error", "fatal"}

\* The labels inside the handler's try block.
InRunner == {"progress_5", "check_1", "save_20", "progress_20", "check_2", "compute",
             "check_3", "save_90", "progress_90", "save_succeeded", "progress_95",
             "returned"}

\* Every state variable has its type, and a stored progress is a percentage
\* that fits its status.
TypeOK ==
    /\ exec \in [Job -> Execution] /\ copy \in [Worker -> Execution]
    /\ pc \in [Worker -> Label]
    /\ final \in [Worker -> BOOLEAN]
    /\ lapses \in 0..MaxLapses /\ crashes \in 0..MaxCrashes
    /\ stored \subseteq Job /\ handed \subseteq Job
    /\ \A j \in Job : exec[j].done \in CASE exec[j].status \in {"absent", "queued"} -> {0}
                                         [] exec[j].status \in {"running", "failed"} -> 1..99
                                         [] exec[j].status = "succeeded" -> {100}

ExecInit ==
    /\ RecordInit
    /\ stored = {}
    /\ handed = {}

-----------------------------------------------------------------------------
\* report_progress outside the handler's try block: an exception reaches run_once.
OuterReport(w) ==
    /\ \/ pc[w] = "report_5" /\ ReportClamped(w, 5, "load", "error")
       \/ pc[w] = "report_98" /\ ReportClamped(w, 98, "succeed", "error")
    /\ UNCHANGED recordVars

\* progress(...) inside the runner: an exception reaches the except branch.
RunnerReport(w) ==
    /\ \/ /\ pc[w] = "progress_5"
          /\ ReportClamped(w, IF copy[w].done > 5 THEN copy[w].done ELSE 5,
                           "check_1", "raised")
       \/ pc[w] = "progress_20" /\ ReportClamped(w, copy[w].done, "check_2", "raised")
       \/ pc[w] = "progress_90" /\ ReportClamped(w, copy[w].done, "save_succeeded", "raised")
       \/ pc[w] = "progress_95" /\ ReportClamped(w, 95, "returned", "raised")
    /\ UNCHANGED recordVars

\* cancelled(), and the dataset that may be gone after the first check
Check(w) ==
    LET cancel == row[run[w].job].cancel IN
    /\ \/ pc[w] \in {"check_1", "check_2", "check_3"} /\ cancel /\ Goto(w, "save_failed")
       \/ pc[w] = "check_1" /\ ~cancel /\ (Goto(w, "save_failed") \/ Goto(w, "save_20"))
       \/ pc[w] = "check_2" /\ ~cancel /\ Goto(w, "compute")
       \/ pc[w] = "check_3" /\ ~cancel /\ Goto(w, "save_90")
    /\ Local
    /\ UNCHANGED recordVars

\* update_progress and save, skipped when an earlier attempt was further
SaveProgress(w, label, p, next) ==
    /\ pc[w] = label
    /\ IF copy[w].done < p THEN Save(w, Running(copy[w], p))
                           ELSE UNCHANGED recordVars
    /\ Goto(w, next)
    /\ Local

SaveSucceeded(w) ==
    /\ pc[w] = "save_succeeded"
    /\ Save(w, Succeeded(copy[w], 100))
    /\ Goto(w, "progress_95")
    /\ Local

\* Mutant of Compute: the experiment is built and never saved.
ComputeUnsaved(w) ==
    /\ pc[w] = "compute"
    /\ Goto(w, "check_3") \/ Goto(w, "save_failed")
    /\ Local
    /\ UNCHANGED <<recordVars, results>>

\* ResearchPipeline, ExperimentBuilder and the registry's save, which finds an
\* experiment of the same content under the same ID: built and stored, or an
\* ArithmeticError or ValueError.
Compute(w) ==
    /\ pc[w] = "compute"
    /\ \/ stored' = stored \cup {run[w].job} /\ Goto(w, "check_3")
       \/ stored' = stored /\ Goto(w, "save_failed")
    /\ Local
    /\ UNCHANGED <<recordVars, handed>>

\* Mutant of Returned: the returned status is not looked at.
ReturnedUnchecked(w) ==
    /\ pc[w] = "returned"
    /\ handed' = handed \cup {run[w].job}
    /\ Goto(w, "report_98")
    /\ Local
    /\ UNCHANGED <<recordVars, stored>>

\* The runner returned: a succeeded execution's candidate is handed off, a
\* failed execution becomes a final error of the job.
Returned(w) ==
    /\ pc[w] = "returned"
    /\ \/ /\ copy[w].status = "succeeded"
          /\ handed' = handed \cup {run[w].job}
          /\ Goto(w, "report_98")
       \/ copy[w].status = "failed" /\ handed' = handed /\ Goto(w, "fatal")
    /\ Local
    /\ UNCHANGED <<recordVars, stored>>

\* The handler's reports to the queue may break as well.
ReportBroken(w) ==
    /\ pc[w] \in {"report_5", "report_98"}
    /\ Goto(w, "error")
    /\ Local
    /\ UNCHANGED recordVars

RecordStep(w) ==
    \/ OuterReport(w)
    \/ Load(w, "progress_5")
    \/ Start(w, 1, "progress_5")
    \/ RunnerReport(w)
    \/ Check(w)
    \/ SaveProgress(w, "save_20", 20, "progress_20")
    \/ SaveProgress(w, "save_90", 90, "progress_90")
    \/ SaveSucceeded(w)
    \/ SaveFailed(w)
    \/ FailActive(w, exec[run[w].job])
    \/ SaveFailActive(w, 1)

ExecNext ==
    \/ \E j \in Job : (Submit(j) \/ AroundJob(j)) /\ UNCHANGED results
    \/ \E w \in Worker :
        \/ (\E j \in Job : StartJob(w, j, "report_5")) /\ UNCHANGED results
        \/ RecordStep(w) /\ UNCHANGED results
        \/ Compute(w)
        \/ Returned(w)
        \/ Broken(w, InRunner) /\ UNCHANGED results
        \/ ReportBroken(w) /\ UNCHANGED results
        \/ Around(w) /\ UNCHANGED results

ExecSpec == ExecInit /\ [][ExecNext]_allVars

-----------------------------------------------------------------------------
\* Whatever crashes, lapsed leases, retries and cancellations happen, a
\* succeeded execution has its experiment in the registry, and a succeeded job
\* has that experiment and a candidate that was handed off.
SuccessIsBacked ==
    \A j \in Job : /\ exec[j].status = "succeeded" => j \in stored
                   /\ row[j].status = "succeeded" => j \in stored /\ j \in handed

\* A stored execution that ended is never changed again (the state machine has
\* no transition out of SUCCEEDED or FAILED): not by a retry, not by fail_active
\* after the last attempt, and not by a worker that is still at work on it.
\* The code does not keep this: see the README, known divergences.
EndedExecutionFinal ==
    [][\A j \in Job : exec[j].status \in Ended => exec'[j] = exec[j]]_allVars

\* The same while no worker outlives its lease: crashes, broken steps, retries
\* and cancellations alone never change an execution that ended.
EndedExecutionKept ==
    [][LeasesHeld => \A j \in Job : exec[j].status \in Ended => exec'[j] = exec[j]]_allVars

\* While no worker outlives its lease, the progress a user sees of an execution
\* never moves back, not even when a crashed or broken attempt is repeated from
\* the start of the runner.
ExecutionProgressMonotone ==
    [][LeasesHeld => \A j \in Job : exec'[j].done >= exec[j].done]_allVars

\* While no worker outlives its lease, a succeeded job and its execution agree.
SuccessAgrees ==
    LeasesHeld =>
        \A j \in Job : row[j].status = "succeeded" => exec[j].status = "succeeded"

\* "End of the retry budget": the job has failed for good and its execution is
\* FAILED, or was SUCCEEDED before.
\* The code does not keep this: see the README, known divergences.
FailedJobEndsExecution ==
    \A j \in Job : row[j].status = "failed" => exec[j].status \in Ended
=============================================================================
