------------------------ MODULE WalkForwardExecution ------------------------
(***************************************************************************)
(* Walk-forward executions: the runner stores a checkpoint after every     *)
(* fold and a later attempt goes on behind the last one                    *)
(* (research/walk_forward_execution_runner.py, walk_forward.py, and        *)
(* run_walk_forward_job in api/job_handlers.py).  A record's `done' is     *)
(* completed_folds, which is also the number of its fold checkpoints.      *)
(***************************************************************************)
EXTENDS DurableExecution

CONSTANT TotalFolds   \* folds of the plan, at least one

VARIABLES
    stored,    \* executions whose walk-forward run is in the registry
    computed   \* fold computations spent on each execution

results == <<stored, computed>>
allVars == <<row, run, pc, final, lapses, crashes, exec, copy, stored, computed>>

Label == {"idle", "report_1", "load", "start", "progress", "check", "fold", "save_fold",
          "progress_fold", "check_fold", "finish", "save_run", "save_succeeded",
          "save_failed", "returned", "report_99", "succeed", "raised", "fail_active",
          "save_fail_active", "error", "fatal"}

\* The labels inside the handler's try block.
InRunner == {"progress", "check", "fold", "save_fold", "progress_fold", "check_fold",
             "finish", "save_run", "save_succeeded", "returned"}

\* Every state variable has its type, and a stored fold count fits its status.
TypeOK ==
    /\ exec \in [Job -> Execution] /\ copy \in [Worker -> Execution]
    /\ pc \in [Worker -> Label]
    /\ final \in [Worker -> BOOLEAN]
    /\ lapses \in 0..MaxLapses /\ crashes \in 0..MaxCrashes
    /\ stored \subseteq Job
    /\ computed \in [Job -> Nat]
    /\ \A j \in Job : exec[j].done \in CASE exec[j].status \in {"absent", "queued"} -> {0}
                                         [] exec[j].status \in {"running", "failed"} -> 0..TotalFolds
                                         [] exec[j].status = "succeeded" -> {TotalFolds}

ExecInit ==
    /\ RecordInit
    /\ stored = {}
    /\ computed = [j \in Job |-> 0]

\* _fold_progress_percent of a running record
Percent(folds) == IF folds = TotalFolds THEN 99 ELSE (folds * 100) \div TotalFolds

-----------------------------------------------------------------------------
\* report_progress outside the handler's try block: an exception reaches run_once.
OuterReport(w) ==
    /\ \/ pc[w] = "report_1" /\ ReportClamped(w, 1, "load", "error")
       \/ pc[w] = "report_99" /\ ReportClamped(w, 99, "succeed", "error")
    /\ UNCHANGED recordVars

\* progress(running.progress_percent), once and after every checkpoint
RunnerReport(w) ==
    /\ \/ pc[w] = "progress" /\ ReportClamped(w, Percent(copy[w].done), "check", "raised")
       \/ /\ pc[w] = "progress_fold"
          /\ ReportClamped(w, Percent(copy[w].done), "check_fold", "raised")
    /\ UNCHANGED recordVars

\* cancelled(), and after the first check the dataset and the plan, which may
\* be gone, changed or invalid
Check(w) ==
    LET cancel == row[run[w].job].cancel IN
    /\ \/ pc[w] \in {"check", "check_fold", "finish"} /\ cancel /\ Goto(w, "save_failed")
       \/ pc[w] = "check" /\ ~cancel /\ (Goto(w, "save_failed") \/ Goto(w, "fold"))
       \/ pc[w] = "check_fold" /\ ~cancel /\ Goto(w, "fold")
       \/ pc[w] = "finish" /\ ~cancel /\ Goto(w, "save_run")
    /\ Local
    /\ UNCHANGED recordVars

\* The next fold behind the checkpoints is computed; an ArithmeticError or
\* ValueError fails the execution.
RunFold(w) ==
    /\ pc[w] = "fold"
    /\ \/ /\ copy[w].done < TotalFolds
          /\ computed' = [computed EXCEPT ![run[w].job] = @ + 1]
          /\ Goto(w, "save_fold") \/ Goto(w, "save_failed")
       \/ copy[w].done = TotalFolds /\ computed' = computed /\ Goto(w, "finish")
    /\ Local
    /\ UNCHANGED <<recordVars, stored>>

\* save_fold_checkpoint: record_fold_checkpoint and save
SaveFold(w) ==
    /\ pc[w] = "save_fold"
    /\ Save(w, Running(copy[w], copy[w].done + 1))
    /\ Goto(w, "progress_fold")
    /\ Local

\* WalkForwardRunBuilder and the registry's save (idempotent: the run's ID is
\* derived from its content)
SaveRun(w) ==
    /\ pc[w] = "save_run"
    /\ \/ stored' = stored \cup {run[w].job} /\ Goto(w, "save_succeeded")
       \/ stored' = stored /\ Goto(w, "save_failed")
    /\ Local
    /\ UNCHANGED <<recordVars, computed>>

SaveSucceeded(w) ==
    /\ pc[w] = "save_succeeded"
    /\ Save(w, Succeeded(copy[w], copy[w].done))
    /\ Goto(w, "returned")
    /\ Local

\* The handler turns a failed execution into a final error of the job.
Returned(w) ==
    /\ pc[w] = "returned"
    /\ \/ copy[w].status = "succeeded" /\ Goto(w, "report_99")
       \/ copy[w].status = "failed" /\ Goto(w, "fatal")
    /\ Local
    /\ UNCHANGED recordVars

\* The handler's reports to the queue may break as well.
ReportBroken(w) ==
    /\ pc[w] \in {"report_1", "report_99"}
    /\ Goto(w, "error")
    /\ Local
    /\ UNCHANGED recordVars

RecordStep(w) ==
    \/ OuterReport(w)
    \/ Load(w, "progress")
    \/ Start(w, 0, "progress")
    \/ RunnerReport(w)
    \/ Check(w)
    \/ SaveFold(w)
    \/ SaveSucceeded(w)
    \/ SaveFailed(w)
    \/ Returned(w)
    \/ FailActive(w, exec[run[w].job])
    \/ SaveFailActive(w, 0)
    \/ Broken(w, InRunner)
    \/ ReportBroken(w)
    \/ Around(w)

ExecNext ==
    \/ \E j \in Job : (Submit(j) \/ AroundJob(j)) /\ UNCHANGED results
    \/ \E w \in Worker :
        \/ (\E j \in Job : StartJob(w, j, "report_1")) /\ UNCHANGED results
        \/ RecordStep(w) /\ UNCHANGED results
        \/ RunFold(w)
        \/ SaveRun(w)

ExecSpec == ExecInit /\ [][ExecNext]_allVars

-----------------------------------------------------------------------------
\* A succeeded execution has its walk-forward run in the registry and a
\* checkpoint of every fold, and so has a succeeded job, whatever crashes,
\* lapsed leases and retries happened on the way.
SuccessIsBacked ==
    \A j \in Job : /\ exec[j].status = "succeeded" => j \in stored /\ exec[j].done = TotalFolds
                   /\ row[j].status = "succeeded" => j \in stored

\* While no lease lapses under a running worker, every attempt repeats at most
\* the one fold it had not checkpointed: the folds computed are the stored ones
\* and at most one more for each attempt.
ResumeLosesOneFold ==
    LeasesHeld => \A j \in Job : computed[j] <= exec[j].done + row[j].attempts
=============================================================================
