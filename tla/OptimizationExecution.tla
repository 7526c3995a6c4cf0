----------------------- MODULE OptimizationExecution -----------------------
(***************************************************************************)
(* Optimization executions: the trials of a plan are run one after the     *)
(* other, each followed by the walk-forward folds of its robustness        *)
(* evaluation, and recorded one by one (research/optimization_worker.py    *)
(* and run_optimization_execution_job in api/job_handlers.py).  A record's *)
(* `done' is completed_trials.  Unlike the other two handlers this one     *)
(* reports its own progress without raising it to what the job already     *)
(* shows, and fail_active shares the runner's session.                     *)
(***************************************************************************)
EXTENDS DurableExecution

CONSTANTS
    TotalTrials,   \* trials of the optimization plan, at least one
    TotalFolds     \* folds of the robustness plan; 0 when there is none

VARIABLES
    fold,       \* folds each runner has finished of its current trial
    stored,     \* the trials of each execution whose experiment is in the registry
    executed    \* trial executions spent on each execution

results == <<fold, stored, executed>>
allVars == <<row, run, pc, final, lapses, crashes, exec, copy, fold, stored, executed>>

Trial == 1..TotalTrials

Label == {"idle", "load", "start", "progress", "check", "next_trial", "run_trial",
          "run_fold", "check_fold", "progress_fold", "evaluate", "save_trial",
          "progress_trial", "check_end", "rank", "save_succeeded", "progress_95",
          "save_failed", "returned", "succeed", "raised", "fail_active",
          "save_fail_active", "error", "fatal"}

\* The labels inside the handler's try block.
InRunner == {"progress", "check", "next_trial", "run_trial", "run_fold", "check_fold",
             "progress_fold", "evaluate", "save_trial", "progress_trial", "check_end",
             "rank", "save_succeeded", "progress_95"}

\* Every state variable has its type, and a stored trial count fits its status.
TypeOK ==
    /\ exec \in [Job -> Execution] /\ copy \in [Worker -> Execution]
    /\ pc \in [Worker -> Label]
    /\ final \in [Worker -> BOOLEAN]
    /\ lapses \in 0..MaxLapses /\ crashes \in 0..MaxCrashes
    /\ fold \in [Worker -> 0..TotalFolds]
    /\ stored \in [Job -> SUBSET Trial]
    /\ executed \in [Job -> Nat]
    /\ \A j \in Job : exec[j].done \in CASE exec[j].status \in {"absent", "queued"} -> {0}
                                         [] exec[j].status \in {"running", "failed"} -> 0..TotalTrials
                                         [] exec[j].status = "succeeded" -> {TotalTrials}

ExecInit ==
    /\ RecordInit
    /\ fold = [w \in Worker |-> 0]
    /\ stored = [j \in Job |-> {}]
    /\ executed = [j \in Job |-> 0]

\* _progress and _fold_progress
Percent(e) == 5 + (e.done * 85) \div TotalTrials

FoldPercent(e, folds) ==
    5 + ((e.done * TotalFolds + folds) * 85) \div (TotalTrials * TotalFolds)

-----------------------------------------------------------------------------
\* report_progress: refused when the lease is lost or progress would move back.
\* A ValueError of the second kind inside the evaluation is taken for a failed
\* evaluation.
RunnerReport(w) ==
    /\ \/ pc[w] = "progress" /\ Report(w, Percent(copy[w]), "check", "raised", "raised")
       \/ /\ pc[w] = "progress_fold"
          /\ Report(w, FoldPercent(copy[w], fold[w]), "run_fold", "raised", "save_failed")
       \/ /\ pc[w] = "progress_trial"
          /\ Report(w, Percent(copy[w]), "next_trial", "raised", "raised")
       \/ pc[w] = "progress_95" /\ Report(w, 95, "returned", "raised", "raised")
    /\ UNCHANGED recordVars

\* cancellation_requested(); after the first check the dataset or the
\* walk-forward plan may be gone or changed, and the ranking may find nothing
Check(w) ==
    LET cancel == row[run[w].job].cancel IN
    /\ \/ /\ pc[w] \in {"check", "next_trial", "check_fold", "check_end"}
          /\ cancel
          /\ pc[w] = "next_trial" => copy[w].done < TotalTrials
          /\ Goto(w, "save_failed")
       \/ pc[w] = "check" /\ ~cancel /\ (Goto(w, "save_failed") \/ Goto(w, "next_trial"))
       \/ pc[w] = "next_trial" /\ copy[w].done = TotalTrials /\ Goto(w, "check_end")
       \/ pc[w] = "next_trial" /\ copy[w].done < TotalTrials /\ ~cancel /\ Goto(w, "run_trial")
       \/ pc[w] = "check_fold" /\ ~cancel /\ Goto(w, "progress_fold")
       \/ pc[w] = "check_end" /\ ~cancel /\ Goto(w, "rank")
       \/ pc[w] = "rank" /\ (Goto(w, "save_failed") \/ Goto(w, "save_succeeded"))
    /\ Local
    /\ UNCHANGED recordVars

\* _build_strategy and _execute_trial: the experiment is built and stored, or
\* an ArithmeticError or ValueError.
RunTrial(w) ==
    LET j == run[w].job IN
    /\ pc[w] = "run_trial"
    /\ executed' = [executed EXCEPT ![j] = @ + 1]
    /\ fold' = [fold EXCEPT ![w] = 0]
    /\ \/ /\ stored' = [stored EXCEPT ![j] = @ \cup {copy[w].done + 1}]
          /\ Goto(w, IF TotalFolds = 0 THEN "save_trial" ELSE "run_fold")
       \/ stored' = stored /\ Goto(w, "save_failed")
    /\ Local
    /\ UNCHANGED recordVars

\* The executor's loop over the folds, each followed by fold_completed.
RunFold(w) ==
    /\ pc[w] = "run_fold"
    /\ \/ fold[w] < TotalFolds /\ fold' = [fold EXCEPT ![w] = @ + 1] /\ Goto(w, "check_fold")
       \/ fold[w] = TotalFolds /\ fold' = fold /\ Goto(w, "evaluate")
       \/ fold' = fold /\ Goto(w, "save_failed")
    /\ Local
    /\ UNCHANGED <<recordVars, stored, executed>>

\* The walk-forward run is stored (idempotently) and scored.
Evaluate(w) ==
    /\ pc[w] = "evaluate"
    /\ Goto(w, "save_trial") \/ Goto(w, "save_failed")
    /\ Local
    /\ UNCHANGED recordVars

\* Mutant of SaveTrial: trials are recorded in memory until the ranking.
SaveTrialLater(w) ==
    /\ pc[w] = "save_trial"
    /\ copy' = [copy EXCEPT ![w].done = @ + 1]
    /\ Goto(w, "progress_trial")
    /\ Local
    /\ UNCHANGED exec

\* record_trial and save
SaveTrial(w) ==
    /\ pc[w] = "save_trial"
    /\ Save(w, Running(copy[w], copy[w].done + 1))
    /\ Goto(w, "progress_trial")
    /\ Local

SaveSucceeded(w) ==
    /\ pc[w] = "save_succeeded"
    /\ Save(w, Succeeded(copy[w], copy[w].done))
    /\ Goto(w, "progress_95")
    /\ Local

Returned(w) ==
    /\ pc[w] = "returned"
    /\ \/ copy[w].status = "succeeded" /\ Goto(w, "succeed")
       \/ copy[w].status = "failed" /\ Goto(w, "fatal")
    /\ Local
    /\ UNCHANGED recordVars

\* What fail_active's get returns: the row object the runner's session loaded
\* and last saved, or a fresh one if it loaded none or was rolled back.
SessionRecords(w) ==
    {exec[run[w].job]} \cup ({copy[w]} \ {NoExecution})

RecordStep(w) ==
    \/ Load(w, "progress")
    \/ Start(w, 0, "progress")
    \/ RunnerReport(w)
    \/ Check(w)
    \/ Evaluate(w)
    \/ SaveTrial(w)
    \/ SaveSucceeded(w)
    \/ SaveFailed(w)
    \/ Returned(w)
    \/ ~Idle(w) /\ \E e \in SessionRecords(w) : FailActive(w, e)
    \/ SaveFailActive(w, 0)
    \/ Broken(w, InRunner)
    \/ Around(w)

ExecNext ==
    \/ \E j \in Job : (Submit(j) \/ AroundJob(j)) /\ UNCHANGED results
    \/ \E w \in Worker :
        \/ (\E j \in Job : StartJob(w, j, "load")) /\ UNCHANGED results
        \/ RecordStep(w) /\ UNCHANGED results
        \/ RunTrial(w)
        \/ RunFold(w)

ExecSpec == ExecInit /\ [][ExecNext]_allVars

-----------------------------------------------------------------------------
\* A succeeded execution, and a succeeded job, has every trial's experiment in
\* the registry, whatever crashes, lapsed leases and retries happened.
SuccessIsBacked ==
    \A j \in Job :
        "succeeded" \in {exec[j].status, row[j].status} => stored[j] = Trial

\* While no lease lapses under a running worker, every attempt repeats at most
\* the one trial it had not recorded.
ResumeLosesOneTrial ==
    LeasesHeld => \A j \in Job : executed[j] <= exec[j].done + row[j].attempts

\* "After a crash ... the runner goes on from the recorded trials": the first
\* report of a resumed attempt that holds the lease is accepted.
\* The code does not keep this: see the README, known divergences.
ResumedReportAccepted ==
    \A w \in Worker :
        pc[w] = "progress" /\ Owns(w) => Percent(copy[w]) >= row[run[w].job].progress
=============================================================================
