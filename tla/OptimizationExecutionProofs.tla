--------------------- MODULE OptimizationExecutionProofs --------------------
(***************************************************************************)
(* Optimization executions, for any number of workers, jobs, trials,       *)
(* folds, attempts, crashes and lapsed leases: a success is always backed  *)
(* by the experiment of every trial; and until a first lease lapses, an    *)
(* attempt repeats at most the one trial that was not recorded yet.        *)
(*                                                                         *)
(* That there is a trial, and that the number of folds is a natural one,   *)
(* is assumed by each lemma and theorem that needs it (Sizes).             *)
(***************************************************************************)
EXTENDS OptimizationExecution, DurableExecutionProofs

Sizes == TotalTrials \in Nat \ {0} /\ TotalFolds \in Nat

\* The labels at which a runner works on a running record, and those after it has
\* succeeded.
Working == {"progress", "check", "next_trial", "run_trial", "run_fold", "check_fold",
            "progress_fold", "evaluate", "save_trial", "progress_trial", "check_end",
            "rank", "save_succeeded", "save_failed"}
Done == {"progress_95", "succeed"}

\* The labels of a trial's folds, those between a trial's experiment and its record,
\* and those after the last trial.
InFolds == {"run_fold", "check_fold", "progress_fold"}
InTrial == InFolds \cup {"evaluate", "save_trial"}
AtEnd == {"check_end", "rank", "save_succeeded"}

\* The trials that fit the status of a record.
InRange(e) == e.done \in CASE e.status \in {"absent", "queued"} -> {0}
                           [] e.status \in {"running", "failed"} -> 0..TotalTrials
                           [] e.status = "succeeded" -> {TotalTrials}

\* What a runner with record e has brought about before it gets to a label; the
\* registry has the given trials of its execution.
Sound(label, e, trials) ==
    /\ label # "idle" => 1..e.done \subseteq trials
    /\ label = "load" => e = NoExecution
    /\ label \in InTrial \cup {"run_trial"} => e.done < TotalTrials
    /\ label \in InTrial => e.done + 1 \in trials
    /\ label \in InFolds => TotalFolds # 0
    /\ label \in AtEnd => e.done = TotalTrials

\* Until a first lease lapses, the session of a runner that raised has loaded no
\* record, or has the stored one.
SessionInv ==
    lapses = 0 => \A w \in Worker : pc[w] \in {"raised", "fail_active"} =>
        copy[w] \in {NoExecution, exec[run[w].job]}

OptInv ==
    /\ RecordInv(Working, Done)
    /\ TypeOK
    /\ \A w \in Worker : InRange(copy[w]) /\ Sound(pc[w], copy[w], stored[run[w].job])
    /\ \A j \in Job : 1..exec[j].done \subseteq stored[j]
    /\ SessionInv
    /\ SuccessIsBacked

\* What a step does to the results: they keep their types, and the registry grows.
ResultsGrow ==
    /\ fold' \in [Worker -> 0..TotalFolds]
    /\ stored' \in [Job -> SUBSET Trial]
    /\ executed' \in [Job -> Nat]
    /\ \A j \in Job : stored[j] \subseteq stored'[j]

-----------------------------------------------------------------------------
\* The labels are as the shared lemmas need them.
LEMMA OptLabels == Labels(Working, Done)
  BY DEF Labels, Loaded, Working, Done

LEMMA SameResultsGrow ==
    ASSUME OptInv, UNCHANGED results
    PROVE  ResultsGrow
  BY DEF OptInv, TypeOK, results, ResultsGrow

\* While no lease has lapsed, two workers that have a run work on two jobs.
LEMMA JobsApart ==
    ASSUME OptInv, lapses = 0, NEW v \in Worker, NEW w \in Worker, v # w,
           pc[v] # "idle", pc[w] # "idle"
    PROVE  run[v].job # run[w].job
  BY DEF OptInv, RecordInv, HandlerInv, Owns

\* A step of worker w keeps the invariant if it keeps that of the records and
\* brings the worker to a sound state.
LEMMA WorkerKeeps ==
    ASSUME OptInv, RecordInv(Working, Done)', NEW w \in Worker,
           \A v \in Worker \ {w} : pc'[v] = pc[v] /\ copy'[v] = copy[v] /\ run'[v] = run[v],
           pc'[w] \in Label, InRange(copy'[w]), ResultsGrow,
           Sound(pc'[w], copy'[w], stored'[run'[w].job]),
           \A j \in Job : \/ exec'[j] = exec[j]
                          \/ /\ exec'[j] = copy'[w] /\ run[w].job = j /\ run'[w].job = j
                             /\ pc[w] # "idle" /\ pc'[w] # "idle",
           lapses' = 0 => lapses = 0,
           lapses' = 0 /\ pc'[w] \in {"raised", "fail_active"} =>
             copy'[w] \in {NoExecution, exec'[run'[w].job]},
           \A j \in Job : row'[j].status = "succeeded" =>
             row[j].status = "succeeded" \/ Trial \subseteq stored'[j]
    PROVE  OptInv'
  <1>1. \A v \in Worker : InRange(copy'[v])
    BY DEF OptInv
  <1>2. ASSUME NEW v \in Worker
        PROVE  Sound(pc'[v], copy'[v], stored'[run'[v].job])
    <2>1. CASE v = w
      BY <2>1
    <2>2. CASE v # w /\ pc[v] = "idle"
      BY <2>2 DEF OptInv, Sound, InTrial, InFolds, AtEnd
    <2>3. CASE v # w /\ pc[v] # "idle"
      <3>1. run[v].job \in Job
        BY <2>3 DEF OptInv, RecordInv, HandlerInv
      <3>2. stored[run[v].job] \subseteq stored'[run[v].job]
        BY <3>1 DEF ResultsGrow
      <3>3. Sound(pc[v], copy[v], stored[run[v].job])
        BY DEF OptInv
      <3>4. Sound(pc[v], copy[v], stored'[run[v].job])
        BY <3>2, <3>3 DEF Sound
      <3> QED
        BY <2>3, <3>4
    <2> QED
      BY <2>1, <2>2, <2>3
  <1>3. \A j \in Job : InRange(exec'[j])
    BY DEF OptInv, TypeOK, InRange
  <1>4. \A j \in Job : 1..exec'[j].done \subseteq stored'[j]
    BY DEF OptInv, Sound, ResultsGrow
  <1>5. SessionInv'
    <2> SUFFICES ASSUME lapses' = 0, NEW v \in Worker, pc'[v] \in {"raised", "fail_active"}
                 PROVE  copy'[v] \in {NoExecution, exec'[run'[v].job]}
      BY DEF SessionInv
    <2>1. CASE v = w
      BY <2>1
    <2>2. CASE v # w
      <3>1. copy[v] \in {NoExecution, exec[run[v].job]} /\ pc[v] # "idle"
        BY <2>2 DEF OptInv, SessionInv
      <3>2. run[v].job \in Job
        BY <3>1 DEF OptInv, RecordInv, HandlerInv
      <3>3. exec'[run[v].job] = exec[run[v].job]
        BY <2>2, <3>1, <3>2, JobsApart
      <3> QED
        BY <2>2, <3>1, <3>3
    <2> QED
      BY <2>1, <2>2
  <1>6. SuccessIsBacked'
    <2>1. ASSUME NEW j \in Job, exec'[j].status = "succeeded"
          PROVE  stored'[j] = Trial
      <3>1. exec'[j].done = TotalTrials
        BY <1>3, <2>1 DEF InRange
      <3> QED
        BY <1>4, <3>1 DEF ResultsGrow, Trial
    <2>2. ASSUME NEW j \in Job, row'[j].status = "succeeded"
          PROVE  stored'[j] = Trial
      <3>1. row[j].status = "succeeded" => stored[j] = Trial
        BY DEF OptInv, SuccessIsBacked
      <3> QED
        BY <2>2, <3>1 DEF ResultsGrow
    <2> QED
      BY <2>1, <2>2 DEF SuccessIsBacked
  <1>7. pc' \in [Worker -> Label]
    <2>1. pc \in [Worker -> Label]
      BY DEF OptInv, TypeOK
    <2>2. \A v \in Worker : pc'[v] \in Label
      BY <2>1
    <2>3. pc' = [v \in Worker |-> pc'[v]]
      BY DEF RecordInv, HandlerInv
    <2> QED
      BY <2>2, <2>3
  <1>8. TypeOK'
    <2>1. /\ exec' \in [Job -> Execution] /\ copy' \in [Worker -> Execution]
          /\ final' \in [Worker -> BOOLEAN]
          /\ lapses' \in 0..MaxLapses /\ crashes' \in 0..MaxCrashes
      BY DEF RecordInv, HandlerInv
    <2> QED
      BY <1>3, <1>7, <2>1 DEF TypeOK, InRange, ResultsGrow
  <1>9. \A v \in Worker : InRange(copy[v])' /\ Sound(pc[v], copy[v], stored[run[v].job])'
    BY <1>1, <1>2 DEF InRange, Sound
  <1> QED
    BY <1>4, <1>5, <1>6, <1>8, <1>9 DEF OptInv

\* Nothing has happened yet.
LEMMA OptInvInit ==
    ASSUME Sizes, ExecInit
    PROVE  OptInv
  <1>1. RecordInv(Working, Done)
    BY RecordInvInit, OptLabels DEF ExecInit, Labels
  <1>2. /\ exec = [j \in Job |-> NoExecution] /\ copy = [w \in Worker |-> NoExecution]
        /\ pc = [w \in Worker |-> "idle"] /\ row = [j \in Job |-> Absent]
        /\ stored = [j \in Job |-> {}] /\ executed = [j \in Job |-> 0]
        /\ fold = [w \in Worker |-> 0]
    BY DEF ExecInit, RecordInit, HandlerInit, Init
  <1>3. /\ InRange(NoExecution) /\ NoExecution.status = "absent" /\ NoExecution.done = 0
        /\ Absent.status = "absent" /\ 1..0 = {}
    BY DEF NoExecution, InRange, Absent
  <1>4. TypeOK
    <2>1. pc \in [Worker -> Label]
      BY <1>2 DEF Label
    <2>2. \A j \in Job : InRange(exec[j])
      BY <1>2, <1>3
    <2>3. /\ executed \in [Job -> Nat] /\ stored \in [Job -> SUBSET Trial]
          /\ fold \in [Worker -> 0..TotalFolds]
      BY <1>2 DEF Sizes
    <2> QED
      BY <1>1, <1>2, <2>1, <2>2, <2>3 DEF TypeOK, RecordInv, HandlerInv, InRange
  <1>5. \A w \in Worker : InRange(copy[w]) /\ Sound(pc[w], copy[w], stored[run[w].job])
    BY <1>2, <1>3 DEF Sound, InTrial, InFolds, AtEnd
  <1>6. \A j \in Job : 1..exec[j].done \subseteq stored[j]
    BY <1>2, <1>3
  <1>7. SuccessIsBacked /\ SessionInv
    BY <1>2, <1>3 DEF SuccessIsBacked, SessionInv
  <1> QED
    BY <1>1, <1>4, <1>5, <1>6, <1>7 DEF OptInv

-----------------------------------------------------------------------------
(* The steps.                                                              *)

\* A record is submitted with its job.
LEMMA SubmitOptKeeps ==
    ASSUME OptInv, NEW j \in Job, Submit(j), UNCHANGED results
    PROVE  /\ UNCHANGED <<run, pc, copy, lapses>> /\ NoSuccess
           /\ \A i \in Job : InRange(exec'[i]) /\ exec'[i].done = exec[i].done
           /\ \A i \in Job : exec'[i].status = "succeeded" => exec[i].status = "succeeded"
           /\ \A w \in Worker : pc[w] # "idle" => exec'[run[w].job] = exec[run[w].job]
  <1>1. UNCHANGED <<run, pc, copy, lapses>> /\ NoSuccess /\ row[j].status = "absent"
    BY EnqueueKeeps DEF Submit, Enqueue, handlerVars, OptInv, RecordInv
  <1> DEFINE r == exec[j]
             q == [r EXCEPT !.status = "queued"]
  <1>2. /\ r \in Execution /\ r.status = "absent" /\ InRange(r)
        /\ exec' = [exec EXCEPT ![j] = q]
    BY <1>1 DEF Submit, OptInv, RecordInv, TypeOK, InRange
  <1>3. \A w \in Worker : pc[w] # "idle" => run[w].job \in Job \ {j}
    BY <1>1 DEF OptInv, RecordInv, HandlerInv
  <1>4. exec \in [Job -> Execution] /\ \A i \in Job : InRange(exec[i])
    BY DEF OptInv, TypeOK, InRange
  <1>5. r = exec[j]
    OBVIOUS
  <1> HIDE DEF r
  <1>6. q.status = "queued" /\ q.done = r.done
    BY <1>2 DEF Execution
  <1>7. InRange(q)
    BY <1>2, <1>6 DEF InRange
  <1> HIDE DEF q
  <1>8. \A i \in Job : exec'[i] = IF i = j THEN q ELSE exec[i]
    BY <1>2, <1>4
  <1> QED
    BY <1>1, <1>3, <1>4, <1>5, <1>6, <1>7, <1>8

\* The steps beside the workers.
LEMMA BesideKeeps ==
    ASSUME OptInv, NEW j \in Job, Submit(j) \/ AroundJob(j), UNCHANGED results
    PROVE  OptInv' /\ Kept
  <1>1. RecordInv(Working, Done)' /\ Kept
    BY SubmitKeeps, AroundJobKeeps DEF OptInv
  <1>2. /\ UNCHANGED <<run, pc, copy>> /\ (lapses' = 0 => lapses = 0) /\ NoSuccess
        /\ \A i \in Job : InRange(exec'[i]) /\ exec'[i].done = exec[i].done
        /\ \A i \in Job : exec'[i].status = "succeeded" => exec[i].status = "succeeded"
        /\ \A w \in Worker : pc[w] # "idle" => exec'[run[w].job] = exec[run[w].job]
    <2>1. CASE Submit(j)
      BY <2>1, SubmitOptKeeps
    <2>2. CASE AroundJob(j)
      BY <2>2, SettleRowKeeps, OperatorKeeps
      DEF AroundJob, recordVars, OptInv, RecordInv, TypeOK, InRange
    <2> QED
      BY <2>1, <2>2
  <1>3. fold' = fold /\ stored' = stored /\ executed' = executed
    BY DEF results
  <1>4. SuccessIsBacked'
    <2>1. \A i \in Job : exec[i].status = "succeeded" \/ row[i].status = "succeeded" =>
            stored[i] = Trial
      BY DEF OptInv, SuccessIsBacked
    <2> QED
      BY <1>2, <1>3, <2>1 DEF SuccessIsBacked, NoSuccess
  <1>5. TypeOK'
    <2>1. \A i \in Job : InRange(exec'[i])
      BY <1>2
    <2>2. /\ exec' \in [Job -> Execution] /\ copy' \in [Worker -> Execution]
          /\ final' \in [Worker -> BOOLEAN] /\ pc' \in [Worker -> Label]
          /\ lapses' \in 0..MaxLapses /\ crashes' \in 0..MaxCrashes
      BY <1>1, <1>2 DEF RecordInv, HandlerInv, OptInv, TypeOK
    <2>3. ResultsGrow
      BY SameResultsGrow
    <2> QED
      BY <2>1, <2>2, <2>3 DEF TypeOK, InRange, ResultsGrow
  <1>6. \A w \in Worker : InRange(copy[w])' /\ Sound(pc[w], copy[w], stored[run[w].job])'
    BY <1>2, <1>3 DEF OptInv, Sound, InRange
  <1>7. SessionInv'
    BY <1>2 DEF OptInv, SessionInv
  <1>8. ASSUME NEW i \in Job
        PROVE  1..exec'[i].done \subseteq stored'[i]
    <2>1. 1..exec[i].done \subseteq stored[i]
      BY DEF OptInv
    <2>2. exec'[i].done = exec[i].done
      BY <1>2
    <2> QED
      BY <1>3, <2>1, <2>2
  <1> QED
    BY <1>1, <1>4, <1>5, <1>6, <1>7, <1>8 DEF OptInv

\* A worker starts the handler.
LEMMA EnterOptKeeps ==
    ASSUME OptInv, NEW w \in Worker, NEW j \in Job, StartJob(w, j, "load"),
           UNCHANGED results
    PROVE  OptInv' /\ Kept
  <1>1. RecordInv(Working, Done)' /\ Kept
    BY StartJobKeeps DEF OptInv, Loaded, Working, Done
  <1>2. /\ NoSuccess /\ (lapses' = 0 => lapses = 0)
        /\ run' = [run EXCEPT ![w] = run'[w]]
        /\ pc' = [pc EXCEPT ![w] = "load"]
        /\ copy' = [copy EXCEPT ![w] = NoExecution] /\ exec' = exec
    BY EnterKeeps DEF StartJob, OptInv, RecordInv
  <1>3. /\ pc'[w] = "load" /\ copy'[w] = NoExecution
        /\ \A v \in Worker \ {w} : pc'[v] = pc[v] /\ copy'[v] = copy[v] /\ run'[v] = run[v]
    BY <1>2 DEF OptInv, RecordInv, HandlerInv
  <1>4. InRange(copy'[w]) /\ copy'[w].done = 0 /\ 1..0 = {}
    BY <1>3 DEF NoExecution, InRange
  <1>5. Sound(pc'[w], copy'[w], stored'[run'[w].job])
    BY <1>3, <1>4 DEF Sound, InTrial, InFolds, AtEnd
  <1>6. "load" \in Label /\ ResultsGrow
    BY SameResultsGrow DEF Label
  <1> QED
    BY <1>1, <1>2, <1>3, <1>4, <1>5, <1>6, WorkerKeeps DEF NoSuccess

\* What worker w has when it raises: no record, or the stored one.
LEMMA RaisingSession ==
    ASSUME OptInv, NEW w \in Worker, lapses = 0,
           pc[w] \in Loaded(Working, Done) \cup {"load", "raised"}
    PROVE  copy[w] \in {NoExecution, exec[run[w].job]}
  BY DEF OptInv, RecordInv, CopyInv, Sound, SessionInv

\* A step of a worker that leaves the record alone.
LEMMA StayingKeeps ==
    ASSUME OptInv, RecordInv(Working, Done)', NEW w \in Worker, NEW label \in Label,
           pc' = [pc EXCEPT ![w] = label], run' = run, lapses' = lapses, NoSuccess,
           UNCHANGED recordVars, ResultsGrow,
           Sound(label, copy[w], stored'[run[w].job]),
           label \in {"raised", "fail_active"} =>
             pc[w] \in Loaded(Working, Done) \cup {"load", "raised"}
    PROVE  OptInv'
  <1>1. /\ pc'[w] = label /\ copy' = copy /\ exec' = exec
        /\ \A v \in Worker \ {w} : pc'[v] = pc[v] /\ copy'[v] = copy[v] /\ run'[v] = run[v]
    BY DEF OptInv, TypeOK, recordVars
  <1>2. InRange(copy'[w])
    BY <1>1 DEF OptInv
  <1>3. Sound(pc'[w], copy'[w], stored'[run'[w].job])
    BY <1>1
  <1>4. lapses' = 0 /\ pc'[w] \in {"raised", "fail_active"} =>
          copy'[w] \in {NoExecution, exec'[run'[w].job]}
    BY <1>1, RaisingSession
  <1> QED
    BY <1>1, <1>2, <1>3, <1>4, WorkerKeeps DEF NoSuccess

\* The same with a record that is stored.
LEMMA SavingKeeps ==
    ASSUME OptInv, RecordInv(Working, Done)', NEW w \in Worker, NEW label,
           NEW e \in Execution, InRange(e), pc[w] # "idle",
           pc' = [pc EXCEPT ![w] = label], Local, Save(w, e), UNCHANGED results,
           1..e.done \subseteq stored[run[w].job],
           label \in {"progress", "progress_trial", "progress_95", "returned",
                     "save_fail_active", "fatal"}
    PROVE  OptInv'
  <1>1. /\ pc'[w] = label /\ copy'[w] = e
        /\ run' = run /\ row' = row /\ stored' = stored /\ lapses' = lapses
        /\ \A v \in Worker \ {w} : pc'[v] = pc[v] /\ copy'[v] = copy[v] /\ run'[v] = run[v]
    BY DEF OptInv, TypeOK, Local, Save, results
  <1>2. \A j \in Job : exec'[j] = exec[j] \/ (exec'[j] = e /\ run[w].job = j)
    <2> DEFINE i == run[w].job
    <2>1. exec \in [Job -> Execution] /\ exec' = [exec EXCEPT ![i] = e]
      BY DEF OptInv, TypeOK, Save
    <2> HIDE DEF i
    <2>2. \A j \in Job : exec'[j] = exec[j] \/ (exec'[j] = e /\ i = j)
      BY <2>1
    <2> QED
      BY <2>2 DEF i
  <1>3. Sound(pc'[w], copy'[w], stored'[run'[w].job])
    BY <1>1 DEF Sound, InTrial, InFolds, AtEnd
  <1>4. label \in Label /\ ResultsGrow
    BY SameResultsGrow DEF Label
  <1> QED
    BY <1>1, <1>2, <1>3, <1>4, WorkerKeeps

\* The percentages a runner reports are natural numbers.
LEMMA PercentIsNatural ==
    ASSUME Sizes, NEW e, e.done \in Nat
    PROVE  Percent(e) \in Nat
  <1> DEFINE n == e.done * 85
  <1>1. n \in Nat
    OBVIOUS
  <1> HIDE DEF n
  <1>2. n \div TotalTrials \in Nat
    BY <1>1 DEF Sizes
  <1> QED
    BY <1>2 DEF Percent, n

LEMMA FoldPercentIsNatural ==
    ASSUME Sizes, TotalFolds # 0, NEW e, e.done \in Nat, NEW folds \in Nat
    PROVE  FoldPercent(e, folds) \in Nat
  <1> DEFINE n == (e.done * TotalFolds + folds) * 85
             m == TotalTrials * TotalFolds
  <1>1. e.done * TotalFolds \in Nat
    BY DEF Sizes
  <1>2. n \in Nat
    BY <1>1
  <1>3. m \in Nat \ {0}
    BY DEF Sizes
  <1> HIDE DEF n, m
  <1>4. n \div m \in Nat
    BY <1>2, <1>3
  <1> QED
    BY <1>4 DEF FoldPercent, n, m

\* Where a report leads.
ReportLabels ==
    {<<"progress", "check", "raised">>, <<"progress_fold", "run_fold", "save_failed">>,
     <<"progress_trial", "next_trial", "raised">>, <<"progress_95", "returned", "raised">>}

LEMMA RunnerReports ==
    ASSUME Sizes, OptInv, NEW w \in Worker, RunnerReport(w)
    PROVE  \E p \in Nat, accepted \in Label, back \in {"raised", "save_failed"} :
             /\ Report(w, p, accepted, "raised", back)
             /\ <<pc[w], accepted, back>> \in ReportLabels
  <1>1. copy[w].done \in Nat /\ fold[w] \in Nat
    BY DEF OptInv, RecordInv, Execution, TypeOK
  <1>2. Percent(copy[w]) \in Nat
    BY <1>1, PercentIsNatural
  <1>3. CASE pc[w] = "progress" /\ Report(w, Percent(copy[w]), "check", "raised", "raised")
    BY <1>2, <1>3 DEF ReportLabels, Label
  <1>4. CASE /\ pc[w] = "progress_fold"
             /\ Report(w, FoldPercent(copy[w], fold[w]), "run_fold", "raised", "save_failed")
    <2>1. TotalFolds # 0
      BY <1>4 DEF OptInv, Sound, InFolds
    <2>2. FoldPercent(copy[w], fold[w]) \in Nat
      BY <1>1, <2>1, FoldPercentIsNatural
    <2> QED
      BY <1>4, <2>2 DEF ReportLabels, Label
  <1>5. CASE /\ pc[w] = "progress_trial"
             /\ Report(w, Percent(copy[w]), "next_trial", "raised", "raised")
    BY <1>2, <1>5 DEF ReportLabels, Label
  <1>6. CASE pc[w] = "progress_95" /\ Report(w, 95, "returned", "raised", "raised")
    BY <1>6 DEF ReportLabels, Label
  <1> QED
    BY <1>3, <1>4, <1>5, <1>6 DEF RunnerReport

\* A report.
LEMMA ReportsKeep ==
    ASSUME Sizes, OptInv, NEW w \in Worker, RunnerReport(w), UNCHANGED results
    PROVE  OptInv' /\ Kept
  <1>0. Fitting(Working, Done, pc[w], copy[w].status) /\ RecordInv(Working, Done)
    BY DEF OptInv, RecordInv, CopyInv
  <1>1. PICK p \in Nat, accepted \in Label, back \in {"raised", "save_failed"} :
          /\ Report(w, p, accepted, "raised", back)
          /\ <<pc[w], accepted, back>> \in ReportLabels
    BY RunnerReports
  <1>2. UNCHANGED recordVars /\ lapses' = lapses
    BY <1>1 DEF RunnerReport, Report
  <1>3. /\ pc[w] # "idle" /\ "idle" \notin {accepted, "raised", back}
        /\ pc[w] \in Loaded(Working, Done)
    BY <1>1 DEF ReportLabels, Loaded, Working, Done
  <1>4. ASSUME NEW label \in {accepted, "raised", back}
        PROVE  /\ Fitting(Working, Done, label, copy[w].status)
               /\ label \in Loaded(Working, Done) => pc[w] \in Loaded(Working, Done)
    BY <1>0, <1>1 DEF ReportLabels, Fitting, Loaded, Working, Done, Ended
  <1>5. /\ RecordInv(Working, Done)' /\ Kept /\ NoSuccess /\ run' = run
        /\ \E label \in {accepted, "raised", back} : pc' = [pc EXCEPT ![w] = label]
    BY <1>0, <1>1, <1>2, <1>3, <1>4, StayAtReport
  <1>6. PICK label \in {accepted, "raised", back} : pc' = [pc EXCEPT ![w] = label]
    BY <1>5
  <1>7. label \in Label
    BY <1>1, <1>6 DEF Label
  <1>8. ResultsGrow /\ stored' = stored
    BY SameResultsGrow DEF results
  <1>9. Sound(label, copy[w], stored'[run[w].job])
    <2>1. Sound(pc[w], copy[w], stored[run[w].job])
      BY DEF OptInv
    <2>2. <<pc[w], label>> \in {<<"progress", "check">>, <<"progress", "raised">>,
            <<"progress_fold", "run_fold">>, <<"progress_fold", "raised">>,
            <<"progress_fold", "save_failed">>, <<"progress_trial", "next_trial">>,
            <<"progress_trial", "raised">>, <<"progress_95", "returned">>,
            <<"progress_95", "raised">>}
      BY <1>1, <1>6 DEF ReportLabels
    <2> QED
      BY <1>8, <2>1, <2>2 DEF Sound, InTrial, InFolds, AtEnd
  <1> QED
    BY <1>2, <1>3, <1>5, <1>6, <1>7, <1>8, <1>9, StayingKeeps

\* A step within the runner that leaves the record alone.
LEMMA RunningKeeps ==
    ASSUME OptInv, NEW w \in Worker, pc[w] \in Working, NEW label \in Working,
           pc' = [pc EXCEPT ![w] = label], Local, UNCHANGED recordVars, ResultsGrow,
           Sound(label, copy[w], stored'[run[w].job])
    PROVE  OptInv' /\ Kept
  <1>1. label \in Label /\ label # "idle" /\ pc[w] # "idle"
        /\ label \notin {"raised", "fail_active"}
    BY DEF Label, Working
  <1>2. RecordInv(Working, Done) /\ copy[w].status = "running"
    BY DEF OptInv, RecordInv, CopyInv, Fitting
  <1>3. Fitting(Working, Done, label, copy[w].status) /\ pc[w] \in Loaded(Working, Done)
    BY <1>2, OptLabels DEF Fitting, Labels, Loaded
  <1>4. RecordInv(Working, Done)' /\ Kept
    BY <1>1, <1>2, <1>3, StayKeeps
  <1>5. run' = run /\ lapses' = lapses /\ NoSuccess
    BY DEF Local, NoSuccess
  <1> QED
    BY <1>1, <1>4, <1>5, StayingKeeps

\* A runner looks at the cancel request, at what it needs, and whether a trial is
\* left.
LEMMA CheckKeeps ==
    ASSUME OptInv, NEW w \in Worker, Check(w), UNCHANGED results
    PROVE  OptInv' /\ Kept
  <1>1. PICK label \in {"save_failed", "next_trial", "check_end", "run_trial",
                      "progress_fold", "rank", "save_succeeded"} :
        /\ pc' = [pc EXCEPT ![w] = label]
        /\ pc[w] \in {"check", "next_trial", "check_fold", "check_end", "rank"}
        /\ label = "check_end" => pc[w] = "next_trial" /\ copy[w].done = TotalTrials
        /\ label = "run_trial" => pc[w] = "next_trial" /\ copy[w].done < TotalTrials
        /\ label = "progress_fold" => pc[w] = "check_fold"
        /\ label \in {"rank", "save_succeeded"} => pc[w] \in {"check_end", "rank"}
    BY DEF Check, Goto
  <1>2. Local /\ UNCHANGED recordVars
    BY DEF Check
  <1>3. pc[w] \in Working /\ label \in Working
    BY <1>1 DEF Working
  <1>4. ResultsGrow /\ stored' = stored
    BY SameResultsGrow DEF results
  <1>5. Sound(label, copy[w], stored'[run[w].job])
    <2>1. Sound(pc[w], copy[w], stored[run[w].job])
      BY DEF OptInv
    <2> QED
      BY <1>1, <1>4, <2>1 DEF Sound, InTrial, InFolds, AtEnd
  <1> QED
    BY <1>1, <1>2, <1>3, <1>4, <1>5, RunningKeeps

\* A trial is executed and its experiment stored.
LEMMA RunTrialKeeps ==
    ASSUME Sizes, OptInv, NEW w \in Worker, RunTrial(w)
    PROVE  OptInv' /\ Kept
  <1> DEFINE j == run[w].job
             n == copy[w].done + 1
  <1>1. /\ pc[w] = "run_trial" /\ Local /\ UNCHANGED recordVars
        /\ executed' = [executed EXCEPT ![j] = @ + 1]
        /\ fold' = [fold EXCEPT ![w] = 0]
    BY DEF RunTrial
  <1>2. PICK label \in {"save_trial", "run_fold", "save_failed"} :
        /\ pc' = [pc EXCEPT ![w] = label]
        /\ \/ label = "save_failed" /\ stored' = stored
           \/ /\ label = "save_trial" \/ (label = "run_fold" /\ TotalFolds # 0)
              /\ stored' = [stored EXCEPT ![j] = @ \cup {n}]
    BY DEF RunTrial, Goto
  <1>3. /\ j \in Job /\ stored \in [Job -> SUBSET Trial] /\ executed \in [Job -> Nat]
        /\ fold \in [Worker -> 0..TotalFolds] /\ copy[w].done \in Nat
    BY <1>1 DEF OptInv, RecordInv, HandlerInv, TypeOK, Execution
  <1>4. Sound("run_trial", copy[w], stored[j])
    BY <1>1 DEF OptInv
  <1>5. 1..copy[w].done \subseteq stored[j] /\ copy[w].done < TotalTrials
    BY <1>4 DEF Sound
  <1>6. n \in Trial
    BY <1>3, <1>5 DEF Trial, Sizes
  <1>7. n = copy[w].done + 1
    OBVIOUS
  <1> HIDE DEF n
  <1>8. ResultsGrow
    <2>1. fold' \in [Worker -> 0..TotalFolds] /\ executed' \in [Job -> Nat]
      BY <1>1, <1>3 DEF Sizes
    <2>2. stored' \in [Job -> SUBSET Trial] /\ \A i \in Job : stored[i] \subseteq stored'[i]
      BY <1>2, <1>3, <1>6
    <2> QED
      BY <2>1, <2>2 DEF ResultsGrow
  <1>9. label # "save_failed" => n \in stored'[j]
    BY <1>2, <1>3
  <1>10. Sound(label, copy[w], stored'[run[w].job])
    <2>1. 1..copy[w].done \subseteq stored'[j]
      BY <1>3, <1>5, <1>8 DEF ResultsGrow
    <2> QED
      BY <1>2, <1>5, <1>7, <1>9, <2>1 DEF Sound, InTrial, InFolds, AtEnd
  <1>11. pc[w] \in Working /\ label \in Working
    BY <1>1, <1>2 DEF Working
  <1> QED
    BY <1>1, <1>2, <1>8, <1>10, <1>11, RunningKeeps

\* A fold of a trial, and the evaluation behind the last one.
LEMMA EvaluationKeeps ==
    ASSUME Sizes, OptInv, NEW w \in Worker, RunFold(w) \/ (Evaluate(w) /\ UNCHANGED results)
    PROVE  OptInv' /\ Kept
  <1>1. PICK label \in {"check_fold", "evaluate", "save_trial", "save_failed"} :
        /\ pc' = [pc EXCEPT ![w] = label]
        /\ pc[w] \in {"run_fold", "evaluate"}
        /\ label = "check_fold" => pc[w] = "run_fold"
    BY DEF RunFold, Evaluate, Goto
  <1>2. Local /\ UNCHANGED recordVars /\ stored' = stored /\ executed' = executed
    BY DEF RunFold, Evaluate, results
  <1>3. pc[w] \in Working /\ label \in Working
    BY <1>1 DEF Working
  <1>4. fold' \in [Worker -> 0..TotalFolds]
    <2>1. fold \in [Worker -> 0..TotalFolds]
      BY DEF OptInv, TypeOK
    <2>2. \/ fold' = fold
          \/ fold[w] < TotalFolds /\ fold' = [fold EXCEPT ![w] = @ + 1]
      BY DEF RunFold, results
    <2>3. fold[w] < TotalFolds => fold[w] + 1 \in 0..TotalFolds
      BY <2>1 DEF Sizes
    <2> QED
      BY <2>1, <2>2, <2>3
  <1>5. ResultsGrow
    BY <1>2, <1>4 DEF ResultsGrow, OptInv, TypeOK
  <1>6. Sound(label, copy[w], stored'[run[w].job])
    <2>1. Sound(pc[w], copy[w], stored[run[w].job])
      BY DEF OptInv
    <2> QED
      BY <1>1, <1>2, <2>1 DEF Sound, InTrial, InFolds, AtEnd
  <1> QED
    BY <1>1, <1>2, <1>3, <1>5, <1>6, RunningKeeps

\* A runner reads a record e, or takes one its session has.
LEMMA TakingKeeps ==
    ASSUME OptInv, RecordInv(Working, Done)', NEW w \in Worker, NEW e \in Execution,
           NEW label \in {"returned", "start", "progress", "fatal", "save_fail_active"},
           pc[w] # "idle", pc' = [pc EXCEPT ![w] = label], Local,
           copy' = [copy EXCEPT ![w] = e], exec' = exec, UNCHANGED results,
           InRange(e), 1..e.done \subseteq stored[run[w].job]
    PROVE  OptInv'
  <1>1. /\ pc'[w] = label /\ copy'[w] = e
        /\ \A v \in Worker \ {w} : pc'[v] = pc[v] /\ copy'[v] = copy[v] /\ run'[v] = run[v]
    BY DEF OptInv, RecordInv, HandlerInv, Local
  <1>2. /\ run' = run /\ row' = row /\ lapses' = lapses /\ stored' = stored
        /\ ResultsGrow /\ label \in Label
    BY SameResultsGrow DEF Local, results, Label
  <1>3. Sound(pc'[w], copy'[w], stored'[run'[w].job])
    BY <1>1, <1>2 DEF Sound, InTrial, InFolds, AtEnd
  <1> QED
    BY <1>1, <1>2, <1>3, WorkerKeeps

\* The stored record of a worker's job is one it can take.
LEMMA StoredRecord ==
    ASSUME OptInv, NEW w \in Worker, pc[w] # "idle"
    PROVE  /\ run[w].job \in Job /\ exec[run[w].job] \in Execution
           /\ exec[run[w].job].status # "absent" /\ InRange(exec[run[w].job])
           /\ 1..exec[run[w].job].done \subseteq stored[run[w].job]
  <1>1. run[w].job \in Job /\ row[run[w].job].status # "absent"
    BY DEF OptInv, RecordInv, HandlerInv
  <1> QED
    BY <1>1 DEF OptInv, RecordInv, TypeOK, InRange

\* A runner reads the record.
LEMMA LoadOptKeeps ==
    ASSUME OptInv, NEW w \in Worker, Load(w, "progress"), UNCHANGED results
    PROVE  OptInv' /\ Kept
  <1> DEFINE e == exec[run[w].job]
             label == IF e.status \in Ended THEN "returned"
                      ELSE IF e.status = "queued" THEN "start" ELSE "progress"
  <1>1. /\ pc[w] # "idle" /\ pc' = [pc EXCEPT ![w] = label] /\ Local
        /\ copy' = [copy EXCEPT ![w] = e] /\ exec' = exec
    BY DEF Load, Goto
  <1>2. "progress" \in Working /\ RecordInv(Working, Done)
    BY DEF Working, OptInv
  <1>3. RecordInv(Working, Done)' /\ Kept
    BY <1>2, OptLabels, LoadKeeps
  <1>4. e \in Execution /\ InRange(e) /\ 1..e.done \subseteq stored[run[w].job]
    BY <1>1, StoredRecord
  <1>5. label \in {"returned", "start", "progress"}
    OBVIOUS
  <1> HIDE DEF e, label
  <1> QED
    BY <1>1, <1>3, <1>4, <1>5, TakingKeeps

\* A queued record is started without a trial.
LEMMA StartOptKeeps ==
    ASSUME Sizes, OptInv, NEW w \in Worker, Start(w, 0, "progress"), UNCHANGED results
    PROVE  OptInv' /\ Kept
  <1> DEFINE e == Running(copy[w], 0)
  <1>1. pc[w] = "start" /\ pc' = [pc EXCEPT ![w] = "progress"] /\ Local /\ Save(w, e)
    BY DEF Start, Goto
  <1>2. "progress" \in Working /\ RecordInv(Working, Done)
    BY DEF Working, OptInv
  <1>3. copy[w] \in Execution /\ copy[w].status = "queued" /\ InRange(copy[w])
    BY <1>1 DEF OptInv, RecordInv, CopyInv, Fitting
  <1>4. 0 >= copy[w].done
    BY <1>3 DEF InRange
  <1>5. RecordInv(Working, Done)' /\ Kept
    BY <1>2, <1>4, OptLabels, StartKeeps
  <1>6. e \in Execution /\ e.status = "running" /\ e.done = 0
    BY <1>3 DEF Running, Execution
  <1> HIDE DEF e
  <1>7. InRange(e) /\ 1..e.done \subseteq stored[run[w].job]
    BY <1>6 DEF InRange, Sizes
  <1> QED
    BY <1>1, <1>5, <1>6, <1>7, SavingKeeps

\* A runner stores a record that goes on from its own.
LEMMA AdvanceOpt ==
    ASSUME RecordInv(Working, Done), NEW w \in Worker, pc[w] \in Working,
           NEW e \in Execution, NEW label,
           pc' = [pc EXCEPT ![w] = label], Local, Save(w, e), e.done >= copy[w].done,
           \/ e.status = "running" /\ label \in Working
           \/ e.status = "succeeded" /\ label \in Done \cup {"returned"}
           \/ e.status = "failed" /\ label = "returned"
    PROVE  RecordInv(Working, Done)' /\ Kept
  BY OptLabels, AdvanceKeeps

\* One more trial is in the registry.
LEMMA OneMore ==
    ASSUME NEW n \in Nat, NEW trials, 1..n \subseteq trials, n + 1 \in trials
    PROVE  1..(n + 1) \subseteq trials
  <1>1. \A i \in 1..(n + 1) : i \in 1..n \/ i = n + 1
    OBVIOUS
  <1> QED
    BY <1>1

\* A trial is recorded.
LEMMA SaveTrialKeeps ==
    ASSUME Sizes, OptInv, NEW w \in Worker, SaveTrial(w), UNCHANGED results
    PROVE  OptInv' /\ Kept
  <1> DEFINE n == copy[w].done + 1
             e == Running(copy[w], n)
  <1>1. /\ pc[w] = "save_trial" /\ pc' = [pc EXCEPT ![w] = "progress_trial"]
        /\ Local /\ Save(w, e)
    BY DEF SaveTrial, Goto
  <1>2. pc[w] \in Working /\ "progress_trial" \in Working
    BY <1>1 DEF Working
  <1>3. RecordInv(Working, Done) /\ copy[w] \in Execution /\ copy[w].done \in Nat
    BY DEF OptInv, RecordInv, Execution
  <1>4. Sound("save_trial", copy[w], stored[run[w].job])
    BY <1>1 DEF OptInv
  <1>5. /\ copy[w].done < TotalTrials /\ 1..copy[w].done \subseteq stored[run[w].job]
        /\ n \in stored[run[w].job]
    BY <1>4 DEF Sound, InTrial
  <1>6. n \in Nat /\ n \in 0..TotalTrials /\ n >= copy[w].done
    BY <1>3, <1>5 DEF Sizes
  <1>7. 1..n \subseteq stored[run[w].job]
    BY <1>3, <1>5, OneMore
  <1> HIDE DEF n
  <1>8. e \in Execution /\ e.status = "running" /\ e.done = n
    BY <1>3, <1>6, NextRecords
  <1> HIDE DEF e
  <1>9. InRange(e)
    BY <1>6, <1>8 DEF InRange
  <1>10. RecordInv(Working, Done)' /\ Kept
    BY <1>1, <1>2, <1>3, <1>6, <1>8, AdvanceOpt
  <1>11. pc[w] # "idle"
    BY <1>1
  <1> QED
    BY <1>1, <1>7, <1>8, <1>9, <1>10, <1>11, SavingKeeps

\* A runner ends its record.
LEMMA EndingKeeps ==
    ASSUME Sizes, OptInv, NEW w \in Worker,
           SaveSucceeded(w) \/ SaveFailed(w), UNCHANGED results
    PROVE  OptInv' /\ Kept
  <1>1. RecordInv(Working, Done) /\ copy[w] \in Execution /\ InRange(copy[w])
        /\ copy[w].done \in Nat /\ Sound(pc[w], copy[w], stored[run[w].job])
    BY DEF OptInv, RecordInv, Execution
  <1>2. CASE SaveSucceeded(w)
    <2> DEFINE n == copy[w].done
               e == Succeeded(copy[w], n)
    <2>1. /\ pc[w] = "save_succeeded" /\ pc' = [pc EXCEPT ![w] = "progress_95"]
          /\ Local /\ Save(w, e)
      BY <1>2 DEF SaveSucceeded, Goto
    <2>2. pc[w] \in Working /\ "progress_95" \in Done /\ pc[w] # "idle"
      BY <2>1 DEF Working, Done
    <2>3. n = TotalTrials /\ 1..n \subseteq stored[run[w].job]
      BY <1>1, <2>1 DEF Sound, AtEnd
    <2>4. e \in Execution /\ e.status = "succeeded" /\ e.done = n
      <3>1. copy[w] \in Execution /\ n \in Nat
        BY <1>1 DEF Execution
      <3> QED
        BY <3>1, NextRecords
    <2> HIDE DEF e
    <2>5. InRange(e) /\ e.done >= copy[w].done
      BY <1>1, <2>3, <2>4 DEF InRange
    <2>6. RecordInv(Working, Done)' /\ Kept
      BY <1>1, <2>1, <2>2, <2>4, <2>5, AdvanceOpt
    <2>7. 1..e.done \subseteq stored[run[w].job]
      BY <2>3, <2>4
    <2> QED
      BY <2>1, <2>2, <2>4, <2>5, <2>6, <2>7, SavingKeeps
  <1>3. CASE SaveFailed(w)
    <2> DEFINE e == Failed(copy[w])
    <2>1. /\ pc[w] = "save_failed" /\ pc' = [pc EXCEPT ![w] = "returned"]
          /\ Local /\ Save(w, e)
      BY <1>3 DEF SaveFailed, Goto
    <2>2. pc[w] \in Working /\ pc[w] # "idle"
      BY <2>1 DEF Working
    <2>3. copy[w].status = "running"
      BY <2>2 DEF OptInv, RecordInv, CopyInv, Fitting
    <2>4. copy[w].done \in 0..TotalTrials /\ 1..copy[w].done \subseteq stored[run[w].job]
      BY <1>1, <2>2, <2>3 DEF InRange, Sound
    <2>5. e \in Execution /\ e.status = "failed" /\ e.done = copy[w].done
      BY <1>1, NextRecords
    <2> HIDE DEF e
    <2>6. InRange(e) /\ 1..e.done \subseteq stored[run[w].job]
      BY <2>4, <2>5 DEF InRange
    <2>7. RecordInv(Working, Done)' /\ Kept
      BY <1>1, <1>3, OptLabels, SaveFailedKeeps
    <2> QED
      BY <2>1, <2>2, <2>5, <2>6, <2>7, SavingKeeps
  <1> QED
    BY <1>2, <1>3

\* The runner has returned.
LEMMA ReturnedKeeps ==
    ASSUME OptInv, NEW w \in Worker, Returned(w), UNCHANGED results
    PROVE  OptInv' /\ Kept
  <1>1. PICK label \in {"succeed", "fatal"} :
        /\ pc' = [pc EXCEPT ![w] = label]
        /\ label = "succeed" => copy[w].status = "succeeded"
    BY DEF Returned, Goto
  <1>2. pc[w] = "returned" /\ Local /\ UNCHANGED recordVars
    BY DEF Returned
  <1>3. label \in Label /\ pc[w] # "idle" /\ label # "idle"
        /\ label \notin Working \cup {"start", "returned", "save_fail_active"}
        /\ (label \in Done => label = "succeed")
    BY <1>2 DEF Working, Label, Done
  <1>4. RecordInv(Working, Done)
    BY DEF OptInv
  <1>5. /\ Fitting(Working, Done, label, copy[w].status)
        /\ pc[w] \in Loaded(Working, Done)
    BY <1>1, <1>2, <1>3 DEF Fitting, Loaded
  <1>6. RecordInv(Working, Done)' /\ Kept
    BY <1>1, <1>2, <1>3, <1>4, <1>5, StayKeeps
  <1>7. /\ run' = run /\ lapses' = lapses /\ NoSuccess
        /\ ResultsGrow /\ stored' = stored
    BY <1>2, SameResultsGrow DEF Local, NoSuccess, results
  <1>8. Sound(label, copy[w], stored'[run[w].job])
    <2>1. Sound(pc[w], copy[w], stored[run[w].job])
      BY DEF OptInv
    <2> QED
      BY <1>1, <1>2, <1>7, <2>1 DEF Sound, InTrial, InFolds, AtEnd
  <1>9. label \notin {"raised", "fail_active"}
    OBVIOUS
  <1> QED
    BY <1>1, <1>2, <1>3, <1>6, <1>7, <1>8, <1>9, StayingKeeps

\* What fail_active takes: until a first lease lapses it is the stored record.
LEMMA SessionRecord ==
    ASSUME OptInv, NEW w \in Worker, pc[w] = "fail_active", NEW e \in SessionRecords(w)
    PROVE  /\ e \in Execution /\ e.status # "absent" /\ InRange(e)
           /\ 1..e.done \subseteq stored[run[w].job]
           /\ lapses = 0 => e = exec[run[w].job]
  <1>1. CASE e = exec[run[w].job]
    BY <1>1, StoredRecord
  <1>2. CASE e = copy[w] /\ e # NoExecution
    <2>1. e \in Execution /\ InRange(e) /\ 1..e.done \subseteq stored[run[w].job]
      BY <1>2 DEF OptInv, RecordInv, Sound
    <2>2. e.status = "absent" => e.done = 0
      BY <2>1 DEF InRange
    <2>3. e.status # "absent"
      BY <1>2, <2>1, <2>2 DEF Execution, NoExecution
    <2>4. lapses = 0 => e = exec[run[w].job]
      BY <1>2 DEF OptInv, SessionInv
    <2> QED
      BY <2>1, <2>3, <2>4
  <1> QED
    BY <1>1, <1>2 DEF SessionRecords

\* The last attempt raised: fail_active takes a record, and fails it.
LEMMA FailActiveOptKeeps ==
    ASSUME OptInv, NEW w \in Worker, NEW e \in SessionRecords(w), FailActive(w, e),
           UNCHANGED results
    PROVE  OptInv' /\ Kept
  <1> DEFINE label == IF e.status \in Ended THEN "fatal" ELSE "save_fail_active"
  <1>1. /\ pc[w] = "fail_active" /\ pc' = [pc EXCEPT ![w] = label] /\ Local
        /\ copy' = [copy EXCEPT ![w] = e] /\ exec' = exec
    BY DEF FailActive, Goto
  <1>2. /\ e \in Execution /\ e.status # "absent" /\ InRange(e)
        /\ 1..e.done \subseteq stored[run[w].job]
        /\ lapses = 0 => e = exec[run[w].job]
    BY <1>1, SessionRecord
  <1>3. RecordInv(Working, Done)
    BY DEF OptInv
  <1>4. RecordInv(Working, Done)' /\ Kept
    BY <1>2, <1>3, OptLabels, FailActiveTakes
  <1>5. label \in {"fatal", "save_fail_active"} /\ pc[w] # "idle"
    BY <1>1
  <1> HIDE DEF label
  <1> QED
    BY <1>1, <1>2, <1>4, <1>5, TakingKeeps

LEMMA SaveFailActiveOptKeeps ==
    ASSUME Sizes, OptInv, NEW w \in Worker, SaveFailActive(w, 0), UNCHANGED results
    PROVE  OptInv' /\ Kept
  <1>1. RecordInv(Working, Done) /\ copy[w] \in Execution /\ InRange(copy[w])
        /\ Sound(pc[w], copy[w], stored[run[w].job])
    BY DEF OptInv, RecordInv
  <1>2. pc[w] = "save_fail_active" /\ pc[w] # "idle" /\ Local
    BY DEF SaveFailActive
  <1>3. copy[w].status \in {"queued", "running"} /\ copy[w].done \in Nat
    BY <1>1, <1>2 DEF RecordInv, CopyInv, Fitting, Execution
  <1>4. copy[w].status = "queued" => 0 >= copy[w].done
    BY <1>1 DEF InRange
  <1>5. RecordInv(Working, Done)' /\ Kept
    BY <1>1, <1>4, OptLabels, SaveFailActiveKeeps
  <1>6. CASE copy[w].status = "queued"
    <2> DEFINE e == Running(copy[w], 0)
    <2>1. Save(w, e) /\ pc' = pc
      BY <1>6 DEF SaveFailActive
    <2>2. e \in Execution /\ e.status = "running" /\ e.done = 0
      BY <1>1 DEF Running, Execution
    <2> HIDE DEF e
    <2>3. InRange(e) /\ 1..e.done \subseteq stored[run[w].job]
      BY <2>2 DEF InRange, Sizes
    <2>4. pc' = [pc EXCEPT ![w] = "save_fail_active"]
      BY <1>1, <1>2, <2>1 DEF RecordInv, HandlerInv
    <2> QED
      BY <1>2, <1>5, <2>1, <2>2, <2>3, <2>4, SavingKeeps
  <1>7. CASE copy[w].status = "running"
    <2> DEFINE e == Failed(copy[w])
    <2>1. Save(w, e) /\ pc' = [pc EXCEPT ![w] = "fatal"]
      BY <1>3, <1>7 DEF SaveFailActive, Goto
    <2>2. e \in Execution /\ e.status = "failed" /\ e.done = copy[w].done
      BY <1>1, <1>3, NextRecords
    <2>3. copy[w].done \in 0..TotalTrials /\ 1..copy[w].done \subseteq stored[run[w].job]
      BY <1>1, <1>2, <1>7 DEF InRange, Sound
    <2> HIDE DEF e
    <2>4. InRange(e) /\ 1..e.done \subseteq stored[run[w].job]
      BY <2>2, <2>3 DEF InRange
    <2> QED
      BY <1>2, <1>5, <2>1, <2>2, <2>4, SavingKeeps
  <1> QED
    BY <1>3, <1>6, <1>7

\* A step of the handler breaks.
LEMMA BreakingKeeps ==
    ASSUME OptInv, NEW w \in Worker, Broken(w, InRunner), UNCHANGED results
    PROVE  OptInv' /\ Kept
  <1>1. PICK label \in {"raised", "error"} :
          /\ pc' = [pc EXCEPT ![w] = label]
          /\ label = "raised" => pc[w] \in InRunner \cup {"load", "start", "save_failed"}
    BY DEF Broken, Goto
  <1>2. pc[w] # "idle" /\ Local /\ UNCHANGED recordVars /\ "idle" \notin InRunner
    BY DEF Broken, InRunner
  <1>3. label \in Label
    BY DEF Label
  <1>4. RecordInv(Working, Done)
    BY DEF OptInv
  <1>5. RecordInv(Working, Done)' /\ Kept
    BY <1>2, <1>4, OptLabels, BrokenKeeps
  <1>6. /\ run' = run /\ lapses' = lapses /\ NoSuccess
        /\ ResultsGrow /\ stored' = stored
    BY <1>2, SameResultsGrow DEF Local, NoSuccess, results
  <1>7. Sound(label, copy[w], stored'[run[w].job])
    <2>1. Sound(pc[w], copy[w], stored[run[w].job])
      BY DEF OptInv
    <2> QED
      BY <1>2, <1>6, <2>1 DEF Sound, InTrial, InFolds, AtEnd
  <1>8. label \in {"raised", "fail_active"} =>
          pc[w] \in Loaded(Working, Done) \cup {"load", "raised"}
    BY <1>1 DEF InRunner, Loaded, Working, Done
  <1> QED
    BY <1>1, <1>2, <1>3, <1>5, <1>6, <1>7, <1>8, StayingKeeps

\* A worker leaves its handler.
LEMMA LeavingKeeps ==
    ASSUME OptInv, NEW w \in Worker, Around(w), UNCHANGED results
    PROVE  OptInv' /\ Kept
  <1>1. RecordInv(Working, Done)
    BY DEF OptInv
  <1>2. RecordInv(Working, Done)' /\ Kept
    BY <1>1, OptLabels, AroundKeeps
  <1>3. UNCHANGED recordVars /\ stored' = stored /\ ResultsGrow
    BY SameResultsGrow DEF Around, results
  <1>4. CASE Raised(w)
    <2>1. PICK label \in {"fail_active", "error"} : pc' = [pc EXCEPT ![w] = label]
      BY <1>4 DEF Raised, Goto
    <2>2. run' = run /\ lapses' = lapses /\ NoSuccess /\ pc[w] = "raised"
      BY <1>4 DEF Raised, NoSuccess
    <2>3. Sound(pc[w], copy[w], stored[run[w].job])
      BY DEF OptInv
    <2>4. label \in Label /\ Sound(label, copy[w], stored'[run[w].job])
      BY <1>3, <2>1, <2>2, <2>3 DEF Label, Sound, InTrial, InFolds, AtEnd
    <2> QED
      BY <1>2, <1>3, <2>1, <2>2, <2>4, StayingKeeps
  <1>5. ASSUME run' = [run EXCEPT ![w] = NoRun], pc' = [pc EXCEPT ![w] = "idle"],
               lapses' = lapses,
               \A j \in Job : row'[j].status = "succeeded" =>
                 row[j].status = "succeeded" \/ Trial \subseteq stored'[j]
        PROVE  OptInv'
    <2>1. /\ pc'[w] = "idle" /\ copy' = copy /\ exec' = exec /\ "idle" \in Label
          /\ \A v \in Worker \ {w} : pc'[v] = pc[v] /\ copy'[v] = copy[v] /\ run'[v] = run[v]
      BY <1>1, <1>3, <1>5 DEF RecordInv, HandlerInv, recordVars, Label
    <2>2. InRange(copy'[w])
      BY <2>1 DEF OptInv
    <2>3. Sound(pc'[w], copy'[w], stored'[run'[w].job])
      BY <2>1 DEF Sound, InTrial, InFolds, AtEnd
    <2> QED
      BY <1>2, <1>3, <1>5, <2>1, <2>2, <2>3, WorkerKeeps
  <1>6. CASE SucceedJob(w)
    <2>1. /\ run' = [run EXCEPT ![w] = NoRun] /\ pc' = [pc EXCEPT ![w] = "idle"]
          /\ pc[w] = "succeed" /\ lapses' = lapses
          /\ \A j \in Job : row'[j].status = "succeeded" =>
               row[j].status = "succeeded" \/ j = run[w].job
      BY <1>1, <1>6, SucceedJobKeeps DEF RecordInv
    <2>2. copy[w].status = "succeeded" /\ InRange(copy[w])
      BY <1>1, <2>1 DEF OptInv, RecordInv, CopyInv, Fitting, Done
    <2>3. 1..copy[w].done \subseteq stored[run[w].job]
      BY <2>1 DEF OptInv, Sound
    <2>4. Trial \subseteq stored'[run[w].job]
      BY <1>3, <2>2, <2>3 DEF InRange, Trial
    <2> QED
      BY <1>2, <1>5, <2>1, <2>4
  <1>7. CASE FailJob(w) \/ Crash(w)
    <2>1. /\ run' = [run EXCEPT ![w] = NoRun] /\ pc' = [pc EXCEPT ![w] = "idle"]
          /\ NoSuccess /\ lapses' = lapses
      BY <1>1, <1>7, FailJobKeeps, CrashKeeps DEF RecordInv
    <2> QED
      BY <1>2, <1>5, <2>1 DEF NoSuccess
  <1> QED
    BY <1>2, <1>4, <1>6, <1>7 DEF Around

\* A step of a worker on its record.
LEMMA RecordStepKeeps ==
    ASSUME Sizes, OptInv, NEW w \in Worker, RecordStep(w), UNCHANGED results
    PROVE  OptInv' /\ Kept
  <1>1. CASE RunnerReport(w)
    BY <1>1, ReportsKeep
  <1>2. CASE Load(w, "progress")
    BY <1>2, LoadOptKeeps
  <1>3. CASE Start(w, 0, "progress")
    BY <1>3, StartOptKeeps
  <1>4. CASE Check(w)
    BY <1>4, CheckKeeps
  <1>5. CASE Evaluate(w)
    BY <1>5, EvaluationKeeps
  <1>6. CASE SaveTrial(w)
    BY <1>6, SaveTrialKeeps
  <1>7. CASE SaveSucceeded(w) \/ SaveFailed(w)
    BY <1>7, EndingKeeps
  <1>8. CASE Returned(w)
    BY <1>8, ReturnedKeeps
  <1>9. CASE \E e \in SessionRecords(w) : FailActive(w, e)
    BY <1>9, FailActiveOptKeeps
  <1>10. CASE SaveFailActive(w, 0)
    BY <1>10, SaveFailActiveOptKeeps
  <1>11. CASE Broken(w, InRunner)
    BY <1>11, BreakingKeeps
  <1>12. CASE Around(w)
    BY <1>12, LeavingKeeps
  <1> QED
    BY <1>1, <1>2, <1>3, <1>4, <1>5, <1>6, <1>7, <1>8, <1>9, <1>10, <1>11, <1>12
    DEF RecordStep

\* Every step keeps the invariant, and what an execution has reached.
LEMMA OptInvStep ==
    ASSUME Sizes, OptInv, [ExecNext]_allVars
    PROVE  OptInv' /\ Kept
  <1>1. ASSUME NEW j \in Job, Submit(j) \/ AroundJob(j), UNCHANGED results
        PROVE  OptInv' /\ Kept
    BY <1>1, BesideKeeps
  <1>2. ASSUME NEW w \in Worker
        PROVE  /\ (\E j \in Job : StartJob(w, j, "load")) /\ UNCHANGED results =>
                    OptInv' /\ Kept
               /\ RecordStep(w) /\ UNCHANGED results => OptInv' /\ Kept
               /\ RunTrial(w) => OptInv' /\ Kept
               /\ RunFold(w) => OptInv' /\ Kept
    <2>1. (\E j \in Job : StartJob(w, j, "load")) /\ UNCHANGED results => OptInv' /\ Kept
      BY EnterOptKeeps
    <2>2. RecordStep(w) /\ UNCHANGED results => OptInv' /\ Kept
      BY RecordStepKeeps
    <2>3. RunTrial(w) => OptInv' /\ Kept
      BY RunTrialKeeps
    <2>4. RunFold(w) => OptInv' /\ Kept
      BY EvaluationKeeps
    <2> QED
      BY <2>1, <2>2, <2>3, <2>4
  <1>3. CASE UNCHANGED allVars
    <2>1. OptInv'
      BY <1>3 DEF allVars, OptInv, RecordInv, HandlerInv, CopyInv, Idle, Owns, TypeOK,
                  InRange, Sound, SessionInv, SuccessIsBacked
    <2>2. \A j \in Job : exec[j].done \in Nat
      BY DEF OptInv, TypeOK, Execution
    <2> QED
      BY <1>3, <2>1, <2>2 DEF allVars, Kept
  <1> QED
    BY <1>1, <1>2, <1>3 DEF ExecNext

-----------------------------------------------------------------------------
(* The trials that are repeated.                                           *)

\* The labels before an attempt executes the trial behind the last recorded one.
Fresh == {"load", "start", "progress", "check", "next_trial", "run_trial",
          "progress_trial"}

\* While no lease has lapsed, each attempt has at most one execution to its name that
\* is not a recorded trial, and none while it is about to execute the next one.
ResumeInv ==
    lapses = 0 =>
        /\ \A j \in Job : executed[j] <= exec[j].done + row[j].attempts
        /\ \A w \in Worker : pc[w] \in Fresh =>
             executed[run[w].job] < exec[run[w].job].done + row[run[w].job].attempts

\* What the sums are made of.
LEMMA Summands ==
    ASSUME OptInv
    PROVE  /\ \A j \in Job : executed[j] \in Nat /\ exec[j].done \in Nat
                             /\ row[j].attempts \in Nat
           /\ \A w \in Worker : pc[w] \in Fresh => run[w].job \in Job
  <1>1. \A j \in Job : executed[j] \in Nat /\ exec[j].done \in Nat /\ row[j].attempts \in Nat
    BY DEF OptInv, TypeOK, RecordInv, HandlerInv, Execution, Row
  <1>2. \A w \in Worker : pc[w] \in Fresh => run[w].job \in Job
    BY DEF OptInv, RecordInv, HandlerInv, Fresh
  <1> QED
    BY <1>1, <1>2

\* The same after a step.
LEMMA SummandsNext ==
    ASSUME OptInv'
    PROVE  \A j \in Job : exec'[j].done \in Nat /\ row'[j].attempts \in Nat
  BY DEF OptInv, TypeOK, RecordInv, HandlerInv, Execution, Row

\* Nothing has been executed yet.
LEMMA ResumeInvInit == ExecInit => ResumeInv
  <1> SUFFICES ASSUME ExecInit
               PROVE  ResumeInv
    OBVIOUS
  <1>1. \A j \in Job : executed[j] = 0 /\ exec[j] = NoExecution /\ row[j] = Absent
    BY DEF ExecInit, RecordInit, HandlerInit, Init
  <1>2. NoExecution.done = 0 /\ Absent.attempts \in Nat
    BY LifecycleAssumption DEF NoExecution, Absent
  <1>3. \A w \in Worker : pc[w] \notin Fresh
    BY DEF ExecInit, RecordInit, HandlerInit, Fresh
  <1> QED
    BY <1>1, <1>2, <1>3 DEF ResumeInv

\* A step that executes nothing keeps the account if it brings no worker before its
\* next trial that was not there.
LEMMA NothingExecuted ==
    ASSUME OptInv, OptInv', Kept, Counted, ResumeInv, executed' = executed,
           lapses' = 0 => lapses = 0, NEW w \in Worker,
           \A v \in Worker \ {w} : pc'[v] = pc[v] /\ run'[v] = run[v],
           pc'[w] \in Fresh => pc[w] \in Fresh /\ run'[w] = run[w]
    PROVE  ResumeInv'
  <1> SUFFICES ASSUME lapses' = 0
               PROVE  /\ \A j \in Job : executed'[j] <= exec'[j].done + row'[j].attempts
                      /\ \A v \in Worker : pc'[v] \in Fresh =>
                           executed'[run'[v].job]
                             < exec'[run'[v].job].done + row'[run'[v].job].attempts
    BY DEF ResumeInv
  <1>1. \A j \in Job : /\ exec'[j].done >= exec[j].done /\ row'[j].attempts >= row[j].attempts
                       /\ exec'[j].done \in Nat /\ row'[j].attempts \in Nat
    <2>1. \A j \in Job : exec'[j].done \in Nat /\ row'[j].attempts \in Nat
      BY SummandsNext
    <2> QED
      BY <2>1 DEF Kept, Counted
  <1>2. \A j \in Job : executed[j] \in Nat /\ exec[j].done \in Nat /\ row[j].attempts \in Nat
    BY Summands
  <1>3. \A j \in Job : executed'[j] <= exec'[j].done + row'[j].attempts
    BY <1>1, <1>2 DEF ResumeInv
  <1>4. ASSUME NEW v \in Worker, pc'[v] \in Fresh
        PROVE  executed'[run'[v].job]
                 < exec'[run'[v].job].done + row'[run'[v].job].attempts
    <2>1. pc[v] \in Fresh /\ run'[v] = run[v]
      BY <1>4
    <2>2. run[v].job \in Job
      BY <2>1, Summands
    <2>3. executed[run[v].job] < exec[run[v].job].done + row[run[v].job].attempts
      BY <2>1 DEF ResumeInv
    <2> QED
      BY <1>1, <1>2, <2>1, <2>2, <2>3
  <1> QED
    BY <1>3, <1>4

\* The same for a step that touches neither the queue nor the run.
LEMMA LocalExecutesNothing ==
    ASSUME OptInv, OptInv', Kept, ResumeInv, executed' = executed, Local,
           NEW w \in Worker, NEW label, pc' = [pc EXCEPT ![w] = label],
           label \in Fresh => pc[w] \in Fresh
    PROVE  ResumeInv'
  <1>1. Counted
    BY SameCounted DEF OptInv, RecordInv, Local
  <1>2. /\ \A v \in Worker \ {w} : pc'[v] = pc[v] /\ run'[v] = run[v]
        /\ pc'[w] = label /\ run'[w] = run[w]
        /\ lapses' = lapses
    BY DEF OptInv, RecordInv, HandlerInv, Local
  <1> QED
    BY <1>1, <1>2, NothingExecuted

\* The steps beside the workers, and the first one of an attempt.
LEMMA BesideResumes ==
    ASSUME OptInv, OptInv', Kept, ResumeInv, NEW j \in Job, UNCHANGED results,
           Submit(j) \/ AroundJob(j)
    PROVE  ResumeInv'
  <1>1. HandlerInv
    BY DEF OptInv, RecordInv
  <1>2. Counted
    BY <1>1, BesideCounted DEF Submit, AroundJob
  <1>3. run' = run /\ pc' = pc /\ (lapses' = 0 => lapses = 0)
    <2>1. CASE Submit(j)
      BY <2>1 DEF Submit, Enqueue, handlerVars
    <2>2. CASE AroundJob(j)
      BY <1>1, <2>2, SettleRowKeeps, OperatorKeeps DEF AroundJob
    <2> QED
      BY <2>1, <2>2
  <1>4. executed' = executed
    BY DEF results
  <1> SUFFICES ASSUME lapses' = 0
               PROVE  /\ \A i \in Job : executed'[i] <= exec'[i].done + row'[i].attempts
                      /\ \A v \in Worker : pc'[v] \in Fresh =>
                           executed'[run'[v].job]
                             < exec'[run'[v].job].done + row'[run'[v].job].attempts
    BY DEF ResumeInv
  <1>5. \A i \in Job : /\ exec'[i].done >= exec[i].done /\ row'[i].attempts >= row[i].attempts
                       /\ exec'[i].done \in Nat /\ row'[i].attempts \in Nat
    <2>1. \A i \in Job : exec'[i].done \in Nat /\ row'[i].attempts \in Nat
      BY SummandsNext
    <2> QED
      BY <1>2, <1>3, <2>1 DEF Kept, Counted
  <1>6. /\ \A i \in Job : executed[i] \in Nat /\ exec[i].done \in Nat /\ row[i].attempts \in Nat
        /\ \A v \in Worker : pc[v] \in Fresh => run[v].job \in Job
    BY Summands
  <1> QED
    BY <1>3, <1>4, <1>5, <1>6 DEF ResumeInv

\* An attempt that begins brings its worker before a trial, and is counted for it.
LEMMA EnterResumes ==
    ASSUME OptInv, OptInv', Kept, ResumeInv, NEW w \in Worker, NEW j \in Job,
           StartJob(w, j, "load"), UNCHANGED results
    PROVE  ResumeInv'
  <1>1. HandlerInv /\ Enter(w, j, "load")
    BY DEF OptInv, RecordInv, StartJob
  <1>2. Counted /\ row'[j].attempts > row[j].attempts
    BY <1>1, EnterCounted
  <1>3. /\ lapses' = 0 => lapses = 0
        /\ run' = [run EXCEPT ![w] = run'[w]] /\ run'[w].job = j
        /\ pc' = [pc EXCEPT ![w] = "load"]
    BY <1>1, EnterKeeps
  <1>4. /\ executed' = executed /\ exec' = exec
        /\ \A v \in Worker \ {w} : pc'[v] = pc[v] /\ run'[v] = run[v]
    BY <1>1, <1>3 DEF results, StartJob, HandlerInv
  <1> SUFFICES ASSUME lapses' = 0
               PROVE  /\ \A i \in Job : executed'[i] <= exec'[i].done + row'[i].attempts
                      /\ \A v \in Worker : pc'[v] \in Fresh =>
                           executed'[run'[v].job]
                             < exec'[run'[v].job].done + row'[run'[v].job].attempts
    BY DEF ResumeInv
  <1>5. /\ \A i \in Job : executed[i] \in Nat /\ exec[i].done \in Nat /\ row[i].attempts \in Nat
        /\ \A v \in Worker : pc[v] \in Fresh => run[v].job \in Job
    BY Summands
  <1>6. \A i \in Job : row'[i].attempts >= row[i].attempts /\ row'[i].attempts \in Nat
    BY <1>2, SummandsNext DEF Counted
  <1>7. \A i \in Job : executed'[i] <= exec'[i].done + row'[i].attempts
    BY <1>3, <1>4, <1>5, <1>6 DEF ResumeInv
  <1>8. executed'[j] < exec'[j].done + row'[j].attempts
    BY <1>2, <1>3, <1>4, <1>5, <1>6 DEF ResumeInv
  <1>9. ASSUME NEW v \in Worker \ {w}, pc'[v] \in Fresh
        PROVE  executed'[run'[v].job]
                 < exec'[run'[v].job].done + row'[run'[v].job].attempts
    BY <1>3, <1>4, <1>5, <1>6, <1>9 DEF ResumeInv
  <1> QED
    BY <1>3, <1>7, <1>8, <1>9

\* A trial is executed: nobody else works on that job.
LEMMA RunTrialResumes ==
    ASSUME OptInv, OptInv', Kept, ResumeInv, NEW w \in Worker, RunTrial(w)
    PROVE  ResumeInv'
  <1> DEFINE j == run[w].job
  <1>1. PICK label \in {"save_trial", "run_fold", "save_failed"} :
          pc' = [pc EXCEPT ![w] = label]
    BY DEF RunTrial, Goto
  <1>2. /\ pc[w] = "run_trial" /\ Local /\ UNCHANGED recordVars
        /\ executed' = [executed EXCEPT ![j] = @ + 1]
    BY DEF RunTrial
  <1>3. label \notin Fresh
    BY <1>1 DEF Fresh
  <1>4. j \in Job /\ pc[w] \in Fresh
    BY <1>2 DEF OptInv, RecordInv, HandlerInv, Fresh
  <1>5. /\ pc'[w] \notin Fresh
        /\ \A v \in Worker \ {w} : pc'[v] = pc[v]
        /\ run' = run /\ row' = row /\ exec' = exec /\ lapses' = lapses
    BY <1>1, <1>2, <1>3 DEF OptInv, RecordInv, HandlerInv, Local, recordVars
  <1>6. \A v \in Worker \ {w} : lapses = 0 /\ pc[v] \in Fresh => run[v].job # j
    BY <1>2, JobsApart DEF Fresh
  <1>7. executed \in [Job -> Nat]
    BY DEF OptInv, TypeOK
  <1>8. /\ executed'[j] = executed[j] + 1
        /\ \A i \in Job \ {j} : executed'[i] = executed[i]
    BY <1>2, <1>4, <1>7
  <1>9. /\ \A i \in Job : executed[i] \in Nat /\ exec[i].done \in Nat /\ row[i].attempts \in Nat
        /\ \A v \in Worker : pc[v] \in Fresh => run[v].job \in Job
    BY Summands
  <1>10. lapses = 0 => executed[j] + 1 <= exec[j].done + row[j].attempts
    BY <1>4, <1>9 DEF ResumeInv
  <1> HIDE DEF j
  <1> QED
    BY <1>4, <1>5, <1>6, <1>8, <1>9, <1>10 DEF ResumeInv

\* A trial is recorded: its execution counts as done.
LEMMA SaveTrialResumes ==
    ASSUME OptInv, OptInv', Kept, ResumeInv, NEW w \in Worker, SaveTrial(w),
           UNCHANGED results
    PROVE  ResumeInv'
  <1> DEFINE j == run[w].job
             n == copy[w].done + 1
             e == Running(copy[w], n)
  <1>1. /\ pc[w] = "save_trial" /\ pc' = [pc EXCEPT ![w] = "progress_trial"]
        /\ Local /\ exec' = [exec EXCEPT ![j] = e] /\ executed' = executed
    BY DEF SaveTrial, Save, Goto, results
  <1>2. /\ j \in Job /\ exec \in [Job -> Execution] /\ copy[w] \in Execution
        /\ lapses = 0 => copy[w] = exec[j]
    BY <1>1 DEF OptInv, RecordInv, HandlerInv, CopyInv, Loaded, Working
  <1>3. copy[w].done \in Nat
    BY <1>2 DEF Execution
  <1>4. e.done = n
    <2>1. n \in Nat
      BY <1>3
    <2> HIDE DEF n
    <2> QED
      BY <1>2, <2>1 DEF Running, Execution
  <1> HIDE DEF e
  <1>5. /\ exec'[j].done = n
        /\ \A i \in Job \ {j} : exec'[i] = exec[i]
    BY <1>1, <1>2, <1>4
  <1>6. /\ \A v \in Worker \ {w} : pc'[v] = pc[v]
        /\ run' = run /\ row' = row /\ lapses' = lapses
    BY <1>1 DEF OptInv, RecordInv, HandlerInv, Local
  <1>7. /\ \A i \in Job : executed[i] \in Nat /\ exec[i].done \in Nat /\ row[i].attempts \in Nat
        /\ \A v \in Worker : pc[v] \in Fresh => run[v].job \in Job
    BY Summands
  <1>8. lapses = 0 => \A i \in Job : exec'[i].done >= exec[i].done /\ exec'[i].done \in Nat
    BY <1>2, <1>3, <1>5, <1>7
  <1>9. lapses = 0 => executed[j] < exec'[j].done + row[j].attempts
    BY <1>2, <1>3, <1>5, <1>7 DEF ResumeInv
  <1>10. run[w].job = j
    OBVIOUS
  <1> HIDE DEF j, n
  <1> SUFFICES ASSUME lapses = 0
               PROVE  /\ \A i \in Job : executed[i] <= exec'[i].done + row[i].attempts
                      /\ \A v \in Worker : pc'[v] \in Fresh =>
                           executed[run[v].job] < exec'[run[v].job].done + row[run[v].job].attempts
    BY <1>1, <1>6 DEF ResumeInv
  <1>11. \A i \in Job : executed[i] <= exec'[i].done + row[i].attempts
    BY <1>7, <1>8 DEF ResumeInv
  <1>12. ASSUME NEW v \in Worker \ {w}, pc'[v] \in Fresh
         PROVE  executed[run[v].job] < exec'[run[v].job].done + row[run[v].job].attempts
    <2>1. pc[v] \in Fresh /\ run[v].job \in Job
      BY <1>6, <1>7, <1>12
    <2> QED
      BY <1>7, <1>8, <2>1 DEF ResumeInv
  <1> QED
    BY <1>9, <1>10, <1>11, <1>12

\* A report of the runner.
LEMMA ReportResumes ==
    ASSUME OptInv, OptInv', Kept, ResumeInv, NEW w \in Worker, RunnerReport(w),
           UNCHANGED results
    PROVE  ResumeInv'
  <1>0. HandlerInv /\ executed' = executed
    BY DEF OptInv, RecordInv, results
  <1>1. PICK p, accepted, lost, back :
          /\ Report(w, p, accepted, lost, back)
          /\ <<pc[w], accepted>> \in
               {<<"progress", "check">>, <<"progress_fold", "run_fold">>,
                <<"progress_trial", "next_trial">>, <<"progress_95", "returned">>}
          /\ lost = "raised" /\ back \in {"raised", "save_failed"}
    BY DEF RunnerReport
  <1>2. Counted
    BY <1>0, <1>1, HandlerCounted
  <1>3. PICK label \in {accepted, lost, back} : pc' = [pc EXCEPT ![w] = label]
    BY <1>1 DEF Report, Heartbeat, Goto
  <1>4. run' = run /\ lapses' = lapses
    BY <1>1 DEF Report, Heartbeat, vars
  <1>5. label \in Fresh => pc[w] \in Fresh
    BY <1>1, <1>3 DEF Fresh
  <1>6. pc'[w] = label /\ \A v \in Worker \ {w} : pc'[v] = pc[v]
    BY <1>0, <1>3 DEF HandlerInv
  <1> QED
    BY <1>0, <1>2, <1>4, <1>5, <1>6, NothingExecuted

\* A step of a worker on its record.
LEMMA RecordStepResumes ==
    ASSUME OptInv, OptInv', Kept, ResumeInv, NEW w \in Worker, RecordStep(w),
           UNCHANGED results
    PROVE  ResumeInv'
  <1>0. HandlerInv /\ RecordInv(Working, Done) /\ executed' = executed
    BY DEF OptInv, RecordInv, results
  <1>1. CASE RunnerReport(w)
    BY <1>1, ReportResumes
  <1>2. CASE Load(w, "progress") \/ Start(w, 0, "progress") \/ Check(w)
    <2>1. PICK label : pc' = [pc EXCEPT ![w] = label]
      BY <1>2 DEF Load, Start, Check, Goto
    <2>2. Local /\ (label \in Fresh => pc[w] \in Fresh)
      <3>1. pc'[w] = label
        BY <1>0, <2>1 DEF HandlerInv
      <3>2. CASE Load(w, "progress") \/ Start(w, 0, "progress")
        BY <3>2 DEF Load, Start, Fresh
      <3>3. CASE Check(w)
        <4>1. pc'[w] \in Fresh => pc[w] \in {"check", "next_trial"}
          BY <1>0, <3>3 DEF Check, Goto, HandlerInv, Fresh
        <4> QED
          BY <3>1, <3>3, <4>1 DEF Check, Fresh
      <3> QED
        BY <1>2, <3>2, <3>3
    <2> QED
      BY <1>0, <2>1, <2>2, LocalExecutesNothing
  <1>3. CASE SaveTrial(w)
    BY <1>3, SaveTrialResumes
  <1>4. CASE \/ SaveSucceeded(w) \/ SaveFailed(w) \/ Returned(w)
             \/ (\E e \in SessionRecords(w) : FailActive(w, e)) \/ SaveFailActive(w, 0)
             \/ Broken(w, InRunner) \/ Evaluate(w)
    <2>1. PICK label \in {"progress_95", "succeed", "returned", "save_trial",
                          "save_failed", "fatal", "save_fail_active", "raised",
                          "error"} : pc' = [pc EXCEPT ![w] = label]
      <3>1. CASE SaveFailActive(w, 0)
        <4>1. pc' = pc \/ Goto(w, "fatal")
          BY <3>1 DEF SaveFailActive
        <4>2. pc[w] = "save_fail_active" /\ pc = [v \in Worker |-> pc[v]]
          BY <1>0, <3>1 DEF SaveFailActive, HandlerInv
        <4>3. pc = [pc EXCEPT ![w] = "save_fail_active"]
          BY <4>2
        <4> QED
          BY <4>1, <4>3 DEF Goto
      <3>2. CASE \E e \in SessionRecords(w) : FailActive(w, e)
        BY <3>2 DEF FailActive, Goto
      <3>3. CASE \/ SaveSucceeded(w) \/ SaveFailed(w) \/ Returned(w)
                 \/ Broken(w, InRunner) \/ Evaluate(w)
        BY <3>3 DEF SaveSucceeded, SaveFailed, Returned, Broken, Evaluate, Goto
      <3> QED
        BY <1>4, <3>1, <3>2, <3>3
    <2>2. Local
      BY <1>4 DEF SaveSucceeded, SaveFailed, Returned, FailActive, SaveFailActive, Broken,
                  Evaluate
    <2>3. label \notin Fresh
      BY <2>1 DEF Fresh
    <2> QED
      BY <1>0, <2>1, <2>2, <2>3, LocalExecutesNothing
  <1>5. CASE Around(w)
    <2>1. Counted
      BY <1>0, <1>5, HandlerCounted
    <2>2. CASE Raised(w)
      <3>1. PICK label \in {"fail_active", "error"} : pc' = [pc EXCEPT ![w] = label]
        BY <2>2 DEF Raised, Goto
      <3>2. Local /\ label \notin Fresh
        BY <2>2, <3>1 DEF Raised, Local, Fresh
      <3> QED
        BY <1>0, <3>1, <3>2, LocalExecutesNothing
    <2>3. CASE SucceedJob(w) \/ FailJob(w) \/ Crash(w)
      <3>1. /\ run' = [run EXCEPT ![w] = NoRun] /\ pc' = [pc EXCEPT ![w] = "idle"]
            /\ lapses' = lapses
        BY <1>0, <2>3, SucceedJobKeeps, FailJobKeeps, CrashKeeps
      <3>2. /\ pc'[w] \notin Fresh
            /\ \A v \in Worker \ {w} : pc'[v] = pc[v] /\ run'[v] = run[v]
        BY <1>0, <3>1 DEF HandlerInv, Fresh
      <3> QED
        BY <1>0, <2>1, <3>1, <3>2, NothingExecuted
    <2> QED
      BY <1>5, <2>2, <2>3 DEF Around
  <1> QED
    BY <1>1, <1>2, <1>3, <1>4, <1>5 DEF RecordStep

\* Every step keeps the account of the trials.
LEMMA ResumeInvStep ==
    ASSUME Sizes, OptInv, ResumeInv, [ExecNext]_allVars
    PROVE  ResumeInv'
  <1>1. OptInv' /\ Kept
    BY OptInvStep
  <1>2. ASSUME NEW j \in Job, Submit(j) \/ AroundJob(j), UNCHANGED results
        PROVE  ResumeInv'
    BY <1>1, <1>2, BesideResumes
  <1>3. ASSUME NEW w \in Worker
        PROVE  /\ (\E j \in Job : StartJob(w, j, "load")) /\ UNCHANGED results =>
                    ResumeInv'
               /\ RecordStep(w) /\ UNCHANGED results => ResumeInv'
               /\ RunTrial(w) => ResumeInv'
               /\ RunFold(w) => ResumeInv'
    <2>1. (\E j \in Job : StartJob(w, j, "load")) /\ UNCHANGED results => ResumeInv'
      BY <1>1, EnterResumes
    <2>2. RecordStep(w) /\ UNCHANGED results => ResumeInv'
      BY <1>1, RecordStepResumes
    <2>3. RunTrial(w) => ResumeInv'
      BY <1>1, RunTrialResumes
    <2>4. ASSUME RunFold(w)
          PROVE  ResumeInv'
      <3>1. PICK label \in {"check_fold", "evaluate", "save_failed"} :
              pc' = [pc EXCEPT ![w] = label]
        BY <2>4 DEF RunFold, Goto
      <3>2. Local /\ executed' = executed /\ label \notin Fresh
        BY <2>4, <3>1 DEF RunFold, Fresh
      <3> QED
        BY <1>1, <3>1, <3>2, LocalExecutesNothing
    <2> QED
      BY <2>1, <2>2, <2>3, <2>4
  <1>4. CASE UNCHANGED allVars
    BY <1>4 DEF allVars, ResumeInv
  <1> QED
    BY <1>2, <1>3, <1>4 DEF ExecNext

-----------------------------------------------------------------------------
(* The execution.                                                          *)

\* Every reachable state has what the invariants say.
LEMMA OptInvAlways == Sizes => (ExecSpec => [](OptInv /\ ResumeInv))
  <1> SUFFICES ASSUME Sizes
               PROVE  ExecSpec => [](OptInv /\ ResumeInv)
    OBVIOUS
  <1>1. ExecInit => OptInv /\ ResumeInv
    BY OptInvInit, ResumeInvInit
  <1>2. OptInv /\ ResumeInv /\ [ExecNext]_allVars => (OptInv /\ ResumeInv)'
    BY OptInvStep, ResumeInvStep
  <1> QED
    BY <1>1, <1>2, PTL DEF ExecSpec

\* The records, the registry and the places of the workers have their types, and a
\* record has the trials that fit its status: all of them exactly when it has
\* succeeded.
THEOREM OptimizationTypeCorrect == Sizes => (ExecSpec => []TypeOK)
  <1>1. OptInv => TypeOK
    BY DEF OptInv
  <1> QED
    BY <1>1, OptInvAlways, PTL

\* However many attempts, crashes, lapsed leases and workers on one record, and
\* whatever a raised runner's session writes: a succeeded execution has the
\* experiment of every trial in the registry, and so has a succeeded job.
THEOREM OptimizationSuccessIsBacked == Sizes => (ExecSpec => []SuccessIsBacked)
  <1>1. OptInv => SuccessIsBacked
    BY DEF OptInv
  <1> QED
    BY <1>1, OptInvAlways, PTL

\* While no worker outlives its lease, the trials executed are the recorded ones and
\* at most one more for each attempt: crashes, broken steps, cancellations and manual
\* retries never repeat a recorded trial.
THEOREM ResumeLosesOneTrialAtMost == Sizes => (ExecSpec => []ResumeLosesOneTrial)
  <1>1. ResumeInv => ResumeLosesOneTrial
    BY DEF ResumeInv, ResumeLosesOneTrial, LeasesHeld
  <1> QED
    BY <1>1, OptInvAlways, PTL
=============================================================================
