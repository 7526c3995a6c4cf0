---------------------- MODULE WalkForwardExecutionProofs ---------------------
(***************************************************************************)
(* Walk-forward executions, for any number of workers, jobs, folds,        *)
(* attempts, crashes and lapsed leases: a success is always backed by the  *)
(* run in the registry and a checkpoint of every fold; and until a first   *)
(* lease lapses, an attempt repeats at most the one fold that had no       *)
(* checkpoint yet.                                                         *)
(*                                                                         *)
(* The number of folds of the plan is assumed to be a natural number by    *)
(* each lemma and theorem that needs it.                                   *)
(***************************************************************************)
EXTENDS WalkForwardExecution, DurableExecutionProofs

\* The labels at which a runner works on a running record, and those after it has
\* succeeded.
Working == {"progress", "check", "fold", "save_fold", "progress_fold", "check_fold",
            "finish", "save_run", "save_succeeded", "save_failed"}
Done == {"report_99", "succeed"}

\* The checkpoints that fit the status of a record.
InRange(e) == e.done \in CASE e.status \in {"absent", "queued"} -> {0}
                           [] e.status \in {"running", "failed"} -> 0..TotalFolds
                           [] e.status = "succeeded" -> {TotalFolds}

\* What a runner of job j with record e has brought about before it gets to a label.
Sound(label, e, j, runs) ==
    /\ label = "save_fold" => e.done < TotalFolds
    /\ label \in {"finish", "save_run", "save_succeeded"} => e.done = TotalFolds
    /\ label = "save_succeeded" => j \in runs
    /\ label \in Done \cup {"returned"} /\ e.status = "succeeded" => j \in runs

WalkInv ==
    /\ RecordInv(Working, Done)
    /\ TypeOK
    /\ \A w \in Worker : InRange(copy[w]) /\ Sound(pc[w], copy[w], run[w].job, stored)
    /\ SuccessIsBacked

-----------------------------------------------------------------------------
\* The labels are as the shared lemmas need them.
LEMMA WalkLabels == Labels(Working, Done)
  BY DEF Labels, Loaded, Working, Done

\* A step of worker w keeps the invariant if it keeps that of the records and
\* brings the worker to a sound state.
LEMMA WorkerKeeps ==
    ASSUME WalkInv, RecordInv(Working, Done)', NEW w \in Worker,
           \A v \in Worker \ {w} : pc'[v] = pc[v] /\ copy'[v] = copy[v] /\ run'[v] = run[v],
           pc'[w] \in Label, InRange(copy'[w]),
           Sound(pc'[w], copy'[w], run'[w].job, stored'),
           stored \subseteq stored', stored' \subseteq Job, computed' \in [Job -> Nat],
           \A j \in Job : \/ exec'[j] = exec[j]
                          \/ /\ exec'[j] = copy'[w]
                             /\ copy'[w].status = "succeeded" => j \in stored',
           \A j \in Job : row'[j].status = "succeeded" =>
             row[j].status = "succeeded" \/ j \in stored'
    PROVE  WalkInv'
  <1>1. \A v \in Worker : InRange(copy'[v])
    BY DEF WalkInv
  <1>2. \A v \in Worker : Sound(pc'[v], copy'[v], run'[v].job, stored')
    BY DEF WalkInv, Sound
  <1>3. \A j \in Job : InRange(exec'[j])
    BY DEF WalkInv, TypeOK, InRange
  <1>4. SuccessIsBacked'
    BY <1>3 DEF WalkInv, SuccessIsBacked, InRange
  <1>5. pc' \in [Worker -> Label]
    <2>1. \A v \in Worker : pc'[v] \in Label
      BY DEF WalkInv, TypeOK
    <2>2. pc' = [v \in Worker |-> pc'[v]]
      BY DEF RecordInv, HandlerInv
    <2> QED
      BY <2>1, <2>2
  <1>6. TypeOK'
    <2>1. /\ exec' \in [Job -> Execution] /\ copy' \in [Worker -> Execution]
          /\ final' \in [Worker -> BOOLEAN]
          /\ lapses' \in 0..MaxLapses /\ crashes' \in 0..MaxCrashes
      BY DEF RecordInv, HandlerInv
    <2> QED
      BY <1>3, <1>5, <2>1 DEF TypeOK, InRange
  <1>7. \A v \in Worker : InRange(copy[v])' /\ Sound(pc[v], copy[v], run[v].job, stored)'
    BY <1>1, <1>2 DEF InRange, Sound
  <1> QED
    BY <1>4, <1>6, <1>7 DEF WalkInv

\* Nothing has happened yet.
LEMMA WalkInvInit == ExecInit => WalkInv
  <1> SUFFICES ASSUME ExecInit
               PROVE  WalkInv
    OBVIOUS
  <1>1. RecordInv(Working, Done)
    BY RecordInvInit, WalkLabels DEF ExecInit, Labels
  <1>2. /\ exec = [j \in Job |-> NoExecution] /\ copy = [w \in Worker |-> NoExecution]
        /\ pc = [w \in Worker |-> "idle"] /\ row = [j \in Job |-> Absent]
        /\ stored = {} /\ computed = [j \in Job |-> 0]
    BY DEF ExecInit, RecordInit, HandlerInit, Init
  <1>3. InRange(NoExecution) /\ NoExecution.status = "absent" /\ Absent.status = "absent"
    BY DEF NoExecution, InRange, Absent
  <1>4. TypeOK
    <2>1. pc \in [Worker -> Label]
      BY <1>2 DEF Label
    <2>2. \A j \in Job : InRange(exec[j])
      BY <1>2, <1>3
    <2>3. computed \in [Job -> Nat]
      BY <1>2
    <2> QED
      BY <1>1, <1>2, <2>1, <2>2, <2>3 DEF TypeOK, RecordInv, HandlerInv, InRange
  <1>5. \A w \in Worker : InRange(copy[w]) /\ Sound(pc[w], copy[w], run[w].job, stored)
    BY <1>2, <1>3 DEF Sound, Done
  <1>6. SuccessIsBacked
    BY <1>2, <1>3 DEF SuccessIsBacked
  <1> QED
    BY <1>1, <1>4, <1>5, <1>6 DEF WalkInv

-----------------------------------------------------------------------------
(* The steps.                                                              *)

\* The steps beside the workers.
LEMMA BesideKeeps ==
    ASSUME WalkInv, NEW j \in Job, Submit(j) \/ AroundJob(j), UNCHANGED results
    PROVE  WalkInv' /\ Kept
  <1>1. RecordInv(Working, Done)' /\ Kept
    BY SubmitKeeps, AroundJobKeeps DEF WalkInv
  <1>2. /\ UNCHANGED <<run, pc, copy, stored, computed>>
        /\ \A i \in Job : exec'[i].status = "succeeded" => exec'[i] = exec[i]
        /\ \A i \in Job : row'[i].status = "succeeded" => row[i].status = "succeeded"
        /\ \A i \in Job : InRange(exec'[i])
    <2>1. CASE Submit(j)
      <3>1. UNCHANGED <<run, pc, copy, stored, computed>> /\ NoSuccess
        BY <2>1, EnqueueKeeps DEF Submit, Enqueue, handlerVars, results, WalkInv, RecordInv
      <3> DEFINE r == exec[j]
                 q == [r EXCEPT !.status = "queued"]
      <3>2. /\ r \in Execution /\ r.status = "absent" /\ InRange(r)
            /\ exec' = [exec EXCEPT ![j] = q]
        BY <2>1 DEF Submit, Enqueue, WalkInv, RecordInv, TypeOK, InRange
      <3> HIDE DEF r
      <3>3. q.status = "queued" /\ q.done = r.done
        BY <3>2 DEF Execution
      <3>4. InRange(q)
        BY <3>2, <3>3 DEF InRange
      <3> HIDE DEF q
      <3>5. \A i \in Job : exec'[i] = IF i = j THEN q ELSE exec[i]
        BY <3>2 DEF WalkInv, TypeOK
      <3> QED
        BY <3>1, <3>3, <3>4, <3>5 DEF NoSuccess, WalkInv, TypeOK, InRange
    <2>2. CASE AroundJob(j)
      BY <2>2, SettleRowKeeps, OperatorKeeps
      DEF AroundJob, recordVars, results, NoSuccess, WalkInv, RecordInv, TypeOK, InRange
    <2> QED
      BY <2>1, <2>2
  <1>3. SuccessIsBacked'
    BY <1>2 DEF WalkInv, SuccessIsBacked
  <1>4. TypeOK'
    BY <1>1, <1>2 DEF WalkInv, TypeOK, RecordInv, HandlerInv, InRange
  <1>5. \A w \in Worker : InRange(copy[w])' /\ Sound(pc[w], copy[w], run[w].job, stored)'
    BY <1>2 DEF WalkInv, Sound, InRange
  <1> QED
    BY <1>1, <1>3, <1>4, <1>5 DEF WalkInv

\* A worker starts the handler.
LEMMA EnterWalkKeeps ==
    ASSUME WalkInv, NEW w \in Worker, NEW j \in Job, StartJob(w, j, "report_1"),
           UNCHANGED results
    PROVE  WalkInv' /\ Kept
  <1>1. RecordInv(Working, Done)' /\ Kept
    BY StartJobKeeps DEF WalkInv, Loaded, Working, Done
  <1>2. /\ NoSuccess
        /\ run' = [run EXCEPT ![w] = run'[w]]
        /\ pc' = [pc EXCEPT ![w] = "report_1"]
        /\ copy' = [copy EXCEPT ![w] = NoExecution] /\ exec' = exec
        /\ UNCHANGED <<stored, computed>>
    BY EnterKeeps DEF StartJob, WalkInv, RecordInv, results
  <1>3. /\ pc'[w] = "report_1" /\ copy'[w] = NoExecution
        /\ \A v \in Worker \ {w} : pc'[v] = pc[v] /\ copy'[v] = copy[v] /\ run'[v] = run[v]
    BY <1>2 DEF WalkInv, RecordInv, HandlerInv
  <1>4. InRange(copy'[w])
    BY <1>3 DEF NoExecution, InRange
  <1>5. Sound(pc'[w], copy'[w], run'[w].job, stored')
    BY <1>3 DEF Sound, Done
  <1>6. "report_1" \in Label /\ stored \subseteq Job /\ computed \in [Job -> Nat]
    BY DEF Label, WalkInv, TypeOK
  <1> QED
    BY <1>1, <1>2, <1>3, <1>4, <1>5, <1>6, WorkerKeeps DEF NoSuccess

\* The states a step of a worker leads to when it leaves the record alone, and when
\* it stores a record.
LEMMA StayingKeeps ==
    ASSUME WalkInv, RecordInv(Working, Done)', NEW w \in Worker, NEW label \in Label,
           pc' = [pc EXCEPT ![w] = label], run' = run, NoSuccess, UNCHANGED recordVars,
           stored \subseteq stored', stored' \subseteq Job, computed' \in [Job -> Nat],
           Sound(label, copy[w], run[w].job, stored')
    PROVE  WalkInv'
  <1>1. /\ pc'[w] = label /\ copy' = copy /\ exec' = exec
        /\ \A v \in Worker \ {w} : pc'[v] = pc[v] /\ copy'[v] = copy[v] /\ run'[v] = run[v]
    BY DEF WalkInv, TypeOK, recordVars
  <1>2. InRange(copy'[w])
    BY <1>1 DEF WalkInv
  <1>3. Sound(pc'[w], copy'[w], run'[w].job, stored')
    BY <1>1
  <1> QED
    BY <1>1, <1>2, <1>3, WorkerKeeps DEF NoSuccess

\* The same with a record that is stored.
LEMMA SavingKeeps ==
    ASSUME WalkInv, RecordInv(Working, Done)', NEW w \in Worker, NEW label \in Label,
           NEW e \in Execution, InRange(e),
           pc' = [pc EXCEPT ![w] = label], Local, Save(w, e), UNCHANGED results,
           e.status = "succeeded" => run[w].job \in stored,
           label \in {"progress", "progress_fold", "returned", "save_fail_active", "fatal"}
    PROVE  WalkInv'
  <1>1. /\ pc'[w] = label /\ copy'[w] = e
        /\ run' = run /\ row' = row /\ stored' = stored /\ computed' = computed
        /\ \A v \in Worker \ {w} : pc'[v] = pc[v] /\ copy'[v] = copy[v] /\ run'[v] = run[v]
        /\ stored \subseteq Job /\ computed \in [Job -> Nat]
    BY DEF WalkInv, TypeOK, Local, Save, results
  <1>2. \A j \in Job : exec'[j] = exec[j] \/ (exec'[j] = e /\ run[w].job = j)
    <2> DEFINE i == run[w].job
    <2>1. exec \in [Job -> Execution] /\ exec' = [exec EXCEPT ![i] = e]
      BY DEF WalkInv, TypeOK, Save
    <2> HIDE DEF i
    <2>2. \A j \in Job : exec'[j] = exec[j] \/ (exec'[j] = e /\ i = j)
      BY <2>1
    <2> QED
      BY <2>2 DEF i
  <1>3. Sound(pc'[w], copy'[w], run'[w].job, stored')
    BY <1>1 DEF Sound
  <1> QED
    BY <1>1, <1>2, <1>3, WorkerKeeps

\* The percentage a runner reports is a natural number.
LEMMA PercentIsNatural ==
    ASSUME TotalFolds \in Nat, NEW folds \in 0..TotalFolds
    PROVE  Percent(folds) \in Nat
  <1>1. CASE folds = TotalFolds
    BY <1>1 DEF Percent
  <1>2. CASE folds # TotalFolds
    <2> DEFINE n == folds * 100
    <2>1. n \in Nat /\ TotalFolds > 0
      BY <1>2
    <2> HIDE DEF n
    <2>2. n \div TotalFolds \in Nat
      BY <2>1
    <2> QED
      BY <1>2, <2>2 DEF Percent, n
  <1> QED
    BY <1>1, <1>2

\* Reports and checks.
LEMMA ReportsKeep ==
    ASSUME TotalFolds \in Nat, WalkInv, NEW w \in Worker,
           OuterReport(w) \/ RunnerReport(w), UNCHANGED results
    PROVE  WalkInv' /\ Kept
  <1>0. Fitting(Working, Done, pc[w], copy[w].status)
    BY DEF WalkInv, RecordInv, CopyInv
  <1>1. PICK p \in Nat, accepted \in Label, lost \in {"raised", "error"} :
        /\ ReportClamped(w, p, accepted, lost)
        /\ <<pc[w], accepted>> \in
             {<<"report_1", "load">>, <<"report_99", "succeed">>,
              <<"progress", "check">>, <<"progress_fold", "check_fold">>}
    <2>1. CASE pc[w] = "report_1" /\ ReportClamped(w, 1, "load", "error")
      BY <2>1 DEF Label
    <2>2. CASE pc[w] = "report_99" /\ ReportClamped(w, 99, "succeed", "error")
      BY <2>2 DEF Label
    <2>3. ASSUME pc[w] \in {"progress", "progress_fold"}
          PROVE  Percent(copy[w].done) \in Nat
      <3>1. copy[w].status = "running"
        BY <1>0, <2>3 DEF Fitting, Working
      <3>2. copy[w].done \in 0..TotalFolds
        BY <3>1 DEF WalkInv, InRange
      <3> QED
        BY <3>2, PercentIsNatural
    <2>4. CASE pc[w] = "progress" /\ ReportClamped(w, Percent(copy[w].done), "check", "raised")
      BY <2>3, <2>4 DEF Label
    <2>5. CASE /\ pc[w] = "progress_fold"
               /\ ReportClamped(w, Percent(copy[w].done), "check_fold", "raised")
      BY <2>3, <2>5 DEF Label
    <2> QED
      BY <2>1, <2>2, <2>4, <2>5 DEF OuterReport, RunnerReport
  <1>2. UNCHANGED recordVars
    BY DEF OuterReport, RunnerReport
  <1>3. pc[w] # "idle" /\ "idle" \notin {accepted, lost}
    BY <1>1
  <1>5. ASSUME NEW label \in {accepted, lost}
        PROVE  /\ Fitting(Working, Done, label, copy[w].status)
               /\ label \in Loaded(Working, Done) => pc[w] \in Loaded(Working, Done)
    BY <1>0, <1>1 DEF Fitting, Loaded, Working, Done, Ended
  <1>6. RecordInv(Working, Done)
    BY DEF WalkInv
  <1>7. /\ RecordInv(Working, Done)' /\ Kept /\ NoSuccess /\ run' = run
        /\ \E label \in {accepted, lost} : pc' = [pc EXCEPT ![w] = label]
    BY <1>1, <1>2, <1>3, <1>5, <1>6, StayReporting
  <1>8. PICK label \in {accepted, lost} : pc' = [pc EXCEPT ![w] = label]
    BY <1>7
  <1>9. label \in Label
    BY <1>1 DEF Label
  <1>10. Sound(label, copy[w], run[w].job, stored)
    BY <1>1 DEF Sound, Done, WalkInv
  <1>11. stored' = stored /\ computed' = computed /\ stored \subseteq Job
         /\ computed \in [Job -> Nat]
    BY DEF results, WalkInv, TypeOK
  <1> QED
    BY <1>2, <1>7, <1>8, <1>9, <1>10, <1>11, StayingKeeps

\* A step within the runner that leaves the record alone.
LEMMA RunningKeeps ==
    ASSUME WalkInv, NEW w \in Worker, pc[w] \in Working, NEW label \in Working,
           pc' = [pc EXCEPT ![w] = label], Local, UNCHANGED recordVars,
           stored \subseteq stored', stored' \subseteq Job, computed' \in [Job -> Nat],
           Sound(label, copy[w], run[w].job, stored')
    PROVE  WalkInv' /\ Kept
  <1>1. label \in Label /\ label # "idle" /\ pc[w] # "idle"
    BY DEF Label, Working
  <1>2. RecordInv(Working, Done) /\ copy[w].status = "running"
    BY DEF WalkInv, RecordInv, CopyInv, Fitting
  <1>3. Fitting(Working, Done, label, copy[w].status) /\ pc[w] \in Loaded(Working, Done)
    BY <1>2, WalkLabels DEF Fitting, Labels, Loaded
  <1>4. RecordInv(Working, Done)' /\ Kept
    BY <1>1, <1>2, <1>3, StayKeeps
  <1>5. run' = run /\ NoSuccess
    BY DEF Local, NoSuccess
  <1> QED
    BY <1>1, <1>4, <1>5, StayingKeeps

\* A runner looks at the cancel request and at its dataset.
LEMMA CheckKeeps ==
    ASSUME WalkInv, NEW w \in Worker, Check(w), UNCHANGED results
    PROVE  WalkInv' /\ Kept
  <1>1. PICK label \in {"save_failed", "fold", "save_run"} :
        /\ pc' = [pc EXCEPT ![w] = label]
        /\ pc[w] \in {"check", "check_fold", "finish"}
        /\ label = "save_run" => pc[w] = "finish"
    BY DEF Check, Goto
  <1>2. Local /\ UNCHANGED recordVars
    BY DEF Check
  <1>3. pc[w] \in Working /\ label \in Working
    BY <1>1 DEF Working
  <1>4. stored' = stored /\ computed' = computed /\ stored \subseteq Job
        /\ computed \in [Job -> Nat]
    BY DEF results, WalkInv, TypeOK
  <1>5. Sound(label, copy[w], run[w].job, stored')
    BY <1>1, <1>4 DEF Sound, Done, WalkInv
  <1> QED
    BY <1>1, <1>2, <1>3, <1>4, <1>5, RunningKeeps

\* The next fold is computed, or all of them have been.
LEMMA RunFoldKeeps ==
    ASSUME WalkInv, NEW w \in Worker, RunFold(w)
    PROVE  WalkInv' /\ Kept
  <1>1. PICK label \in {"save_fold", "save_failed", "finish"} :
        /\ pc' = [pc EXCEPT ![w] = label]
        /\ label = "save_fold" => copy[w].done < TotalFolds
        /\ label = "finish" => copy[w].done = TotalFolds
    BY DEF RunFold, Goto
  <1>2. pc[w] = "fold" /\ Local /\ UNCHANGED recordVars /\ stored' = stored
    BY DEF RunFold
  <1>3. pc[w] \in Working /\ label \in Working
    BY <1>1, <1>2 DEF Working
  <1>4. stored \subseteq Job /\ computed' \in [Job -> Nat]
    <2>1. run[w].job \in Job /\ computed \in [Job -> Nat] /\ stored \subseteq Job
      BY <1>2 DEF WalkInv, RecordInv, HandlerInv, TypeOK
    <2>2. \/ computed' = [computed EXCEPT ![run[w].job] = @ + 1]
          \/ computed' = computed
      BY DEF RunFold
    <2> QED
      BY <2>1, <2>2
  <1>5. Sound(label, copy[w], run[w].job, stored')
    BY <1>1 DEF Sound, Done
  <1> QED
    BY <1>1, <1>2, <1>3, <1>4, <1>5, RunningKeeps

\* The run is built and stored.
LEMMA SaveRunKeeps ==
    ASSUME WalkInv, NEW w \in Worker, SaveRun(w)
    PROVE  WalkInv' /\ Kept
  <1>1. PICK label \in {"save_succeeded", "save_failed"} :
        /\ pc' = [pc EXCEPT ![w] = label]
        /\ stored' = IF label = "save_succeeded" THEN stored \cup {run[w].job} ELSE stored
    <2>1. CASE stored' = stored \cup {run[w].job} /\ Goto(w, "save_succeeded")
      BY <2>1 DEF Goto
    <2>2. CASE stored' = stored /\ Goto(w, "save_failed")
      BY <2>2 DEF Goto
    <2> QED
      BY <2>1, <2>2 DEF SaveRun
  <1>2. pc[w] = "save_run" /\ Local /\ UNCHANGED recordVars /\ computed' = computed
    BY DEF SaveRun
  <1>3. pc[w] \in Working /\ label \in Working
    BY <1>1, <1>2 DEF Working
  <1>4. run[w].job \in Job /\ computed \in [Job -> Nat] /\ stored \subseteq Job
    BY <1>2 DEF WalkInv, RecordInv, HandlerInv, TypeOK
  <1>5. stored \subseteq stored' /\ stored' \subseteq Job
    BY <1>1, <1>4
  <1>6. copy[w].done = TotalFolds
    BY <1>2 DEF WalkInv, Sound
  <1>7. Sound(label, copy[w], run[w].job, stored')
    BY <1>1, <1>6 DEF Sound, Done
  <1> QED
    BY <1>1, <1>2, <1>3, <1>4, <1>5, <1>7, RunningKeeps

\* A runner reads the record, or starts it.
LEMMA LoadWalkKeeps ==
    ASSUME WalkInv, NEW w \in Worker, Load(w, "progress"), UNCHANGED results
    PROVE  WalkInv' /\ Kept
  <1> DEFINE e == exec[run[w].job]
             label == IF e.status \in Ended THEN "returned"
                      ELSE IF e.status = "queued" THEN "start" ELSE "progress"
  <1>1. /\ pc[w] = "load" /\ pc' = [pc EXCEPT ![w] = label] /\ Local
        /\ copy' = [copy EXCEPT ![w] = e] /\ exec' = exec
    BY DEF Load, Goto
  <1>2. "progress" \in Working /\ RecordInv(Working, Done)
    BY DEF Working, WalkInv
  <1>3. RecordInv(Working, Done)' /\ Kept
    BY <1>2, WalkLabels, LoadKeeps
  <1>4. run[w].job \in Job
    BY <1>1, <1>2 DEF RecordInv, HandlerInv
  <1>5. /\ InRange(e)
        /\ e.status = "succeeded" => run[w].job \in stored
    BY <1>4 DEF WalkInv, TypeOK, InRange, SuccessIsBacked
  <1>6. label \in {"returned", "start", "progress"} /\ label \in Label
    BY DEF Label
  <1> HIDE DEF e, label
  <1>7. /\ pc'[w] = label /\ copy'[w] = e
        /\ \A v \in Worker \ {w} : pc'[v] = pc[v] /\ copy'[v] = copy[v] /\ run'[v] = run[v]
    BY <1>1, <1>2 DEF RecordInv, HandlerInv, Local
  <1>8. /\ run' = run /\ row' = row /\ exec' = exec
        /\ stored' = stored /\ computed' = computed /\ stored \subseteq Job
        /\ computed \in [Job -> Nat]
    BY <1>1 DEF Local, results, WalkInv, TypeOK
  <1>9. Sound(pc'[w], copy'[w], run'[w].job, stored')
    BY <1>5, <1>6, <1>7, <1>8 DEF Sound, Done
  <1> QED
    BY <1>3, <1>5, <1>6, <1>7, <1>8, <1>9, WorkerKeeps

\* A queued record is started without a checkpoint.
LEMMA StartWalkKeeps ==
    ASSUME TotalFolds \in Nat, WalkInv, NEW w \in Worker, Start(w, 0, "progress"),
           UNCHANGED results
    PROVE  WalkInv' /\ Kept
  <1> DEFINE e == Running(copy[w], 0)
  <1>1. pc[w] = "start" /\ pc' = [pc EXCEPT ![w] = "progress"] /\ Local /\ Save(w, e)
    BY DEF Start, Goto
  <1>2. "progress" \in Working /\ "progress" \in Label /\ RecordInv(Working, Done)
    BY DEF Working, Label, WalkInv
  <1>3. copy[w] \in Execution /\ copy[w].status = "queued" /\ InRange(copy[w])
    BY <1>1 DEF WalkInv, RecordInv, CopyInv, Fitting
  <1>4. 0 >= copy[w].done
    BY <1>3 DEF InRange
  <1>5. RecordInv(Working, Done)' /\ Kept
    BY <1>2, <1>4, WalkLabels, StartKeeps
  <1>6. e \in Execution /\ e.status = "running" /\ e.done = 0
    BY <1>3 DEF Running, Execution
  <1> HIDE DEF e
  <1>7. InRange(e)
    BY <1>6 DEF InRange
  <1> QED
    BY <1>1, <1>2, <1>5, <1>6, <1>7, SavingKeeps

\* A runner stores a record that goes on from its own.
LEMMA AdvanceWalk ==
    ASSUME RecordInv(Working, Done), NEW w \in Worker, pc[w] \in Working,
           NEW e \in Execution, NEW label,
           pc' = [pc EXCEPT ![w] = label], Local, Save(w, e), e.done >= copy[w].done,
           \/ e.status = "running" /\ label \in Working
           \/ e.status = "succeeded" /\ label \in Done \cup {"returned"}
           \/ e.status = "failed" /\ label = "returned"
    PROVE  RecordInv(Working, Done)' /\ Kept
  BY WalkLabels, AdvanceKeeps

\* A runner stores a checkpoint.
LEMMA SaveFoldKeeps ==
    ASSUME TotalFolds \in Nat, WalkInv, NEW w \in Worker, SaveFold(w), UNCHANGED results
    PROVE  WalkInv' /\ Kept
  <1> DEFINE n == copy[w].done + 1
             e == Running(copy[w], n)
  <1>1. /\ pc[w] = "save_fold" /\ pc' = [pc EXCEPT ![w] = "progress_fold"]
        /\ Local /\ Save(w, e)
    BY DEF SaveFold, Goto
  <1>2. pc[w] \in Working /\ "progress_fold" \in Working /\ "progress_fold" \in Label
    BY <1>1 DEF Working, Label
  <1>3. RecordInv(Working, Done) /\ copy[w] \in Execution /\ copy[w].done \in Nat
    BY DEF WalkInv, RecordInv, Execution
  <1>4. copy[w].done < TotalFolds
    BY <1>1 DEF WalkInv, Sound
  <1>5. n \in Nat /\ n \in 0..TotalFolds /\ n >= copy[w].done
    BY <1>3, <1>4
  <1> HIDE DEF n
  <1>6. e \in Execution /\ e.status = "running" /\ e.done = n
    BY <1>3, <1>5, NextRecords
  <1> HIDE DEF e
  <1>7. InRange(e)
    BY <1>5, <1>6 DEF InRange
  <1>8. RecordInv(Working, Done)' /\ Kept
    BY <1>1, <1>2, <1>3, <1>5, <1>6, AdvanceWalk
  <1> QED
    BY <1>1, <1>2, <1>6, <1>7, <1>8, SavingKeeps

\* A runner ends its record.
LEMMA EndingKeeps ==
    ASSUME TotalFolds \in Nat, WalkInv, NEW w \in Worker,
           SaveSucceeded(w) \/ SaveFailed(w), UNCHANGED results
    PROVE  WalkInv' /\ Kept
  <1>1. RecordInv(Working, Done) /\ copy[w] \in Execution /\ InRange(copy[w])
        /\ copy[w].done \in Nat
    BY DEF WalkInv, RecordInv, Execution
  <1>2. CASE SaveSucceeded(w)
    <2> DEFINE n == copy[w].done
               e == Succeeded(copy[w], n)
    <2>1. /\ pc[w] = "save_succeeded" /\ pc' = [pc EXCEPT ![w] = "returned"]
          /\ Local /\ Save(w, e)
      BY <1>2 DEF SaveSucceeded, Goto
    <2>2. pc[w] \in Working /\ "returned" \in Label
      BY <2>1 DEF Working, Label
    <2>3. n = TotalFolds /\ run[w].job \in stored
      BY <2>1 DEF WalkInv, Sound
    <2>4. e \in Execution /\ e.status = "succeeded" /\ e.done = n
      <3>1. copy[w] \in Execution /\ n \in Nat
        BY <1>1 DEF Execution
      <3> QED
        BY <3>1, NextRecords
    <2> HIDE DEF e
    <2>5. InRange(e) /\ e.done >= copy[w].done
      BY <1>1, <2>3, <2>4 DEF InRange
    <2>6. RecordInv(Working, Done)' /\ Kept
      BY <1>1, <2>1, <2>2, <2>4, <2>5, AdvanceWalk
    <2> QED
      BY <2>1, <2>2, <2>3, <2>4, <2>5, <2>6, SavingKeeps
  <1>3. CASE SaveFailed(w)
    <2> DEFINE e == Failed(copy[w])
    <2>1. /\ pc[w] = "save_failed" /\ pc' = [pc EXCEPT ![w] = "returned"]
          /\ Local /\ Save(w, e)
      BY <1>3 DEF SaveFailed, Goto
    <2>2. pc[w] \in Working /\ "returned" \in Label
      BY <2>1 DEF Working, Label
    <2>3. copy[w].status = "running"
      BY <2>2 DEF WalkInv, RecordInv, CopyInv, Fitting
    <2>4. copy[w].done \in 0..TotalFolds
      BY <1>1, <2>3 DEF InRange
    <2>5. e \in Execution /\ e.status = "failed" /\ e.done = copy[w].done
      BY <1>1, NextRecords
    <2> HIDE DEF e
    <2>6. InRange(e)
      BY <2>4, <2>5 DEF InRange
    <2>7. RecordInv(Working, Done)' /\ Kept
      BY <1>1, <1>3, WalkLabels, SaveFailedKeeps
    <2> QED
      BY <2>1, <2>2, <2>5, <2>6, <2>7, SavingKeeps
  <1> QED
    BY <1>2, <1>3

\* The runner has returned.
LEMMA ReturnedKeeps ==
    ASSUME WalkInv, NEW w \in Worker, Returned(w), UNCHANGED results
    PROVE  WalkInv' /\ Kept
  <1>1. PICK label \in {"report_99", "fatal"} :
        /\ pc' = [pc EXCEPT ![w] = label]
        /\ label = "report_99" => copy[w].status = "succeeded"
    BY DEF Returned, Goto
  <1>2. pc[w] = "returned" /\ Local /\ UNCHANGED recordVars
    BY DEF Returned
  <1>3. label \in Label /\ pc[w] # "idle" /\ label # "idle"
        /\ label \notin Working \cup {"start", "returned", "save_fail_active"}
        /\ (label \in Done => label = "report_99")
    BY <1>2 DEF Working, Label, Done
  <1>4. RecordInv(Working, Done)
    BY DEF WalkInv
  <1>5. /\ Fitting(Working, Done, label, copy[w].status)
        /\ pc[w] \in Loaded(Working, Done)
    BY <1>1, <1>2, <1>3 DEF Fitting, Loaded
  <1>6. RecordInv(Working, Done)' /\ Kept
    BY <1>1, <1>2, <1>3, <1>4, <1>5, StayKeeps
  <1>7. /\ run' = run /\ NoSuccess
        /\ stored' = stored /\ computed' = computed /\ stored \subseteq Job
        /\ computed \in [Job -> Nat]
    BY <1>2 DEF Local, NoSuccess, results, WalkInv, TypeOK
  <1>8. Sound(label, copy[w], run[w].job, stored')
    BY <1>1, <1>2, <1>7 DEF Sound, WalkInv
  <1> QED
    BY <1>1, <1>2, <1>3, <1>6, <1>7, <1>8, StayingKeeps

\* The last attempt raised: fail_active reads the record, and fails it.
LEMMA FailingKeeps ==
    ASSUME TotalFolds \in Nat, WalkInv, NEW w \in Worker, UNCHANGED results,
           FailActive(w, exec[run[w].job]) \/ SaveFailActive(w, 0)
    PROVE  WalkInv' /\ Kept
  <1>1. RecordInv(Working, Done) /\ copy[w] \in Execution /\ InRange(copy[w])
    BY DEF WalkInv, RecordInv
  <1>2. CASE FailActive(w, exec[run[w].job])
    <2> DEFINE e == exec[run[w].job]
               label == IF e.status \in Ended THEN "fatal" ELSE "save_fail_active"
    <2>1. /\ pc[w] = "fail_active" /\ pc' = [pc EXCEPT ![w] = label] /\ Local
          /\ copy' = [copy EXCEPT ![w] = e] /\ exec' = exec
      BY <1>2 DEF FailActive, Goto
    <2>2. RecordInv(Working, Done)' /\ Kept
      BY <1>1, <1>2, WalkLabels, FailActiveKeeps
    <2>3. run[w].job \in Job
      BY <1>1, <2>1 DEF RecordInv, HandlerInv
    <2>4. InRange(e)
      BY <2>3 DEF WalkInv, TypeOK, InRange
    <2>5. label \in {"fatal", "save_fail_active"} /\ label \in Label
      BY DEF Label
    <2> HIDE DEF e, label
    <2>6. /\ pc'[w] = label /\ copy'[w] = e
          /\ \A v \in Worker \ {w} : pc'[v] = pc[v] /\ copy'[v] = copy[v] /\ run'[v] = run[v]
      BY <1>1, <2>1 DEF RecordInv, HandlerInv, Local
    <2>7. /\ run' = run /\ row' = row /\ exec' = exec
          /\ stored' = stored /\ computed' = computed /\ stored \subseteq Job
          /\ computed \in [Job -> Nat]
      BY <2>1 DEF Local, results, WalkInv, TypeOK
    <2>8. Sound(pc'[w], copy'[w], run'[w].job, stored')
      BY <2>5, <2>6 DEF Sound, Done
    <2> QED
      BY <2>2, <2>4, <2>5, <2>6, <2>7, <2>8, WorkerKeeps
  <1>3. CASE SaveFailActive(w, 0)
    <2>1. pc[w] = "save_fail_active" /\ Local
      BY <1>3 DEF SaveFailActive
    <2>2. copy[w].status \in {"queued", "running"} /\ copy[w].done \in Nat
      BY <1>1, <2>1 DEF RecordInv, CopyInv, Fitting, Execution
    <2>3. copy[w].status = "queued" => 0 >= copy[w].done
      BY <1>1 DEF InRange
    <2>4. RecordInv(Working, Done)' /\ Kept
      BY <1>1, <1>3, <2>3, WalkLabels, SaveFailActiveKeeps
    <2>5. CASE copy[w].status = "queued"
      <3> DEFINE e == Running(copy[w], 0)
      <3>1. Save(w, e) /\ pc' = pc
        BY <1>3, <2>5 DEF SaveFailActive
      <3>2. e \in Execution /\ e.status = "running" /\ e.done = 0
        BY <1>1 DEF Running, Execution
      <3> HIDE DEF e
      <3>3. InRange(e)
        BY <3>2 DEF InRange
      <3>4. "save_fail_active" \in Label /\ pc' = [pc EXCEPT ![w] = "save_fail_active"]
        BY <1>1, <2>1, <3>1 DEF Label, RecordInv, HandlerInv
      <3> QED
        BY <2>1, <2>4, <3>1, <3>2, <3>3, <3>4, SavingKeeps
    <2>6. CASE copy[w].status = "running"
      <3> DEFINE e == Failed(copy[w])
      <3>1. Save(w, e) /\ pc' = [pc EXCEPT ![w] = "fatal"] /\ "fatal" \in Label
        BY <1>3, <2>6 DEF SaveFailActive, Goto, Label
      <3>2. e \in Execution /\ e.status = "failed" /\ e.done = copy[w].done
        BY <1>1, NextRecords
      <3>3. copy[w].done \in 0..TotalFolds
        BY <1>1, <2>6 DEF InRange
      <3> HIDE DEF e
      <3>4. InRange(e)
        BY <3>2, <3>3 DEF InRange
      <3> QED
        BY <2>1, <2>4, <3>1, <3>2, <3>4, SavingKeeps
    <2> QED
      BY <2>2, <2>5, <2>6
  <1> QED
    BY <1>2, <1>3

\* A step of the handler breaks.
LEMMA BreakingKeeps ==
    ASSUME WalkInv, NEW w \in Worker, Broken(w, InRunner) \/ ReportBroken(w),
           UNCHANGED results
    PROVE  WalkInv' /\ Kept
  <1>1. PICK label \in {"raised", "error"} : pc' = [pc EXCEPT ![w] = label]
    BY DEF Broken, ReportBroken, Goto
  <1>2. pc[w] # "idle" /\ Local /\ UNCHANGED recordVars
    BY DEF Broken, ReportBroken, InRunner
  <1>3. label # "idle" /\ label \notin Loaded(Working, Done) /\ label \in Label
    BY <1>1, WalkLabels DEF Labels, Label
  <1>4. Fitting(Working, Done, label, copy[w].status)
    BY <1>3 DEF Fitting, Loaded
  <1>5. RecordInv(Working, Done)
    BY DEF WalkInv
  <1>6. RecordInv(Working, Done)' /\ Kept
    BY <1>1, <1>2, <1>3, <1>4, <1>5, StayKeeps
  <1>7. /\ run' = run /\ NoSuccess
        /\ stored' = stored /\ computed' = computed /\ stored \subseteq Job
        /\ computed \in [Job -> Nat]
    BY <1>2 DEF Local, NoSuccess, results, WalkInv, TypeOK
  <1>8. Sound(label, copy[w], run[w].job, stored')
    BY <1>1 DEF Sound, Done
  <1> QED
    BY <1>1, <1>2, <1>3, <1>6, <1>7, <1>8, StayingKeeps

\* A worker leaves its handler.
LEMMA LeavingKeeps ==
    ASSUME WalkInv, NEW w \in Worker, Around(w), UNCHANGED results
    PROVE  WalkInv' /\ Kept
  <1>1. RecordInv(Working, Done)
    BY DEF WalkInv
  <1>2. RecordInv(Working, Done)' /\ Kept
    BY <1>1, WalkLabels, AroundKeeps
  <1>3. /\ UNCHANGED recordVars
        /\ stored' = stored /\ computed' = computed /\ stored \subseteq Job
        /\ computed \in [Job -> Nat]
    BY DEF Around, results, WalkInv, TypeOK
  <1>4. CASE Raised(w)
    <2>1. PICK label \in {"fail_active", "error"} : pc' = [pc EXCEPT ![w] = label]
      BY <1>4 DEF Raised, Goto
    <2>2. run' = run /\ NoSuccess
      BY <1>4 DEF Raised, NoSuccess
    <2>3. label \in Label /\ Sound(label, copy[w], run[w].job, stored')
      BY <2>1 DEF Label, Sound, Done
    <2> QED
      BY <1>2, <1>3, <2>1, <2>2, <2>3, StayingKeeps
  <1>5. ASSUME run' = [run EXCEPT ![w] = NoRun], pc' = [pc EXCEPT ![w] = "idle"],
               \A j \in Job : row'[j].status = "succeeded" =>
                 row[j].status = "succeeded" \/ j \in stored
        PROVE  WalkInv'
    <2>1. /\ pc'[w] = "idle" /\ copy' = copy /\ exec' = exec /\ "idle" \in Label
          /\ \A v \in Worker \ {w} : pc'[v] = pc[v] /\ copy'[v] = copy[v] /\ run'[v] = run[v]
      BY <1>1, <1>3, <1>5 DEF RecordInv, HandlerInv, recordVars, Label
    <2>2. InRange(copy'[w])
      BY <2>1 DEF WalkInv
    <2>3. Sound(pc'[w], copy'[w], run'[w].job, stored')
      BY <2>1 DEF Sound, Done
    <2> QED
      BY <1>2, <1>3, <1>5, <2>1, <2>2, <2>3, WorkerKeeps
  <1>6. CASE SucceedJob(w)
    <2>1. /\ run' = [run EXCEPT ![w] = NoRun] /\ pc' = [pc EXCEPT ![w] = "idle"]
          /\ pc[w] = "succeed"
          /\ \A j \in Job : row'[j].status = "succeeded" =>
               row[j].status = "succeeded" \/ j = run[w].job
      BY <1>1, <1>6, SucceedJobKeeps DEF RecordInv
    <2>2. copy[w].status = "succeeded" /\ Sound(pc[w], copy[w], run[w].job, stored)
      BY <1>1, <2>1 DEF WalkInv, RecordInv, CopyInv, Fitting, Done
    <2>3. run[w].job \in stored
      BY <2>1, <2>2 DEF Sound, Done
    <2> QED
      BY <1>2, <1>5, <2>1, <2>3
  <1>7. CASE FailJob(w) \/ Crash(w)
    <2>1. /\ run' = [run EXCEPT ![w] = NoRun] /\ pc' = [pc EXCEPT ![w] = "idle"]
          /\ NoSuccess
      BY <1>1, <1>7, FailJobKeeps, CrashKeeps DEF RecordInv
    <2> QED
      BY <1>2, <1>5, <2>1 DEF NoSuccess
  <1> QED
    BY <1>2, <1>4, <1>6, <1>7 DEF Around

\* A step of a worker on its record.
LEMMA RecordStepKeeps ==
    ASSUME TotalFolds \in Nat, WalkInv, NEW w \in Worker, RecordStep(w), UNCHANGED results
    PROVE  WalkInv' /\ Kept
  <1>1. CASE OuterReport(w) \/ RunnerReport(w)
    BY <1>1, ReportsKeep
  <1>2. CASE Load(w, "progress")
    BY <1>2, LoadWalkKeeps
  <1>3. CASE Start(w, 0, "progress")
    BY <1>3, StartWalkKeeps
  <1>4. CASE Check(w)
    BY <1>4, CheckKeeps
  <1>5. CASE SaveFold(w)
    BY <1>5, SaveFoldKeeps
  <1>6. CASE SaveSucceeded(w) \/ SaveFailed(w)
    BY <1>6, EndingKeeps
  <1>7. CASE Returned(w)
    BY <1>7, ReturnedKeeps
  <1>8. CASE FailActive(w, exec[run[w].job]) \/ SaveFailActive(w, 0)
    BY <1>8, FailingKeeps
  <1>9. CASE Broken(w, InRunner) \/ ReportBroken(w)
    BY <1>9, BreakingKeeps
  <1>10. CASE Around(w)
    BY <1>10, LeavingKeeps
  <1> QED
    BY <1>1, <1>2, <1>3, <1>4, <1>5, <1>6, <1>7, <1>8, <1>9, <1>10 DEF RecordStep

\* Every step keeps the invariant, and what an execution has reached.
LEMMA WalkInvStep ==
    ASSUME TotalFolds \in Nat, WalkInv, [ExecNext]_allVars
    PROVE  WalkInv' /\ Kept
  <1>1. ASSUME NEW j \in Job, Submit(j) \/ AroundJob(j), UNCHANGED results
        PROVE  WalkInv' /\ Kept
    BY <1>1, BesideKeeps
  <1>2. ASSUME NEW w \in Worker
        PROVE  /\ (\E j \in Job : StartJob(w, j, "report_1")) /\ UNCHANGED results =>
                    WalkInv' /\ Kept
               /\ RecordStep(w) /\ UNCHANGED results => WalkInv' /\ Kept
               /\ RunFold(w) => WalkInv' /\ Kept
               /\ SaveRun(w) => WalkInv' /\ Kept
    <2>1. (\E j \in Job : StartJob(w, j, "report_1")) /\ UNCHANGED results =>
            WalkInv' /\ Kept
      BY EnterWalkKeeps
    <2>2. RecordStep(w) /\ UNCHANGED results => WalkInv' /\ Kept
      BY RecordStepKeeps
    <2>3. RunFold(w) => WalkInv' /\ Kept
      BY RunFoldKeeps
    <2>4. SaveRun(w) => WalkInv' /\ Kept
      BY SaveRunKeeps
    <2> QED
      BY <2>1, <2>2, <2>3, <2>4
  <1>3. CASE UNCHANGED allVars
    <2>1. WalkInv'
      BY <1>3 DEF allVars, WalkInv, RecordInv, HandlerInv, CopyInv, Idle, Owns, TypeOK,
                  InRange, Sound, SuccessIsBacked
    <2>2. \A j \in Job : exec[j].done \in Nat
      BY DEF WalkInv, TypeOK, Execution
    <2> QED
      BY <1>3, <2>1, <2>2 DEF allVars, Kept
  <1> QED
    BY <1>1, <1>2, <1>3 DEF ExecNext

-----------------------------------------------------------------------------
(* The folds that are repeated.                                            *)

\* The labels before an attempt computes the fold behind its last checkpoint.
Fresh == {"report_1", "load", "start", "progress", "check", "fold", "progress_fold",
          "check_fold"}

\* While no lease has lapsed, each attempt has at most one computation to its name
\* that is not a checkpoint, and none while it is about to compute the next fold.
ResumeInv ==
    lapses = 0 =>
        /\ \A j \in Job : computed[j] <= exec[j].done + row[j].attempts
        /\ \A w \in Worker : pc[w] \in Fresh =>
             computed[run[w].job] < exec[run[w].job].done + row[run[w].job].attempts

\* What the sums are made of.
LEMMA Summands ==
    ASSUME WalkInv
    PROVE  /\ \A j \in Job : computed[j] \in Nat /\ exec[j].done \in Nat
                             /\ row[j].attempts \in Nat
           /\ \A w \in Worker : pc[w] \in Fresh => run[w].job \in Job
  <1>1. \A j \in Job : computed[j] \in Nat /\ exec[j].done \in Nat /\ row[j].attempts \in Nat
    BY DEF WalkInv, TypeOK, RecordInv, HandlerInv, Execution, Row
  <1>2. \A w \in Worker : pc[w] \in Fresh => run[w].job \in Job
    BY DEF WalkInv, RecordInv, HandlerInv, Fresh
  <1> QED
    BY <1>1, <1>2

\* The same after a step.
LEMMA SummandsNext ==
    ASSUME WalkInv'
    PROVE  \A j \in Job : exec'[j].done \in Nat /\ row'[j].attempts \in Nat
  BY DEF WalkInv, TypeOK, RecordInv, HandlerInv, Execution, Row

\* Nothing has been computed yet.
LEMMA ResumeInvInit == ExecInit => ResumeInv
  <1> SUFFICES ASSUME ExecInit
               PROVE  ResumeInv
    OBVIOUS
  <1>1. \A j \in Job : computed[j] = 0 /\ exec[j] = NoExecution /\ row[j] = Absent
    BY DEF ExecInit, RecordInit, HandlerInit, Init
  <1>2. NoExecution.done = 0 /\ Absent.attempts \in Nat
    BY LifecycleAssumption DEF NoExecution, Absent
  <1>3. \A w \in Worker : pc[w] \notin Fresh
    BY DEF ExecInit, RecordInit, HandlerInit, Fresh
  <1> QED
    BY <1>1, <1>2, <1>3 DEF ResumeInv

\* A step that computes nothing keeps the account if it brings no worker before its
\* next fold that was not there.
LEMMA NothingComputed ==
    ASSUME WalkInv, WalkInv', Kept, Counted, ResumeInv, computed' = computed,
           lapses' = 0 => lapses = 0, NEW w \in Worker,
           \A v \in Worker \ {w} : pc'[v] = pc[v] /\ run'[v] = run[v],
           pc'[w] \in Fresh => pc[w] \in Fresh /\ run'[w] = run[w]
    PROVE  ResumeInv'
  <1> SUFFICES ASSUME lapses' = 0
               PROVE  /\ \A j \in Job : computed'[j] <= exec'[j].done + row'[j].attempts
                      /\ \A v \in Worker : pc'[v] \in Fresh =>
                           computed'[run'[v].job]
                             < exec'[run'[v].job].done + row'[run'[v].job].attempts
    BY DEF ResumeInv
  <1>1. \A j \in Job : /\ exec'[j].done >= exec[j].done /\ row'[j].attempts >= row[j].attempts
                       /\ exec'[j].done \in Nat /\ row'[j].attempts \in Nat
    <2>1. \A j \in Job : exec'[j].done \in Nat /\ row'[j].attempts \in Nat
      BY SummandsNext
    <2> QED
      BY <2>1 DEF Kept, Counted
  <1>2. \A j \in Job : computed[j] \in Nat /\ exec[j].done \in Nat /\ row[j].attempts \in Nat
    BY Summands
  <1>3. \A j \in Job : computed'[j] <= exec'[j].done + row'[j].attempts
    BY <1>1, <1>2 DEF ResumeInv
  <1>4. ASSUME NEW v \in Worker, pc'[v] \in Fresh
        PROVE  computed'[run'[v].job]
                 < exec'[run'[v].job].done + row'[run'[v].job].attempts
    <2>1. pc[v] \in Fresh /\ run'[v] = run[v]
      BY <1>4
    <2>2. run[v].job \in Job
      BY <2>1, Summands
    <2>3. computed[run[v].job] < exec[run[v].job].done + row[run[v].job].attempts
      BY <2>1 DEF ResumeInv
    <2> QED
      BY <1>1, <1>2, <2>1, <2>2, <2>3
  <1> QED
    BY <1>3, <1>4

\* The same for a step that touches neither the queue nor the run.
LEMMA LocalComputesNothing ==
    ASSUME WalkInv, WalkInv', Kept, ResumeInv, computed' = computed, Local,
           NEW w \in Worker, NEW label, pc' = [pc EXCEPT ![w] = label],
           label \in Fresh => pc[w] \in Fresh
    PROVE  ResumeInv'
  <1>1. Counted
    BY SameCounted DEF WalkInv, RecordInv, Local
  <1>2. /\ \A v \in Worker \ {w} : pc'[v] = pc[v] /\ run'[v] = run[v]
        /\ pc'[w] = label /\ run'[w] = run[w]
        /\ lapses' = lapses
    BY DEF WalkInv, RecordInv, HandlerInv, Local
  <1> QED
    BY <1>1, <1>2, NothingComputed

\* The steps beside the workers, and the first one of an attempt.
LEMMA BesideResumes ==
    ASSUME WalkInv, WalkInv', Kept, ResumeInv, NEW j \in Job, UNCHANGED results,
           Submit(j) \/ AroundJob(j)
    PROVE  ResumeInv'
  <1>1. HandlerInv
    BY DEF WalkInv, RecordInv
  <1>2. Counted
    BY <1>1, BesideCounted DEF Submit, AroundJob
  <1>3. run' = run /\ pc' = pc /\ (lapses' = 0 => lapses = 0)
    <2>1. CASE Submit(j)
      BY <2>1 DEF Submit, Enqueue, handlerVars
    <2>2. CASE AroundJob(j)
      BY <1>1, <2>2, SettleRowKeeps, OperatorKeeps DEF AroundJob
    <2> QED
      BY <2>1, <2>2
  <1>4. computed' = computed
    BY DEF results
  <1> SUFFICES ASSUME lapses' = 0
               PROVE  /\ \A i \in Job : computed'[i] <= exec'[i].done + row'[i].attempts
                      /\ \A v \in Worker : pc'[v] \in Fresh =>
                           computed'[run'[v].job]
                             < exec'[run'[v].job].done + row'[run'[v].job].attempts
    BY DEF ResumeInv
  <1>5. \A i \in Job : /\ exec'[i].done >= exec[i].done /\ row'[i].attempts >= row[i].attempts
                       /\ exec'[i].done \in Nat /\ row'[i].attempts \in Nat
    <2>1. \A i \in Job : exec'[i].done \in Nat /\ row'[i].attempts \in Nat
      BY SummandsNext
    <2> QED
      BY <1>2, <1>3, <2>1 DEF Kept, Counted
  <1>6. /\ \A i \in Job : computed[i] \in Nat /\ exec[i].done \in Nat /\ row[i].attempts \in Nat
        /\ \A v \in Worker : pc[v] \in Fresh => run[v].job \in Job
    BY Summands
  <1> QED
    BY <1>3, <1>4, <1>5, <1>6 DEF ResumeInv

\* An attempt that begins brings its worker before a fold, and is counted for it.
LEMMA EnterResumes ==
    ASSUME WalkInv, WalkInv', Kept, ResumeInv, NEW w \in Worker, NEW j \in Job,
           StartJob(w, j, "report_1"), UNCHANGED results
    PROVE  ResumeInv'
  <1>1. HandlerInv /\ Enter(w, j, "report_1")
    BY DEF WalkInv, RecordInv, StartJob
  <1>2. Counted /\ row'[j].attempts > row[j].attempts
    BY <1>1, EnterCounted
  <1>3. /\ lapses' = 0 => lapses = 0
        /\ run' = [run EXCEPT ![w] = run'[w]] /\ run'[w].job = j
        /\ pc' = [pc EXCEPT ![w] = "report_1"]
    BY <1>1, EnterKeeps
  <1>4. /\ computed' = computed /\ exec' = exec
        /\ \A v \in Worker \ {w} : pc'[v] = pc[v] /\ run'[v] = run[v]
    BY <1>1, <1>3 DEF results, StartJob, HandlerInv
  <1> SUFFICES ASSUME lapses' = 0
               PROVE  /\ \A i \in Job : computed'[i] <= exec'[i].done + row'[i].attempts
                      /\ \A v \in Worker : pc'[v] \in Fresh =>
                           computed'[run'[v].job]
                             < exec'[run'[v].job].done + row'[run'[v].job].attempts
    BY DEF ResumeInv
  <1>5. /\ \A i \in Job : computed[i] \in Nat /\ exec[i].done \in Nat /\ row[i].attempts \in Nat
        /\ \A v \in Worker : pc[v] \in Fresh => run[v].job \in Job
    BY Summands
  <1>6. \A i \in Job : row'[i].attempts >= row[i].attempts /\ row'[i].attempts \in Nat
    BY <1>2, SummandsNext DEF Counted
  <1>7. \A i \in Job : computed'[i] <= exec'[i].done + row'[i].attempts
    BY <1>3, <1>4, <1>5, <1>6 DEF ResumeInv
  <1>8. computed'[j] < exec'[j].done + row'[j].attempts
    BY <1>2, <1>3, <1>4, <1>5, <1>6 DEF ResumeInv
  <1>9. ASSUME NEW v \in Worker \ {w}, pc'[v] \in Fresh
        PROVE  computed'[run'[v].job]
                 < exec'[run'[v].job].done + row'[run'[v].job].attempts
    BY <1>3, <1>4, <1>5, <1>6, <1>9 DEF ResumeInv
  <1> QED
    BY <1>3, <1>7, <1>8, <1>9

\* A fold is computed: nobody else works on that job.
LEMMA RunFoldResumes ==
    ASSUME WalkInv, WalkInv', Kept, ResumeInv, NEW w \in Worker, RunFold(w)
    PROVE  ResumeInv'
  <1>1. PICK label \in {"save_fold", "save_failed", "finish"} :
          pc' = [pc EXCEPT ![w] = label]
    BY DEF RunFold, Goto
  <1>2. pc[w] = "fold" /\ Local /\ UNCHANGED recordVars
    BY DEF RunFold
  <1>3. label \notin Fresh
    BY <1>1 DEF Fresh
  <1>4. CASE computed' = computed
    BY <1>1, <1>2, <1>3, <1>4, LocalComputesNothing
  <1>5. CASE computed' = [computed EXCEPT ![run[w].job] = @ + 1]
    <2> DEFINE j == run[w].job
    <2>1. j \in Job /\ pc[w] \in Fresh
      BY <1>2 DEF WalkInv, RecordInv, HandlerInv, Fresh
    <2>2. /\ pc'[w] \notin Fresh
          /\ \A v \in Worker \ {w} : pc'[v] = pc[v]
          /\ run' = run /\ row' = row /\ exec' = exec /\ lapses' = lapses
      BY <1>1, <1>2, <1>3 DEF WalkInv, RecordInv, HandlerInv, Local, recordVars
    <2>3. \A v \in Worker \ {w} : lapses = 0 /\ pc[v] \in Fresh => run[v].job # j
      BY <1>2 DEF WalkInv, RecordInv, HandlerInv, Owns, Fresh
    <2>4. computed \in [Job -> Nat]
      BY DEF WalkInv, TypeOK
    <2>5. /\ computed'[j] = computed[j] + 1
          /\ \A i \in Job \ {j} : computed'[i] = computed[i]
      BY <1>5, <2>1, <2>4
    <2>6. /\ \A i \in Job : computed[i] \in Nat /\ exec[i].done \in Nat
                            /\ row[i].attempts \in Nat
          /\ \A v \in Worker : pc[v] \in Fresh => run[v].job \in Job
      BY Summands
    <2>7. lapses = 0 => computed[j] + 1 <= exec[j].done + row[j].attempts
      BY <2>1, <2>6 DEF ResumeInv
    <2> HIDE DEF j
    <2> QED
      BY <2>1, <2>2, <2>3, <2>5, <2>6, <2>7 DEF ResumeInv
  <1> QED
    BY <1>4, <1>5 DEF RunFold

\* A checkpoint is stored: the computation counts as done.
LEMMA SaveFoldResumes ==
    ASSUME WalkInv, WalkInv', Kept, ResumeInv, NEW w \in Worker, SaveFold(w),
           UNCHANGED results
    PROVE  ResumeInv'
  <1> DEFINE j == run[w].job
             n == copy[w].done + 1
             e == Running(copy[w], n)
  <1>1. /\ pc[w] = "save_fold" /\ pc' = [pc EXCEPT ![w] = "progress_fold"]
        /\ Local /\ exec' = [exec EXCEPT ![j] = e] /\ computed' = computed
    BY DEF SaveFold, Save, Goto, results
  <1>2. /\ j \in Job /\ exec \in [Job -> Execution] /\ copy[w] \in Execution
        /\ lapses = 0 => copy[w] = exec[j]
    BY <1>1 DEF WalkInv, RecordInv, HandlerInv, CopyInv, Loaded, Working
  <1>3. copy[w].done \in Nat
    BY <1>2 DEF Execution
  <1>4. e.done = n
    <2>1. n \in Nat
      BY <1>3
    <2> HIDE DEF n
    <2> QED
      BY <1>2, <2>1 DEF Running, Execution
  <1> HIDE DEF e
  <1>5. /\ exec'[j].done = n
        /\ \A i \in Job \ {j} : exec'[i] = exec[i]
    BY <1>1, <1>2, <1>4
  <1>6. /\ \A v \in Worker \ {w} : pc'[v] = pc[v]
        /\ run' = run /\ row' = row /\ lapses' = lapses
    BY <1>1 DEF WalkInv, RecordInv, HandlerInv, Local
  <1>7. /\ \A i \in Job : computed[i] \in Nat /\ exec[i].done \in Nat /\ row[i].attempts \in Nat
        /\ \A v \in Worker : pc[v] \in Fresh => run[v].job \in Job
    BY Summands
  <1>8. lapses = 0 => \A i \in Job : exec'[i].done >= exec[i].done /\ exec'[i].done \in Nat
    BY <1>2, <1>3, <1>5, <1>7
  <1>9. lapses = 0 => computed[j] < exec'[j].done + row[j].attempts
    BY <1>2, <1>3, <1>5, <1>7 DEF ResumeInv
  <1>10. run[w].job = j
    OBVIOUS
  <1> HIDE DEF j, n
  <1> SUFFICES ASSUME lapses = 0
               PROVE  /\ \A i \in Job : computed[i] <= exec'[i].done + row[i].attempts
                      /\ \A v \in Worker : pc'[v] \in Fresh =>
                           computed[run[v].job] < exec'[run[v].job].done + row[run[v].job].attempts
    BY <1>1, <1>6 DEF ResumeInv
  <1>11. \A i \in Job : computed[i] <= exec'[i].done + row[i].attempts
    BY <1>7, <1>8 DEF ResumeInv
  <1>12. ASSUME NEW v \in Worker \ {w}, pc'[v] \in Fresh
         PROVE  computed[run[v].job] < exec'[run[v].job].done + row[run[v].job].attempts
    <2>1. pc[v] \in Fresh /\ run[v].job \in Job
      BY <1>6, <1>7, <1>12
    <2> QED
      BY <1>7, <1>8, <2>1 DEF ResumeInv
  <1> QED
    BY <1>9, <1>10, <1>11, <1>12

\* A step of a worker on its record.
LEMMA RecordStepResumes ==
    ASSUME WalkInv, WalkInv', Kept, ResumeInv, NEW w \in Worker, RecordStep(w),
           UNCHANGED results
    PROVE  ResumeInv'
  <1>0. HandlerInv /\ RecordInv(Working, Done) /\ computed' = computed
    BY DEF WalkInv, RecordInv, results
  <1>1. CASE OuterReport(w) \/ RunnerReport(w)
    <2>1. PICK p, accepted, lost :
          /\ ReportClamped(w, p, accepted, lost)
          /\ <<pc[w], accepted>> \in
               {<<"report_1", "load">>, <<"report_99", "succeed">>,
                <<"progress", "check">>, <<"progress_fold", "check_fold">>}
          /\ lost \in {"raised", "error"}
      BY <1>1 DEF OuterReport, RunnerReport
    <2>2. Counted
      BY <1>0, <2>1, HandlerCounted
    <2>3. /\ run' = run /\ lapses' = lapses
          /\ \E label \in {accepted, lost} : pc' = [pc EXCEPT ![w] = label]
      BY <2>1 DEF ReportClamped, Report, Heartbeat, Goto, vars
    <2>4. PICK label \in {accepted, lost} : pc' = [pc EXCEPT ![w] = label]
      BY <2>3
    <2>5. label \in Fresh => pc[w] \in Fresh
      BY <2>1 DEF Fresh
    <2>6. pc'[w] = label /\ \A v \in Worker \ {w} : pc'[v] = pc[v]
      BY <1>0, <2>4 DEF HandlerInv
    <2> QED
      BY <1>0, <2>2, <2>3, <2>5, <2>6, NothingComputed
  <1>2. CASE Load(w, "progress") \/ Start(w, 0, "progress") \/ Check(w)
    <2>1. PICK label : pc' = [pc EXCEPT ![w] = label]
      BY <1>2 DEF Load, Start, Check, Goto
    <2>2. Local /\ (label \in Fresh => pc[w] \in Fresh)
      <3>1. pc'[w] = label
        BY <1>0, <2>1 DEF HandlerInv
      <3>2. CASE Load(w, "progress") \/ Start(w, 0, "progress")
        BY <3>2 DEF Load, Start, Fresh
      <3>3. CASE Check(w)
        <4>1. pc[w] = "finish" => pc'[w] \in {"save_failed", "save_run"}
          BY <1>0, <3>3 DEF Check, Goto, HandlerInv
        <4> QED
          BY <3>1, <3>3, <4>1 DEF Check, Fresh
      <3> QED
        BY <1>2, <3>2, <3>3
    <2> QED
      BY <1>0, <2>1, <2>2, LocalComputesNothing
  <1>3. CASE SaveFold(w)
    BY <1>3, SaveFoldResumes
  <1>4. CASE \/ SaveSucceeded(w) \/ SaveFailed(w) \/ Returned(w)
             \/ FailActive(w, exec[run[w].job]) \/ SaveFailActive(w, 0)
             \/ Broken(w, InRunner) \/ ReportBroken(w)
    <2>1. PICK label \in {"returned", "report_99", "fatal", "save_fail_active", "raised",
                          "error"} : pc' = [pc EXCEPT ![w] = label]
      <3>1. CASE SaveFailActive(w, 0)
        <4>1. pc' = pc \/ Goto(w, "fatal")
          BY <3>1 DEF SaveFailActive
        <4>2. pc[w] = "save_fail_active" /\ pc = [v \in Worker |-> pc[v]]
          BY <1>0, <3>1 DEF SaveFailActive, HandlerInv
        <4>3. pc = [pc EXCEPT ![w] = "save_fail_active"]
          BY <4>2
        <4> QED
          BY <4>1, <4>3 DEF Goto
      <3>2. CASE FailActive(w, exec[run[w].job])
        BY <3>2 DEF FailActive, Goto
      <3>3. CASE \/ SaveSucceeded(w) \/ SaveFailed(w) \/ Returned(w)
                 \/ Broken(w, InRunner) \/ ReportBroken(w)
        BY <3>3 DEF SaveSucceeded, SaveFailed, Returned, Broken, ReportBroken, Goto
      <3> QED
        BY <1>4, <3>1, <3>2, <3>3
    <2>2. Local
      BY <1>4 DEF SaveSucceeded, SaveFailed, Returned, FailActive, SaveFailActive, Broken,
                  ReportBroken
    <2>3. label \notin Fresh
      BY <2>1 DEF Fresh
    <2> QED
      BY <1>0, <2>1, <2>2, <2>3, LocalComputesNothing
  <1>5. CASE Around(w)
    <2>1. Counted
      BY <1>0, <1>5, HandlerCounted
    <2>2. CASE Raised(w)
      <3>1. PICK label \in {"fail_active", "error"} : pc' = [pc EXCEPT ![w] = label]
        BY <2>2 DEF Raised, Goto
      <3>2. Local /\ label \notin Fresh
        BY <2>2, <3>1 DEF Raised, Local, Fresh
      <3> QED
        BY <1>0, <3>1, <3>2, LocalComputesNothing
    <2>3. CASE SucceedJob(w) \/ FailJob(w) \/ Crash(w)
      <3>1. /\ run' = [run EXCEPT ![w] = NoRun] /\ pc' = [pc EXCEPT ![w] = "idle"]
            /\ lapses' = lapses
        BY <1>0, <2>3, SucceedJobKeeps, FailJobKeeps, CrashKeeps
      <3>2. /\ pc'[w] \notin Fresh
            /\ \A v \in Worker \ {w} : pc'[v] = pc[v] /\ run'[v] = run[v]
        BY <1>0, <3>1 DEF HandlerInv, Fresh
      <3> QED
        BY <1>0, <2>1, <3>1, <3>2, NothingComputed
    <2> QED
      BY <1>5, <2>2, <2>3 DEF Around
  <1> QED
    BY <1>1, <1>2, <1>3, <1>4, <1>5 DEF RecordStep

\* Every step keeps the account of the folds.
LEMMA ResumeInvStep ==
    ASSUME TotalFolds \in Nat, WalkInv, ResumeInv, [ExecNext]_allVars
    PROVE  ResumeInv'
  <1>1. WalkInv' /\ Kept
    BY WalkInvStep
  <1>2. ASSUME NEW j \in Job, Submit(j) \/ AroundJob(j), UNCHANGED results
        PROVE  ResumeInv'
    BY <1>1, <1>2, BesideResumes
  <1>3. ASSUME NEW w \in Worker
        PROVE  /\ (\E j \in Job : StartJob(w, j, "report_1")) /\ UNCHANGED results =>
                    ResumeInv'
               /\ RecordStep(w) /\ UNCHANGED results => ResumeInv'
               /\ RunFold(w) => ResumeInv'
               /\ SaveRun(w) => ResumeInv'
    <2>1. (\E j \in Job : StartJob(w, j, "report_1")) /\ UNCHANGED results => ResumeInv'
      BY <1>1, EnterResumes
    <2>2. RecordStep(w) /\ UNCHANGED results => ResumeInv'
      BY <1>1, RecordStepResumes
    <2>3. RunFold(w) => ResumeInv'
      BY <1>1, RunFoldResumes
    <2>4. ASSUME SaveRun(w)
          PROVE  ResumeInv'
      <3>1. PICK label \in {"save_succeeded", "save_failed"} : pc' = [pc EXCEPT ![w] = label]
        BY <2>4 DEF SaveRun, Goto
      <3>2. Local /\ computed' = computed /\ label \notin Fresh
        BY <2>4, <3>1 DEF SaveRun, Fresh
      <3> QED
        BY <1>1, <3>1, <3>2, LocalComputesNothing
    <2> QED
      BY <2>1, <2>2, <2>3, <2>4
  <1>4. CASE UNCHANGED allVars
    BY <1>4 DEF allVars, ResumeInv
  <1> QED
    BY <1>2, <1>3, <1>4 DEF ExecNext

-----------------------------------------------------------------------------
(* The execution.                                                          *)

\* Every reachable state has what the invariants say.
LEMMA WalkInvAlways == TotalFolds \in Nat => (ExecSpec => [](WalkInv /\ ResumeInv))
  <1> SUFFICES ASSUME TotalFolds \in Nat
               PROVE  ExecSpec => [](WalkInv /\ ResumeInv)
    OBVIOUS
  <1>1. ExecInit => WalkInv /\ ResumeInv
    BY WalkInvInit, ResumeInvInit
  <1>2. WalkInv /\ ResumeInv /\ [ExecNext]_allVars => (WalkInv /\ ResumeInv)'
    BY WalkInvStep, ResumeInvStep
  <1> QED
    BY <1>1, <1>2, PTL DEF ExecSpec

\* The records, the registry and the places of the workers have their types, and a
\* record has the checkpoints that fit its status: all of them exactly when it has
\* succeeded.
THEOREM WalkForwardTypeCorrect == TotalFolds \in Nat => (ExecSpec => []TypeOK)
  <1>1. WalkInv => TypeOK
    BY DEF WalkInv
  <1> QED
    BY <1>1, WalkInvAlways, PTL

\* However many attempts, crashes, lapsed leases and workers on one record: a
\* succeeded execution has a checkpoint of every fold and its run in the registry,
\* and so has a succeeded job.
THEOREM WalkForwardSuccessIsBacked == TotalFolds \in Nat => (ExecSpec => []SuccessIsBacked)
  <1>1. WalkInv => SuccessIsBacked
    BY DEF WalkInv
  <1> QED
    BY <1>1, WalkInvAlways, PTL

\* While no worker outlives its lease, the folds computed are the stored ones and at
\* most one more for each attempt: crashes, broken steps, cancellations and manual
\* retries never repeat what has a checkpoint.
THEOREM ResumeLosesOneFoldAtMost == TotalFolds \in Nat => (ExecSpec => []ResumeLosesOneFold)
  <1>1. ResumeInv => ResumeLosesOneFold
    BY DEF ResumeInv, ResumeLosesOneFold, LeasesHeld
  <1> QED
    BY <1>1, WalkInvAlways, PTL

=============================================================================
