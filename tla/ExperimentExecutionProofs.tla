---------------------- MODULE ExperimentExecutionProofs ----------------------
(***************************************************************************)
(* Experiment executions, for any number of workers, jobs, attempts,       *)
(* crashes and lapsed leases: a success is always backed by the experiment *)
(* and its hand-off; and until a first lease lapses, a record that ended   *)
(* stays, its progress never moves back, and a succeeded job has a         *)
(* succeeded execution.  At the end, what these executions have in common  *)
(* with the walk-forward runs and the optimizations beside them.           *)
(***************************************************************************)
EXTENDS MCDurableExecutions, DurableExecutionProofs

\* The labels at which a runner works on a running record, and those after it has
\* succeeded.
Working == {"progress_5", "check_1", "save_20", "progress_20", "check_2", "compute",
            "check_3", "save_90", "progress_90", "save_succeeded", "save_failed"}
Done == {"progress_95", "report_98", "succeed"}

\* The progress that fits the status of a record.
InRange(e) == e.done \in CASE e.status \in {"absent", "queued"} -> {0}
                           [] e.status \in {"running", "failed"} -> 1..99
                           [] e.status = "succeeded" -> {100}

\* What a worker has brought about before it gets to its label.
Backed(w) ==
    /\ pc[w] \in {"check_3", "save_90", "progress_90", "save_succeeded"} =>
         run[w].job \in stored
    /\ pc[w] \in Done \cup {"returned"} /\ copy[w].status = "succeeded" =>
         run[w].job \in stored
    /\ pc[w] \in {"report_98", "succeed"} => run[w].job \in handed

ExecInv ==
    /\ RecordInv(Working, Done)
    /\ TypeOK
    /\ \A w \in Worker : InRange(copy[w]) /\ Backed(w)
    /\ SuccessIsBacked

-----------------------------------------------------------------------------
\* The labels are as the shared lemmas need them.
LEMMA ExperimentLabels == Labels(Working, Done)
  BY DEF Labels, Loaded, Working, Done

\* A step of worker w keeps the invariant if it keeps that of the records and
\* brings the worker to a sound state.
LEMMA WorkerKeeps ==
    ASSUME ExecInv, RecordInv(Working, Done)', NEW w \in Worker,
           \A v \in Worker \ {w} : pc'[v] = pc[v] /\ copy'[v] = copy[v] /\ run'[v] = run[v],
           pc'[w] \in Label, InRange(copy'[w]),
           stored \subseteq stored', handed \subseteq handed',
           stored' \subseteq Job, handed' \subseteq Job,
           \A j \in Job : \/ exec'[j] = exec[j]
                          \/ /\ exec'[j] = copy'[w]
                             /\ copy'[w].status = "succeeded" => j \in stored',
           \A j \in Job : row'[j].status = "succeeded" =>
             row[j].status = "succeeded" \/ j \in stored' \cap handed',
           Backed(w)'
    PROVE  ExecInv'
  <1>1. \A v \in Worker : InRange(copy'[v])
    BY DEF ExecInv
  <1>2. \A v \in Worker : Backed(v)'
    BY DEF ExecInv, Backed
  <1>3. SuccessIsBacked'
    BY DEF ExecInv, SuccessIsBacked
  <1>4. \A j \in Job : InRange(exec'[j])
    BY DEF ExecInv, TypeOK, InRange
  <1>5. pc' \in [Worker -> Label]
    BY DEF ExecInv, RecordInv, HandlerInv, TypeOK
  <1>6. TypeOK'
    <2>1. /\ exec' \in [Job -> Execution] /\ copy' \in [Worker -> Execution]
          /\ final' \in [Worker -> BOOLEAN]
          /\ lapses' \in 0..MaxLapses /\ crashes' \in 0..MaxCrashes
      BY DEF RecordInv, HandlerInv
    <2> QED
      BY <1>4, <1>5, <2>1 DEF TypeOK, InRange
  <1>7. \A v \in Worker : InRange(copy[v])' /\ Backed(v)'
    BY <1>1, <1>2 DEF InRange
  <1> QED
    BY <1>3, <1>6, <1>7 DEF ExecInv

\* Nothing has happened yet.
LEMMA ExecInvInit == ExecInit => ExecInv
  <1> SUFFICES ASSUME ExecInit
               PROVE  ExecInv
    OBVIOUS
  <1>1. RecordInv(Working, Done)
    BY RecordInvInit, ExperimentLabels DEF ExecInit, Labels
  <1>2. /\ exec = [j \in Job |-> NoExecution] /\ copy = [w \in Worker |-> NoExecution]
        /\ pc = [w \in Worker |-> "idle"] /\ row = [j \in Job |-> Absent]
        /\ stored = {} /\ handed = {}
    BY DEF ExecInit, RecordInit, HandlerInit, Init
  <1>3. InRange(NoExecution) /\ NoExecution.status = "absent" /\ Absent.status = "absent"
    BY DEF NoExecution, InRange, Absent
  <1>4. TypeOK
    <2>1. pc \in [Worker -> Label]
      BY <1>2 DEF Label
    <2>2. \A j \in Job : InRange(exec[j])
      BY <1>2, <1>3
    <2> QED
      BY <1>1, <1>2, <2>1, <2>2 DEF TypeOK, RecordInv, HandlerInv, InRange
  <1>5. \A w \in Worker : InRange(copy[w]) /\ Backed(w)
    BY <1>2, <1>3 DEF Backed, Done
  <1>6. SuccessIsBacked
    BY <1>2, <1>3 DEF SuccessIsBacked
  <1> QED
    BY <1>1, <1>4, <1>5, <1>6 DEF ExecInv

-----------------------------------------------------------------------------
(* The steps.                                                              *)

\* The steps beside the workers.
LEMMA BesideKeeps ==
    ASSUME ExecInv, NEW j \in Job, Submit(j) \/ AroundJob(j), UNCHANGED results
    PROVE  ExecInv' /\ Kept
  <1>1. RecordInv(Working, Done)' /\ Kept
    BY SubmitKeeps, AroundJobKeeps DEF ExecInv
  <1>2. /\ UNCHANGED <<run, pc, copy, stored, handed>>
        /\ \A i \in Job : exec'[i].status = "succeeded" => exec[i].status = "succeeded"
        /\ \A i \in Job : row'[i].status = "succeeded" => row[i].status = "succeeded"
        /\ \A i \in Job : InRange(exec'[i])
    <2>1. CASE Submit(j)
      <3>1. UNCHANGED <<run, pc, copy, stored, handed>> /\ NoSuccess
        BY <2>1, EnqueueKeeps DEF Submit, Enqueue, handlerVars, results, ExecInv, RecordInv
      <3> DEFINE r == exec[j]
                 q == [r EXCEPT !.status = "queued"]
      <3>2. /\ r \in Execution /\ r.status = "absent" /\ InRange(r)
            /\ exec' = [exec EXCEPT ![j] = q]
        BY <2>1 DEF Submit, Enqueue, ExecInv, RecordInv, TypeOK, InRange
      <3> HIDE DEF r
      <3>3. q.status = "queued" /\ q.done = r.done
        BY <3>2 DEF Execution
      <3>4. InRange(q)
        BY <3>2, <3>3 DEF InRange
      <3> HIDE DEF q
      <3>5. \A i \in Job : exec'[i] = IF i = j THEN q ELSE exec[i]
        BY <3>2 DEF ExecInv, TypeOK
      <3> QED
        BY <3>1, <3>3, <3>4, <3>5 DEF NoSuccess, ExecInv, TypeOK, InRange
    <2>2. CASE AroundJob(j)
      BY <2>2, SettleRowKeeps, OperatorKeeps
      DEF AroundJob, recordVars, results, NoSuccess, ExecInv, RecordInv, TypeOK, InRange
    <2> QED
      BY <2>1, <2>2
  <1>3. SuccessIsBacked'
    BY <1>2 DEF ExecInv, SuccessIsBacked
  <1>4. TypeOK'
    BY <1>1, <1>2 DEF ExecInv, TypeOK, RecordInv, HandlerInv, InRange
  <1>5. \A w \in Worker : InRange(copy[w])' /\ Backed(w)'
    BY <1>2 DEF ExecInv, Backed, InRange
  <1> QED
    BY <1>1, <1>3, <1>4, <1>5 DEF ExecInv

\* A worker starts the handler.
LEMMA EnterExperimentKeeps ==
    ASSUME ExecInv, NEW w \in Worker, NEW j \in Job, StartJob(w, j, "report_5"),
           UNCHANGED results
    PROVE  ExecInv' /\ Kept
  <1>1. RecordInv(Working, Done)' /\ Kept
    BY StartJobKeeps DEF ExecInv, Loaded, Working, Done
  <1>2. /\ NoSuccess
        /\ run' = [run EXCEPT ![w] = run'[w]]
        /\ pc' = [pc EXCEPT ![w] = "report_5"]
        /\ copy' = [copy EXCEPT ![w] = NoExecution] /\ exec' = exec
        /\ UNCHANGED <<stored, handed>>
    BY EnterKeeps DEF StartJob, ExecInv, RecordInv, results
  <1>3. /\ pc'[w] = "report_5" /\ copy'[w] = NoExecution
        /\ \A v \in Worker \ {w} : pc'[v] = pc[v] /\ copy'[v] = copy[v] /\ run'[v] = run[v]
    BY <1>2 DEF ExecInv, RecordInv, HandlerInv
  <1>4. InRange(copy'[w])
    BY <1>3 DEF NoExecution, InRange
  <1>5. Backed(w)'
    BY <1>3 DEF Backed, Done
  <1>6. "report_5" \in Label /\ stored \subseteq Job /\ handed \subseteq Job
    BY DEF Label, ExecInv, TypeOK
  <1> QED
    BY <1>1, <1>2, <1>3, <1>4, <1>5, <1>6, WorkerKeeps DEF NoSuccess

\* The states a step of a worker leads to when it leaves the record alone, and when
\* it stores a record.
LEMMA StayingKeeps ==
    ASSUME ExecInv, RecordInv(Working, Done)', NEW w \in Worker, NEW label \in Label,
           pc' = [pc EXCEPT ![w] = label], run' = run, NoSuccess, UNCHANGED recordVars,
           stored \subseteq stored', handed \subseteq handed',
           stored' \subseteq Job, handed' \subseteq Job,
           label \in {"check_3", "save_90", "progress_90", "save_succeeded"} =>
             run[w].job \in stored',
           label \in Done \cup {"returned"} /\ copy[w].status = "succeeded" =>
             run[w].job \in stored',
           label \in {"report_98", "succeed"} => run[w].job \in handed'
    PROVE  ExecInv'
  <1>1. /\ pc'[w] = label /\ copy' = copy /\ exec' = exec
        /\ \A v \in Worker \ {w} : pc'[v] = pc[v] /\ copy'[v] = copy[v] /\ run'[v] = run[v]
    BY DEF ExecInv, TypeOK, recordVars
  <1>2. InRange(copy'[w])
    BY <1>1 DEF ExecInv
  <1>3. Backed(w)'
    BY <1>1 DEF Backed
  <1> QED
    BY <1>1, <1>2, <1>3, WorkerKeeps DEF NoSuccess

\* A step after which the worker has stored its record.
LEMMA SavingKeeps ==
    ASSUME ExecInv, RecordInv(Working, Done)', NEW w \in Worker, NEW label \in Label,
           NEW e \in Execution, InRange(e),
           pc' = [pc EXCEPT ![w] = label], Local, Save(w, e), UNCHANGED results,
           e.status = "succeeded" => run[w].job \in stored,
           label \in {"check_3", "save_90", "progress_90", "save_succeeded"} =>
             run[w].job \in stored,
           label \notin {"report_98", "succeed"}
    PROVE  ExecInv'
  <1>1. /\ pc'[w] = label /\ copy'[w] = e
        /\ run' = run /\ row' = row /\ stored' = stored /\ handed' = handed
        /\ \A v \in Worker \ {w} : pc'[v] = pc[v] /\ copy'[v] = copy[v] /\ run'[v] = run[v]
        /\ stored \subseteq Job /\ handed \subseteq Job
    BY DEF ExecInv, TypeOK, Local, Save, results
  <1>2. \A j \in Job : exec'[j] = exec[j] \/ (exec'[j] = e /\ run[w].job = j)
    <2> DEFINE i == run[w].job
    <2>1. exec \in [Job -> Execution] /\ exec' = [exec EXCEPT ![i] = e]
      BY DEF ExecInv, TypeOK, Save
    <2> HIDE DEF i
    <2>2. \A j \in Job : exec'[j] = exec[j] \/ (exec'[j] = e /\ i = j)
      BY <2>1
    <2> QED
      BY <2>2 DEF i
  <1>3. Backed(w)'
    BY <1>1 DEF Backed
  <1> QED
    BY <1>1, <1>2, <1>3, WorkerKeeps

\* Reports and checks.
LEMMA ReportsKeep ==
    ASSUME ExecInv, NEW w \in Worker, OuterReport(w) \/ RunnerReport(w), UNCHANGED results
    PROVE  ExecInv' /\ Kept
  <1>1. PICK p \in Nat, accepted \in Label, lost \in {"raised", "error"} :
        /\ ReportClamped(w, p, accepted, lost)
        /\ <<pc[w], accepted>> \in
             {<<"report_5", "load">>, <<"report_98", "succeed">>,
              <<"progress_5", "check_1">>, <<"progress_20", "check_2">>,
              <<"progress_90", "save_succeeded">>, <<"progress_95", "returned">>}
    <2>1. copy[w].done \in Nat
      BY DEF ExecInv, TypeOK, Execution
    <2>2. CASE OuterReport(w)
      <3>1. CASE pc[w] = "report_5" /\ ReportClamped(w, 5, "load", "error")
        BY <3>1 DEF Label
      <3>2. CASE pc[w] = "report_98" /\ ReportClamped(w, 98, "succeed", "error")
        BY <3>2 DEF Label
      <3> QED
        BY <2>2, <3>1, <3>2 DEF OuterReport
    <2>3. CASE RunnerReport(w)
      <3> DEFINE p == IF copy[w].done > 5 THEN copy[w].done ELSE 5
      <3>0. p \in Nat
        BY <2>1
      <3>1. CASE pc[w] = "progress_5" /\ ReportClamped(w, p, "check_1", "raised")
        <4> HIDE DEF p
        <4> QED
          BY <3>0, <3>1 DEF Label
      <3>2. CASE pc[w] = "progress_20" /\ ReportClamped(w, copy[w].done, "check_2", "raised")
        BY <2>1, <3>2 DEF Label
      <3>3. CASE /\ pc[w] = "progress_90"
                 /\ ReportClamped(w, copy[w].done, "save_succeeded", "raised")
        BY <2>1, <3>3 DEF Label
      <3>4. CASE pc[w] = "progress_95" /\ ReportClamped(w, 95, "returned", "raised")
        BY <3>4 DEF Label
      <3> QED
        BY <2>3, <3>1, <3>2, <3>3, <3>4 DEF RunnerReport
    <2> QED
      BY <2>2, <2>3
  <1>2. UNCHANGED recordVars
    BY DEF OuterReport, RunnerReport
  <1>3. pc[w] # "idle" /\ "idle" \notin {accepted, lost}
    BY <1>1
  <1>4. Fitting(Working, Done, pc[w], copy[w].status)
    BY DEF ExecInv, RecordInv, CopyInv
  <1>5. ASSUME NEW label \in {accepted, lost}
        PROVE  /\ Fitting(Working, Done, label, copy[w].status)
               /\ label \in Loaded(Working, Done) => pc[w] \in Loaded(Working, Done)
    BY <1>1, <1>4 DEF Fitting, Loaded, Working, Done, Ended
  <1>6. RecordInv(Working, Done)
    BY DEF ExecInv
  <1>7. /\ RecordInv(Working, Done)' /\ Kept /\ NoSuccess /\ run' = run
        /\ \E label \in {accepted, lost} : pc' = [pc EXCEPT ![w] = label]
    BY <1>1, <1>2, <1>3, <1>5, <1>6, StayReporting
  <1>8. PICK label \in {accepted, lost} : pc' = [pc EXCEPT ![w] = label]
    BY <1>7
  <1>9. label \in Label
    BY <1>1 DEF Label
  <1>10. Backed(w)
    BY DEF ExecInv
  <1>11. /\ label \in {"check_3", "save_90", "progress_90", "save_succeeded"} =>
              run[w].job \in stored
         /\ label \in Done \cup {"returned"} /\ copy[w].status = "succeeded" =>
              run[w].job \in stored
         /\ label \in {"report_98", "succeed"} => run[w].job \in handed
    BY <1>1, <1>10 DEF Backed, Done
  <1>12. stored' = stored /\ handed' = handed /\ stored \subseteq Job /\ handed \subseteq Job
    BY DEF results, ExecInv, TypeOK
  <1> QED
    BY <1>2, <1>7, <1>8, <1>9, <1>11, <1>12, StayingKeeps

\* A runner looks at the cancel request and at its dataset.
LEMMA CheckKeeps ==
    ASSUME ExecInv, NEW w \in Worker, Check(w), UNCHANGED results
    PROVE  ExecInv' /\ Kept
  <1>1. PICK label \in {"save_failed", "save_20", "compute", "save_90"} :
        /\ pc' = [pc EXCEPT ![w] = label]
        /\ pc[w] \in {"check_1", "check_2", "check_3"}
        /\ label = "save_90" => pc[w] = "check_3"
    BY DEF Check, Goto
  <1>2. Local /\ UNCHANGED recordVars
    BY DEF Check
  <1>3. pc[w] # "idle" /\ label # "idle" /\ label \in Label
        /\ {pc[w], label} \subseteq Working
    BY <1>1 DEF Label, Working
  <1>4. RecordInv(Working, Done) /\ copy[w].status = "running"
    BY <1>3 DEF ExecInv, RecordInv, CopyInv, Fitting
  <1>5. /\ Fitting(Working, Done, label, copy[w].status)
        /\ label \in Loaded(Working, Done) => pc[w] \in Loaded(Working, Done)
    BY <1>3, <1>4, ExperimentLabels DEF Fitting, Labels, Loaded
  <1>6. RecordInv(Working, Done)' /\ Kept
    BY <1>1, <1>2, <1>3, <1>4, <1>5, StayKeeps
  <1>7. run' = run /\ NoSuccess
    BY <1>2 DEF Local, NoSuccess
  <1>8. stored' = stored /\ handed' = handed /\ stored \subseteq Job /\ handed \subseteq Job
    BY DEF results, ExecInv, TypeOK
  <1>9. Backed(w)
    BY DEF ExecInv
  <1>10. /\ label = "save_90" => run[w].job \in stored
         /\ label \notin Done \cup {"returned", "check_3", "progress_90", "save_succeeded"}
    BY <1>1, <1>9 DEF Backed, Done
  <1>11. label \notin {"report_98", "succeed"}
    BY <1>1
  <1> QED
    BY <1>1, <1>2, <1>3, <1>6, <1>7, <1>8, <1>10, <1>11, StayingKeeps

\* A runner reads the record, or starts it.
LEMMA LoadExperimentKeeps ==
    ASSUME ExecInv, NEW w \in Worker, Load(w, "progress_5"), UNCHANGED results
    PROVE  ExecInv' /\ Kept
  <1> DEFINE e == exec[run[w].job]
             label == IF e.status \in Ended THEN "returned"
                      ELSE IF e.status = "queued" THEN "start" ELSE "progress_5"
  <1>1. /\ pc[w] = "load" /\ pc' = [pc EXCEPT ![w] = label] /\ Local
        /\ copy' = [copy EXCEPT ![w] = e] /\ exec' = exec
    BY DEF Load, Goto
  <1>2. "progress_5" \in Working /\ RecordInv(Working, Done)
    BY DEF Working, ExecInv
  <1>3. RecordInv(Working, Done)' /\ Kept
    BY <1>2, ExperimentLabels, LoadKeeps
  <1>4. run[w].job \in Job
    BY <1>1, <1>2 DEF RecordInv, HandlerInv
  <1>5. /\ InRange(e)
        /\ e.status = "succeeded" => run[w].job \in stored
    BY <1>4 DEF ExecInv, TypeOK, InRange, SuccessIsBacked
  <1>6. label \in {"returned", "start", "progress_5"} /\ label \in Label
    BY DEF Label
  <1> HIDE DEF e, label
  <1>7. /\ pc'[w] = label /\ copy'[w] = e
        /\ \A v \in Worker \ {w} : pc'[v] = pc[v] /\ copy'[v] = copy[v] /\ run'[v] = run[v]
    BY <1>1, <1>2 DEF RecordInv, HandlerInv, Local
  <1>8. /\ run' = run /\ row' = row /\ exec' = exec
        /\ stored' = stored /\ handed' = handed /\ stored \subseteq Job /\ handed \subseteq Job
    BY <1>1 DEF Local, results, ExecInv, TypeOK
  <1>9. Backed(w)'
    BY <1>5, <1>6, <1>7, <1>8 DEF Backed, Done
  <1> QED
    BY <1>3, <1>5, <1>6, <1>7, <1>8, <1>9, WorkerKeeps

\* A runner sets its queued record running.
LEMMA StartExperimentKeeps ==
    ASSUME ExecInv, NEW w \in Worker, Start(w, 1, "progress_5"), UNCHANGED results
    PROVE  ExecInv' /\ Kept
  <1> DEFINE e == Running(copy[w], 1)
  <1>1. pc[w] = "start" /\ pc' = [pc EXCEPT ![w] = "progress_5"] /\ Local /\ Save(w, e)
    BY DEF Start, Goto
  <1>2. "progress_5" \in Working /\ "progress_5" \in Label /\ RecordInv(Working, Done)
    BY DEF Working, Label, ExecInv
  <1>3. copy[w] \in Execution /\ copy[w].status = "queued" /\ InRange(copy[w])
    BY <1>1 DEF ExecInv, RecordInv, CopyInv, Fitting
  <1>4. 1 >= copy[w].done
    BY <1>3 DEF InRange
  <1>5. RecordInv(Working, Done)' /\ Kept
    BY <1>2, <1>4, ExperimentLabels, StartKeeps
  <1>6. e \in Execution /\ e.status = "running" /\ e.done = 1
    BY <1>3, NextRecords
  <1> HIDE DEF e
  <1>7. InRange(e)
    BY <1>6 DEF InRange
  <1> QED
    BY <1>1, <1>2, <1>5, <1>6, <1>7, SavingKeeps

\* A runner stores a record that goes on from its own.
LEMMA AdvanceExperiment ==
    ASSUME RecordInv(Working, Done), NEW w \in Worker, pc[w] \in Working,
           NEW e \in Execution, NEW label,
           pc' = [pc EXCEPT ![w] = label], Local, Save(w, e), e.done >= copy[w].done,
           \/ e.status = "running" /\ label \in Working
           \/ e.status = "succeeded" /\ label \in Done \cup {"returned"}
           \/ e.status = "failed" /\ label = "returned"
    PROVE  RecordInv(Working, Done)' /\ Kept
  BY ExperimentLabels, AdvanceKeeps

\* A runner stores its progress.
LEMMA SaveProgressKeeps ==
    ASSUME ExecInv, NEW w \in Worker, NEW p \in {20, 90}, NEW label, NEW next,
           <<label, p, next>> \in
             {<<"save_20", 20, "progress_20">>, <<"save_90", 90, "progress_90">>},
           SaveProgress(w, label, p, next), UNCHANGED results
    PROVE  ExecInv' /\ Kept
  <1> DEFINE e == Running(copy[w], p)
  <1>1. pc[w] = label /\ pc' = [pc EXCEPT ![w] = next] /\ Local
    BY DEF SaveProgress, Goto
  <1>2. {label, next} \subseteq Working /\ next \in Label /\ next \in Working
    BY DEF Working, Label
  <1>3. pc[w] # "idle" /\ next # "idle" /\ next \notin Done /\ next # "returned"
    BY <1>1 DEF Done
  <1>4. RecordInv(Working, Done) /\ copy[w] \in Execution /\ copy[w].status = "running"
    BY <1>1, <1>2 DEF ExecInv, RecordInv, CopyInv, Fitting
  <1>5. next = "progress_90" => run[w].job \in stored
    BY <1>1 DEF ExecInv, Backed
  <1>5a. next \notin {"check_3", "save_90", "save_succeeded", "report_98", "succeed"}
    OBVIOUS
  <1>6. CASE copy[w].done < p
    <2>1. Save(w, e)
      BY <1>6 DEF SaveProgress
    <2>2. e \in Execution /\ e.status = "running" /\ e.done = p
      BY <1>4, NextRecords
    <2> HIDE DEF e
    <2>3. e.done >= copy[w].done
      BY <1>6, <1>4, <2>2 DEF Execution
    <2>4. RecordInv(Working, Done)' /\ Kept
      <3>1. /\ pc[w] \in Working
            /\ \/ e.status = "running" /\ next \in Working
               \/ e.status = "succeeded" /\ next \in Done \cup {"returned"}
               \/ e.status = "failed" /\ next = "returned"
        BY <1>1, <1>2, <2>2
      <3>2. RecordInv(Working, Done) /\ e \in Execution /\ Local /\ Save(w, e)
            /\ pc' = [pc EXCEPT ![w] = next]
        BY <1>1, <1>4, <2>1, <2>2
      <3> QED
        BY <2>3, <3>1, <3>2, AdvanceExperiment
    <2>5. InRange(e)
      BY <2>2 DEF InRange
    <2> QED
      BY <1>1, <1>2, <1>5, <1>5a, <2>1, <2>2, <2>4, <2>5, SavingKeeps
  <1>7. CASE ~(copy[w].done < p)
    <2>1. UNCHANGED recordVars
      BY <1>7 DEF SaveProgress
    <2>2. /\ Fitting(Working, Done, next, copy[w].status)
          /\ pc[w] \in Loaded(Working, Done)
      BY <1>1, <1>2, <1>4, ExperimentLabels DEF Fitting, Labels, Loaded
    <2>3. RecordInv(Working, Done)' /\ Kept
      BY <1>1, <1>3, <1>4, <2>1, <2>2, StayKeeps
    <2>4. /\ run' = run /\ NoSuccess
          /\ stored' = stored /\ handed' = handed /\ stored \subseteq Job /\ handed \subseteq Job
      BY <1>1 DEF Local, NoSuccess, results, ExecInv, TypeOK
    <2> QED
      BY <1>1, <1>2, <1>3, <1>5, <1>5a, <2>1, <2>3, <2>4, StayingKeeps
  <1> QED
    BY <1>6, <1>7

\* A runner ends its record.
LEMMA EndingKeeps ==
    ASSUME ExecInv, NEW w \in Worker, SaveSucceeded(w) \/ SaveFailed(w), UNCHANGED results
    PROVE  ExecInv' /\ Kept
  <1>1. RecordInv(Working, Done) /\ copy[w] \in Execution /\ InRange(copy[w])
    BY DEF ExecInv, RecordInv
  <1>2. CASE SaveSucceeded(w)
    <2> DEFINE e == Succeeded(copy[w], 100)
    <2>1. /\ pc[w] = "save_succeeded" /\ pc' = [pc EXCEPT ![w] = "progress_95"]
          /\ Local /\ Save(w, e)
      BY <1>2 DEF SaveSucceeded, Goto
    <2>2. pc[w] \in Working /\ "progress_95" \in Done /\ "progress_95" \in Label
      BY <2>1 DEF Working, Done, Label
    <2>3. copy[w].status = "running"
      BY <2>2 DEF ExecInv, RecordInv, CopyInv, Fitting
    <2>4. copy[w].done \in 1..99
      BY <1>1, <2>3 DEF InRange
    <2>5. e \in Execution /\ e.status = "succeeded" /\ e.done = 100
      BY <1>1 DEF Succeeded, Execution
    <2> HIDE DEF e
    <2>6. InRange(e) /\ e.done >= copy[w].done
      BY <2>4, <2>5 DEF InRange
    <2>7. RecordInv(Working, Done)' /\ Kept
      BY <1>1, <2>1, <2>2, <2>5, <2>6, AdvanceExperiment
    <2>8. run[w].job \in stored
      BY <2>1 DEF ExecInv, Backed
    <2>9. "progress_95" \notin {"report_98", "succeed"}
      OBVIOUS
    <2>10. pc' = [pc EXCEPT ![w] = "progress_95"] /\ Local /\ Save(w, e) /\ "progress_95" \in Label
      BY <2>1, <2>2
    <2> QED
      BY <2>5, <2>6, <2>7, <2>8, <2>9, <2>10, SavingKeeps
  <1>3. CASE SaveFailed(w)
    <2> DEFINE e == Failed(copy[w])
    <2>1. /\ pc[w] = "save_failed" /\ pc' = [pc EXCEPT ![w] = "returned"]
          /\ Local /\ Save(w, e)
      BY <1>3 DEF SaveFailed, Goto
    <2>2. pc[w] \in Working /\ "returned" \in Label
      BY <2>1 DEF Working, Label
    <2>3. copy[w].status = "running"
      BY <2>2 DEF ExecInv, RecordInv, CopyInv, Fitting
    <2>4. copy[w].done \in 1..99
      BY <1>1, <2>3 DEF InRange
    <2>5. e \in Execution /\ e.status = "failed" /\ e.done = copy[w].done
      BY <1>1, NextRecords
    <2> HIDE DEF e
    <2>6. InRange(e)
      BY <2>4, <2>5 DEF InRange
    <2>7. RecordInv(Working, Done)' /\ Kept
      BY <1>1, <1>3, ExperimentLabels, SaveFailedKeeps
    <2> QED
      BY <2>1, <2>2, <2>5, <2>6, <2>7, SavingKeeps
  <1> QED
    BY <1>2, <1>3

\* The experiment is built and stored.
LEMMA ComputeKeeps ==
    ASSUME ExecInv, NEW w \in Worker, Compute(w)
    PROVE  ExecInv' /\ Kept
  <1>1. PICK label \in {"check_3", "save_failed"} :
        /\ pc' = [pc EXCEPT ![w] = label]
        /\ stored' = IF label = "check_3" THEN stored \cup {run[w].job} ELSE stored
    <2>1. CASE stored' = stored \cup {run[w].job} /\ Goto(w, "check_3")
      BY <2>1 DEF Goto
    <2>2. CASE stored' = stored /\ Goto(w, "save_failed")
      BY <2>2 DEF Goto
    <2> QED
      BY <2>1, <2>2 DEF Compute
  <1>2. pc[w] = "compute" /\ Local /\ UNCHANGED recordVars /\ handed' = handed
    BY DEF Compute
  <1>3. {pc[w], label} \subseteq Working /\ label \in Label
        /\ pc[w] # "idle" /\ label # "idle"
        /\ label \notin Done \cup {"returned", "report_98", "succeed"}
    BY <1>2 DEF Working, Label, Done
  <1>4. RecordInv(Working, Done) /\ copy[w].status = "running"
    BY <1>3 DEF ExecInv, RecordInv, CopyInv, Fitting
  <1>5. /\ Fitting(Working, Done, label, copy[w].status)
        /\ pc[w] \in Loaded(Working, Done)
    BY <1>3, <1>4, ExperimentLabels DEF Fitting, Labels, Loaded
  <1>6. RecordInv(Working, Done)' /\ Kept
    BY <1>1, <1>2, <1>3, <1>4, <1>5, StayKeeps
  <1>7. run[w].job \in Job
    BY <1>2 DEF ExecInv, RecordInv, HandlerInv
  <1>8. /\ run' = run /\ NoSuccess
        /\ stored \subseteq stored' /\ stored' \subseteq Job /\ handed \subseteq Job
        /\ label = "check_3" => run[w].job \in stored'
    BY <1>1, <1>2, <1>7 DEF Local, NoSuccess, ExecInv, TypeOK
  <1>9. label \notin {"save_90", "progress_90", "save_succeeded"}
    BY <1>1
  <1> QED
    BY <1>1, <1>2, <1>3, <1>6, <1>8, <1>9, StayingKeeps

\* The runner has returned.
LEMMA ReturnedKeeps ==
    ASSUME ExecInv, NEW w \in Worker, Returned(w)
    PROVE  ExecInv' /\ Kept
  <1>1. PICK label \in {"report_98", "fatal"} :
        /\ pc' = [pc EXCEPT ![w] = label]
        /\ handed' = IF label = "report_98" THEN handed \cup {run[w].job} ELSE handed
        /\ label = "report_98" => copy[w].status = "succeeded"
    <2>1. CASE /\ copy[w].status = "succeeded" /\ handed' = handed \cup {run[w].job}
               /\ Goto(w, "report_98")
      BY <2>1 DEF Goto
    <2>2. CASE copy[w].status = "failed" /\ handed' = handed /\ Goto(w, "fatal")
      BY <2>2 DEF Goto
    <2> QED
      BY <2>1, <2>2 DEF Returned
  <1>2. pc[w] = "returned" /\ Local /\ UNCHANGED recordVars /\ stored' = stored
    BY DEF Returned
  <1>3. label \in Label /\ pc[w] # "idle" /\ label # "idle"
        /\ label \notin Working \cup {"start", "returned", "save_fail_active"}
        /\ (label \in Done => label = "report_98")
    BY <1>2 DEF Working, Label, Done
  <1>4. RecordInv(Working, Done)
    BY DEF ExecInv
  <1>5. /\ Fitting(Working, Done, label, copy[w].status)
        /\ pc[w] \in Loaded(Working, Done)
    BY <1>1, <1>2, <1>3 DEF Fitting, Loaded
  <1>6. RecordInv(Working, Done)' /\ Kept
    BY <1>1, <1>2, <1>3, <1>4, <1>5, StayKeeps
  <1>7. run[w].job \in Job
    BY <1>2 DEF ExecInv, RecordInv, HandlerInv
  <1>8. /\ run' = run /\ NoSuccess
        /\ handed \subseteq handed' /\ handed' \subseteq Job /\ stored \subseteq Job
        /\ label = "report_98" => run[w].job \in handed'
    BY <1>1, <1>2, <1>7 DEF Local, NoSuccess, ExecInv, TypeOK
  <1>9. label = "report_98" => run[w].job \in stored
    BY <1>1, <1>2 DEF ExecInv, Backed
  <1>10. label \notin {"check_3", "save_90", "progress_90", "save_succeeded", "succeed"}
    BY <1>1
  <1> QED
    BY <1>1, <1>2, <1>3, <1>6, <1>8, <1>9, <1>10, StayingKeeps

\* The last attempt raised: fail_active reads the record, and fails it.
LEMMA FailingKeeps ==
    ASSUME ExecInv, NEW w \in Worker, UNCHANGED results,
           FailActive(w, exec[run[w].job]) \/ SaveFailActive(w, 1)
    PROVE  ExecInv' /\ Kept
  <1>1. RecordInv(Working, Done) /\ copy[w] \in Execution /\ InRange(copy[w])
    BY DEF ExecInv, RecordInv
  <1>2. CASE FailActive(w, exec[run[w].job])
    <2> DEFINE e == exec[run[w].job]
               label == IF e.status \in Ended THEN "fatal" ELSE "save_fail_active"
    <2>1. /\ pc[w] = "fail_active" /\ pc' = [pc EXCEPT ![w] = label] /\ Local
          /\ copy' = [copy EXCEPT ![w] = e] /\ exec' = exec
      BY <1>2 DEF FailActive, Goto
    <2>2. RecordInv(Working, Done)' /\ Kept
      BY <1>1, <1>2, ExperimentLabels, FailActiveKeeps
    <2>3. run[w].job \in Job
      BY <1>1, <2>1 DEF RecordInv, HandlerInv
    <2>4. InRange(e)
      BY <2>3 DEF ExecInv, TypeOK, InRange
    <2>5. label \in {"fatal", "save_fail_active"} /\ label \in Label
      BY DEF Label
    <2> HIDE DEF e, label
    <2>6. /\ pc'[w] = label /\ copy'[w] = e
          /\ \A v \in Worker \ {w} : pc'[v] = pc[v] /\ copy'[v] = copy[v] /\ run'[v] = run[v]
      BY <1>1, <2>1 DEF RecordInv, HandlerInv, Local
    <2>7. /\ run' = run /\ row' = row /\ exec' = exec
          /\ stored' = stored /\ handed' = handed /\ stored \subseteq Job /\ handed \subseteq Job
      BY <2>1 DEF Local, results, ExecInv, TypeOK
    <2>8. Backed(w)'
      BY <2>5, <2>6 DEF Backed, Done
    <2> QED
      BY <2>2, <2>4, <2>5, <2>6, <2>7, <2>8, WorkerKeeps
  <1>3. CASE SaveFailActive(w, 1)
    <2>1. pc[w] = "save_fail_active" /\ Local
      BY <1>3 DEF SaveFailActive
    <2>2. copy[w].status \in {"queued", "running"} /\ copy[w].done \in Nat
      BY <1>1, <2>1 DEF RecordInv, CopyInv, Fitting, Execution
    <2>3. copy[w].status = "queued" => 1 >= copy[w].done
      BY <1>1 DEF InRange
    <2>4. RecordInv(Working, Done)' /\ Kept
      BY <1>1, <1>3, <2>3, ExperimentLabels, SaveFailActiveKeeps
    <2>5. CASE copy[w].status = "queued"
      <3> DEFINE e == Running(copy[w], 1)
      <3>1. Save(w, e) /\ pc' = pc
        BY <1>3, <2>5 DEF SaveFailActive
      <3>2. e \in Execution /\ e.status = "running" /\ e.done = 1
        BY <1>1, NextRecords
      <3> HIDE DEF e
      <3>3. InRange(e)
        BY <3>2 DEF InRange
      <3>4. "save_fail_active" \in Label /\ pc' = [pc EXCEPT ![w] = "save_fail_active"]
        BY <1>1, <2>1, <3>1 DEF Label, RecordInv, HandlerInv
      <3> QED
        BY <2>1, <2>4, <3>1, <3>2, <3>3, <3>4, SavingKeeps
    <2>6. CASE copy[w].status = "running"
      <3> DEFINE e == Failed(copy[w])
      <3>1. Save(w, e) /\ pc' = [pc EXCEPT ![w] = "fatal"] /\ "fatal" \in Label
        BY <1>3, <2>6 DEF SaveFailActive, Goto, Label
      <3>2. e \in Execution /\ e.status = "failed" /\ e.done = copy[w].done
        BY <1>1, NextRecords
      <3>3. copy[w].done \in 1..99
        BY <1>1, <2>6 DEF InRange
      <3> HIDE DEF e
      <3>4. InRange(e)
        BY <3>2, <3>3 DEF InRange
      <3> QED
        BY <2>1, <2>4, <3>1, <3>2, <3>4, SavingKeeps
    <2> QED
      BY <2>2, <2>5, <2>6
  <1> QED
    BY <1>2, <1>3

\* A step of the handler breaks.
LEMMA BreakingKeeps ==
    ASSUME ExecInv, NEW w \in Worker, Broken(w, InRunner) \/ ReportBroken(w),
           UNCHANGED results
    PROVE  ExecInv' /\ Kept
  <1>1. PICK label \in {"raised", "error"} : pc' = [pc EXCEPT ![w] = label]
    BY DEF Broken, ReportBroken, Goto
  <1>2. pc[w] # "idle" /\ Local /\ UNCHANGED recordVars
    BY DEF Broken, ReportBroken, InRunner
  <1>3. label # "idle" /\ label \notin Loaded(Working, Done) /\ label \in Label
    BY <1>1, ExperimentLabels DEF Labels, Label
  <1>4. Fitting(Working, Done, label, copy[w].status)
    BY <1>3 DEF Fitting, Loaded
  <1>5. RecordInv(Working, Done)
    BY DEF ExecInv
  <1>6. RecordInv(Working, Done)' /\ Kept
    BY <1>1, <1>2, <1>3, <1>4, <1>5, StayKeeps
  <1>7. /\ run' = run /\ NoSuccess
        /\ stored' = stored /\ handed' = handed /\ stored \subseteq Job /\ handed \subseteq Job
    BY <1>2 DEF Local, NoSuccess, results, ExecInv, TypeOK
  <1>8. label \notin Done \cup {"returned", "check_3", "save_90", "progress_90",
                                "save_succeeded", "report_98", "succeed"}
    BY <1>1 DEF Done
  <1> QED
    BY <1>1, <1>2, <1>3, <1>6, <1>7, <1>8, StayingKeeps

\* A worker leaves its handler.
LEMMA LeavingKeeps ==
    ASSUME ExecInv, NEW w \in Worker, Around(w), UNCHANGED results
    PROVE  ExecInv' /\ Kept
  <1>1. RecordInv(Working, Done)
    BY DEF ExecInv
  <1>2. RecordInv(Working, Done)' /\ Kept
    BY <1>1, ExperimentLabels, AroundKeeps
  <1>3. /\ UNCHANGED recordVars
        /\ stored' = stored /\ handed' = handed /\ stored \subseteq Job /\ handed \subseteq Job
    BY DEF Around, results, ExecInv, TypeOK
  <1>4. CASE Raised(w)
    <2>1. PICK label \in {"fail_active", "error"} : pc' = [pc EXCEPT ![w] = label]
      BY <1>4 DEF Raised, Goto
    <2>2. run' = run /\ NoSuccess
      BY <1>4 DEF Raised, NoSuccess
    <2>3. /\ label \in Label
          /\ label \notin Done \cup {"returned", "check_3", "save_90", "progress_90",
                                     "save_succeeded", "report_98", "succeed"}
      BY <2>1 DEF Label, Done
    <2> QED
      BY <1>2, <1>3, <2>1, <2>2, <2>3, StayingKeeps
  <1>5. ASSUME run' = [run EXCEPT ![w] = NoRun], pc' = [pc EXCEPT ![w] = "idle"],
               \A j \in Job : row'[j].status = "succeeded" =>
                 row[j].status = "succeeded" \/ j \in stored \cap handed
        PROVE  ExecInv'
    <2>1. /\ pc'[w] = "idle" /\ copy' = copy /\ exec' = exec /\ "idle" \in Label
          /\ \A v \in Worker \ {w} : pc'[v] = pc[v] /\ copy'[v] = copy[v] /\ run'[v] = run[v]
      BY <1>1, <1>3, <1>5 DEF RecordInv, HandlerInv, recordVars, Label
    <2>2. InRange(copy'[w])
      BY <2>1 DEF ExecInv
    <2>3. Backed(w)'
      BY <2>1 DEF Backed, Done
    <2> QED
      BY <1>2, <1>3, <1>5, <2>1, <2>2, <2>3, WorkerKeeps
  <1>6. CASE SucceedJob(w)
    <2>1. /\ run' = [run EXCEPT ![w] = NoRun] /\ pc' = [pc EXCEPT ![w] = "idle"]
          /\ pc[w] = "succeed"
          /\ \A j \in Job : row'[j].status = "succeeded" =>
               row[j].status = "succeeded" \/ j = run[w].job
      BY <1>1, <1>6, SucceedJobKeeps DEF RecordInv
    <2>2. copy[w].status = "succeeded" /\ Backed(w)
      BY <1>1, <2>1 DEF ExecInv, RecordInv, CopyInv, Fitting, Done
    <2>3. run[w].job \in stored \cap handed
      BY <2>1, <2>2 DEF Backed, Done
    <2> QED
      BY <1>2, <1>5, <2>1, <2>3
  <1>7. CASE FailJob(w) \/ Crash(w)
    <2>1. /\ run' = [run EXCEPT ![w] = NoRun] /\ pc' = [pc EXCEPT ![w] = "idle"]
          /\ NoSuccess
      BY <1>1, <1>7, FailJobKeeps, CrashKeeps DEF RecordInv
    <2> QED
      BY <1>2, <1>5, <2>1 DEF NoSuccess
  <1> QED
    BY <1>2, <1>4, <1>6, <1>7 DEF Around

-----------------------------------------------------------------------------
(* The execution.                                                          *)

\* Every step keeps the invariant, and what an execution has reached.
LEMMA ExecInvStep == ExecInv /\ [ExecNext]_allVars => ExecInv' /\ Kept
  <1> SUFFICES ASSUME ExecInv, [ExecNext]_allVars
               PROVE  ExecInv' /\ Kept
    OBVIOUS
  <1>1. ASSUME NEW j \in Job, Submit(j) \/ AroundJob(j), UNCHANGED results
        PROVE  ExecInv' /\ Kept
    BY <1>1, BesideKeeps
  <1>2. ASSUME NEW w \in Worker
        PROVE  /\ (\E j \in Job : StartJob(w, j, "report_5")) /\ UNCHANGED results =>
                    ExecInv' /\ Kept
               /\ RecordStep(w) /\ UNCHANGED results => ExecInv' /\ Kept
               /\ Compute(w) => ExecInv' /\ Kept
               /\ Returned(w) => ExecInv' /\ Kept
               /\ Broken(w, InRunner) /\ UNCHANGED results => ExecInv' /\ Kept
               /\ ReportBroken(w) /\ UNCHANGED results => ExecInv' /\ Kept
               /\ Around(w) /\ UNCHANGED results => ExecInv' /\ Kept
    <2>1. (\E j \in Job : StartJob(w, j, "report_5")) /\ UNCHANGED results =>
            ExecInv' /\ Kept
      BY <1>2, EnterExperimentKeeps
    <2>2. ASSUME RecordStep(w), UNCHANGED results
          PROVE  ExecInv' /\ Kept
      <3>1. CASE OuterReport(w) \/ RunnerReport(w)
        BY <1>2, <2>2, <3>1, ReportsKeep
      <3>2. CASE Load(w, "progress_5")
        BY <1>2, <2>2, <3>2, LoadExperimentKeeps
      <3>3. CASE Start(w, 1, "progress_5")
        BY <1>2, <2>2, <3>3, StartExperimentKeeps
      <3>4. CASE Check(w)
        BY <1>2, <2>2, <3>4, CheckKeeps
      <3>5. CASE SaveProgress(w, "save_20", 20, "progress_20")
        BY <1>2, <2>2, <3>5, SaveProgressKeeps
      <3>6. CASE SaveProgress(w, "save_90", 90, "progress_90")
        BY <1>2, <2>2, <3>6, SaveProgressKeeps
      <3>7. CASE SaveSucceeded(w) \/ SaveFailed(w)
        BY <1>2, <2>2, <3>7, EndingKeeps
      <3>8. CASE FailActive(w, exec[run[w].job]) \/ SaveFailActive(w, 1)
        BY <1>2, <2>2, <3>8, FailingKeeps
      <3> QED
        BY <2>2, <3>1, <3>2, <3>3, <3>4, <3>5, <3>6, <3>7, <3>8 DEF RecordStep
    <2>3. Compute(w) => ExecInv' /\ Kept
      BY <1>2, ComputeKeeps
    <2>4. Returned(w) => ExecInv' /\ Kept
      BY <1>2, ReturnedKeeps
    <2>5. /\ Broken(w, InRunner) /\ UNCHANGED results => ExecInv' /\ Kept
          /\ ReportBroken(w) /\ UNCHANGED results => ExecInv' /\ Kept
      BY <1>2, BreakingKeeps
    <2>6. Around(w) /\ UNCHANGED results => ExecInv' /\ Kept
      BY <1>2, LeavingKeeps
    <2> QED
      BY <2>1, <2>2, <2>3, <2>4, <2>5, <2>6
  <1>3. CASE UNCHANGED allVars
    <2>1. ExecInv'
      BY <1>3 DEF allVars, ExecInv, RecordInv, HandlerInv, CopyInv, Idle, Owns, TypeOK,
                  InRange, Backed, SuccessIsBacked
    <2>2. \A j \in Job : exec[j].done \in Nat
      BY DEF ExecInv, TypeOK, Execution
    <2> QED
      BY <1>3, <2>1, <2>2 DEF allVars, Kept
  <1> QED
    BY <1>1, <1>2, <1>3 DEF ExecNext

\* Every reachable state has what the invariant says.
LEMMA ExecInvAlways == ExecSpec => []ExecInv
  BY ExecInvInit, ExecInvStep, PTL DEF ExecSpec

\* The records, the registries and the places of the workers have their types, and
\* a stored progress fits the status of its record: 0 until the runner starts it,
\* 1 to 99 while it runs or once it failed, 100 exactly when it succeeded.
THEOREM ExecutionTypeCorrect == ExecSpec => []TypeOK
  <1>1. ExecInv => TypeOK
    BY DEF ExecInv
  <1> QED
    BY <1>1, ExecInvAlways, PTL

\* However many attempts, crashes, lapsed leases and workers on one record: a
\* succeeded execution has its experiment in the registry, and a succeeded job has
\* it and has handed its candidate off.
THEOREM SuccessIsAlwaysBacked == ExecSpec => []SuccessIsBacked
  <1>1. ExecInv => SuccessIsBacked
    BY DEF ExecInv
  <1> QED
    BY <1>1, ExecInvAlways, PTL

\* While no worker outlives its lease, a succeeded job has a succeeded execution:
\* nobody else stores a record between the runner's return and succeed().
THEOREM SuccessesAgree == ExecSpec => []SuccessAgrees
  <1>1. ExecInv => SuccessAgrees
    BY DEF ExecInv, RecordInv, SuccessAgrees, LeasesHeld
  <1> QED
    BY <1>1, ExecInvAlways, PTL

\* While no worker outlives its lease, an execution that ended is never changed: not
\* by a retried job, a broken step, a crash, or fail_active after the last attempt.
THEOREM EndedIsKept == ExecSpec => EndedExecutionKept
  <1>1. Kept => (LeasesHeld => \A j \in Job : exec[j].status \in Ended => exec'[j] = exec[j])
    BY DEF Kept, LeasesHeld
  <1> QED
    BY <1>1, ExecInvAlways, ExecInvStep, PTL DEF ExecSpec, EndedExecutionKept

\* While no worker outlives its lease, the stored progress of an execution never
\* moves back, whatever attempts are repeated.
THEOREM ProgressIsMonotone == ExecSpec => ExecutionProgressMonotone
  <1>1. Kept => (LeasesHeld => \A j \in Job : exec'[j].done >= exec[j].done)
    BY DEF Kept, LeasesHeld
  <1> QED
    BY <1>1, ExecInvAlways, ExecInvStep, PTL DEF ExecSpec, ExecutionProgressMonotone

-----------------------------------------------------------------------------
(* The three kinds of executions side by side.                             *)

\* A behaviour is one of its kind.
LEMMA BehavesAsItsKind ==
    KindSpec =>
        \/ [](kind = "experiment") /\ ExecSpec
        \/ [](kind = "walk_forward") /\ WalkForward!ExecSpec
        \/ [](kind = "optimization") /\ Optimization!ExecSpec
  <1>1. KindInit =>
          \/ kind = "experiment" /\ ExecInit
          \/ kind = "walk_forward" /\ WalkForward!ExecInit
          \/ kind = "optimization" /\ Optimization!ExecInit
    BY DEF KindInit
  <1>2. kind = "experiment" /\ ExecInit /\ [][KindNext]_<<kind, allVars, spent, fold>> =>
          [](kind = "experiment") /\ ExecSpec
    <2>1. kind = "experiment" /\ [KindNext]_<<kind, allVars, spent, fold>> =>
            (kind = "experiment")' /\ [ExecNext]_allVars
      BY DEF KindNext, allVars
    <2> QED
      BY <2>1, PTL DEF ExecSpec
  <1>3. /\ kind = "walk_forward" /\ WalkForward!ExecInit
        /\ [][KindNext]_<<kind, allVars, spent, fold>>
        => [](kind = "walk_forward") /\ WalkForward!ExecSpec
    <2>1. kind = "walk_forward" /\ [KindNext]_<<kind, allVars, spent, fold>> =>
            (kind = "walk_forward")' /\ [WalkForward!ExecNext]_(WalkForward!allVars)
      BY DEF KindNext, allVars, WalkForward!allVars
    <2> QED
      BY <2>1, PTL DEF WalkForward!ExecSpec
  <1>4. /\ kind = "optimization" /\ Optimization!ExecInit
        /\ [][KindNext]_<<kind, allVars, spent, fold>>
        => [](kind = "optimization") /\ Optimization!ExecSpec
    <2>1. kind = "optimization" /\ [KindNext]_<<kind, allVars, spent, fold>> =>
            (kind = "optimization")' /\ [Optimization!ExecNext]_(Optimization!allVars)
      BY DEF KindNext, allVars, Optimization!allVars
    <2> QED
      BY <2>1, PTL DEF Optimization!ExecSpec
  <1> QED
    BY <1>1, <1>2, <1>3, <1>4, PTL DEF KindSpec

\* Whatever kind of execution is behind a job: a success has in the registries what
\* it promises, through any number of attempts, crashes, lapsed leases and workers.
THEOREM EverySuccessIsAlwaysBacked == KindSpec => []EverySuccessIsBacked
  <1>1. WalkForward!ExecSpec => []WalkForward!SuccessIsBacked
    BY LifecycleAssumption, WalkForward!WalkForwardSuccessIsBacked
  <1>2. Optimization!ExecSpec => []Optimization!SuccessIsBacked
    BY LifecycleAssumption, Optimization!OptimizationSuccessIsBacked DEF Optimization!Sizes
  <1>3. /\ kind = "experiment" /\ SuccessIsBacked => EverySuccessIsBacked
        /\ kind = "walk_forward" /\ WalkForward!SuccessIsBacked => EverySuccessIsBacked
        /\ kind = "optimization" /\ Optimization!SuccessIsBacked => EverySuccessIsBacked
    BY DEF EverySuccessIsBacked
  <1> QED
    BY <1>1, <1>2, <1>3, BehavesAsItsKind, SuccessIsAlwaysBacked, PTL

\* While no worker outlives its lease, an attempt repeats at most the one fold or
\* trial that was not recorded.
THEOREM AtMostOneStepIsLost == KindSpec => []ResumeLosesOneStep
  <1>1. WalkForward!ExecSpec => []WalkForward!ResumeLosesOneFold
    BY LifecycleAssumption, WalkForward!ResumeLosesOneFoldAtMost
  <1>2. Optimization!ExecSpec => []Optimization!ResumeLosesOneTrial
    BY LifecycleAssumption, Optimization!ResumeLosesOneTrialAtMost DEF Optimization!Sizes
  <1>3. /\ kind = "experiment" => ResumeLosesOneStep
        /\ kind = "walk_forward" /\ WalkForward!ResumeLosesOneFold => ResumeLosesOneStep
        /\ kind = "optimization" /\ Optimization!ResumeLosesOneTrial => ResumeLosesOneStep
    BY DEF ResumeLosesOneStep
  <1> QED
    BY <1>1, <1>2, <1>3, BehavesAsItsKind, PTL

=============================================================================
