-------------------------- MODULE DurableExecution --------------------------
(***************************************************************************)
(* The execution record behind a job and the part of its life that the     *)
(* experiment, walk-forward and optimization runners share: the record is  *)
(* submitted with its job, read when an attempt begins, advanced by saves, *)
(* and failed when the last attempt raises.                                *)
(*                                                                         *)
(* A runner works on a copy and `save' stores the whole copy: nothing      *)
(* compares it with what is stored, and the job's lease is checked only by *)
(* the progress reports between two saves.                                 *)
(***************************************************************************)
EXTENDS JobHandler

VARIABLES
    exec,      \* the stored record of every job: its status and the work done
    copy       \* the record each runner works with

recordVars == <<exec, copy>>

Execution == [status : {"absent", "queued", "running", "succeeded", "failed"}, done : Nat]
NoExecution == [status |-> "absent", done |-> 0]
Ended == {"succeeded", "failed"}

RecordInit ==
    /\ HandlerInit
    /\ exec = [j \in Job |-> NoExecution]
    /\ copy = [w \in Worker |-> NoExecution]

\* The records the state machines make of a record.
Running(e, done) == [e EXCEPT !.status = "running", !.done = done]
Succeeded(e, done) == [e EXCEPT !.status = "succeeded", !.done = done]
Failed(e) == [e EXCEPT !.status = "failed"]

\* A step that touches neither the queue nor the run.
Local == UNCHANGED <<row, run, final, lapses, crashes>>

\* save: the row takes the copy's place, whatever it holds
Save(w, e) ==
    /\ exec' = [exec EXCEPT ![run[w].job] = e]
    /\ copy' = [copy EXCEPT ![w] = e]

\* The enqueuers store the job and its execution in one transaction.
Submit(j) ==
    /\ Enqueue(j)
    /\ exec' = [exec EXCEPT ![j].status = "queued"]
    /\ UNCHANGED <<handlerVars, copy>>

StartJob(w, j, first) ==
    /\ Enter(w, j, first)
    /\ copy' = [copy EXCEPT ![w] = NoExecution]
    /\ UNCHANGED exec

\* Mutant of Load: a record that is already running is started once more.
LoadRestarting(w, resume) ==
    LET e == exec[run[w].job] IN
    /\ pc[w] = "load"
    /\ copy' = [copy EXCEPT ![w] = e]
    /\ Goto(w, IF e.status \in Ended THEN "returned" ELSE "start")
    /\ Local
    /\ UNCHANGED exec

\* Mutant of Load: a failed record is started again by the next attempt.
LoadFailedAgain(w, resume) ==
    LET e == exec[run[w].job] IN
    /\ pc[w] = "load"
    /\ copy' = [copy EXCEPT ![w] = e]
    /\ Goto(w, IF e.status = "succeeded" THEN "returned"
               ELSE IF e.status \in {"queued", "failed"} THEN "start" ELSE resume)
    /\ Local
    /\ UNCHANGED exec

\* run reads the record: an ended one is returned as it is, a queued one is
\* started, a running one was left by an earlier attempt and is resumed.
Load(w, resume) ==
    LET e == exec[run[w].job] IN
    /\ pc[w] = "load"
    /\ copy' = [copy EXCEPT ![w] = e]
    /\ Goto(w, IF e.status \in Ended THEN "returned"
               ELSE IF e.status = "queued" THEN "start" ELSE resume)
    /\ Local
    /\ UNCHANGED exec

Start(w, started, next) ==
    /\ pc[w] = "start"
    /\ Save(w, Running(copy[w], started))
    /\ Goto(w, next)
    /\ Local

\* _fail: an error of the domain ends the execution and is returned.
SaveFailed(w) ==
    /\ pc[w] = "save_failed"
    /\ Save(w, Failed(copy[w]))
    /\ Goto(w, "returned")
    /\ Local

\* fail_active reads a record e and leaves one that has ended alone.
FailActive(w, e) ==
    /\ pc[w] = "fail_active"
    /\ copy' = [copy EXCEPT ![w] = e]
    /\ Goto(w, IF e.status \in Ended THEN "fatal" ELSE "save_fail_active")
    /\ Local
    /\ UNCHANGED exec

\* A queued execution is started and stored before it can fail.
SaveFailActive(w, started) ==
    /\ pc[w] = "save_fail_active"
    /\ IF copy[w].status = "queued"
       THEN Save(w, Running(copy[w], started)) /\ UNCHANGED pc
       ELSE Save(w, Failed(copy[w])) /\ Goto(w, "fatal")
    /\ Local

\* A database or other infrastructure error in a step of the handler: inside
\* the runner it reaches the handler's except branch, elsewhere run_once.
Broken(w, inRunner) ==
    /\ \/ pc[w] \in inRunner \cup {"load", "start", "save_failed"} /\ Goto(w, "raised")
       \/ pc[w] \in {"fail_active", "save_fail_active"} /\ Goto(w, "error")
    /\ Local
    /\ UNCHANGED recordVars

\* The steps around the handler: the queue, the operator and crashes.
Around(w) ==
    /\ Raised(w) \/ SucceedJob(w) \/ FailJob(w) \/ Crash(w)
    /\ UNCHANGED recordVars

AroundJob(j) ==
    /\ SettleRow(j) \/ Operator(j)
    /\ UNCHANGED recordVars
=============================================================================
