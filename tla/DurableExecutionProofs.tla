----------------------- MODULE DurableExecutionProofs -----------------------
(***************************************************************************)
(* What the proofs about the executions behind a job have in common: the   *)
(* queue and the handler around a runner keep an invariant of their own,   *)
(* for any number of workers, jobs, attempts, crashes and lapsed leases.   *)
(* Its heart is that a worker that has a run still owns its row, until a   *)
(* first lease lapses; so nobody else works on the record of that job.     *)
(***************************************************************************)
EXTENDS DurableExecution, TLAPS

Statuses == {"absent"} \cup Open \cup Terminal

Row ==
    [status : Statuses, progress : Nat, attempts : Nat, budget : Nat,
     owner : Worker \cup {NoOne}, cancel : BOOLEAN]

Run == [job : Job \cup {NoJob}, attempt : Nat]

HandlerInv ==
    /\ row \in [Job -> Row]
    /\ run \in [Worker -> Run]
    /\ pc = [w \in Worker |-> pc[w]]
    /\ final \in [Worker -> BOOLEAN]
    /\ lapses \in 0..MaxLapses /\ crashes \in 0..MaxCrashes
    /\ \A w \in Worker :
         /\ Idle(w) <=> pc[w] = "idle"
         /\ ~Idle(w) => run[w].job \in Job /\ row[run[w].job].status # "absent"
         /\ lapses = 0 /\ ~Idle(w) => Owns(w)

\* What all steps but the submission of a job and its success have in common.
NoSuccess == \A j \in Job : row'[j].status = "succeeded" => row[j].status = "succeeded"
SameRows == \A j \in Job : row'[j].status = "absent" <=> row[j].status = "absent"

-----------------------------------------------------------------------------
(* Kinds of steps.                                                         *)

\* Initially nobody has a run.
LEMMA HandlerInvInit == HandlerInit => HandlerInv
  <1> SUFFICES ASSUME HandlerInit
               PROVE  HandlerInv
    OBVIOUS
  <1>1. Absent \in Row /\ NoRun \in Run
    BY LifecycleAssumption DEF Absent, Row, Statuses, NoRun, Run
  <1> QED
    BY <1>1, HandlerBounds DEF HandlerInit, Init, HandlerInv, Idle

\* A worker goes on in its handler.
LEMMA WorkerGoesOn ==
    ASSUME HandlerInv, NEW w \in Worker, pc[w] # "idle",
           NEW label, label # "idle",
           pc' = [pc EXCEPT ![w] = label],
           UNCHANGED <<row, run, final, lapses, crashes>>
    PROVE  HandlerInv' /\ NoSuccess /\ SameRows
  <1>1. \A v \in Worker : pc'[v] = IF v = w THEN label ELSE pc[v]
    BY DEF HandlerInv
  <1>2. pc' = [v \in Worker |-> pc'[v]]
    BY DEF HandlerInv
  <1> QED
    BY <1>1, <1>2 DEF HandlerInv, Idle, Owns, NoSuccess, SameRows

\* A worker gives its run up.
LEMMA WorkerLeaves ==
    ASSUME HandlerInv, NEW w \in Worker,
           run' = [run EXCEPT ![w] = NoRun], pc' = [pc EXCEPT ![w] = "idle"],
           crashes' \in 0..MaxCrashes,
           UNCHANGED <<row, final, lapses>>
    PROVE  HandlerInv' /\ NoSuccess /\ SameRows
  <1>0. NoRun \in Run
    BY DEF NoRun, Run
  <1>1. \A v \in Worker : /\ pc'[v] = IF v = w THEN "idle" ELSE pc[v]
                          /\ run'[v] = IF v = w THEN NoRun ELSE run[v]
    BY DEF HandlerInv
  <1>2. pc' = [v \in Worker |-> pc'[v]] /\ run' \in [Worker -> Run]
    BY <1>0 DEF HandlerInv
  <1> QED
    BY <1>1, <1>2 DEF HandlerInv, Idle, Owns, NoSuccess, SameRows

\* A worker changes the row of its job, which no other worker is at work on
\* unless a lease has lapsed.
LEMMA WorkerMovesRow ==
    ASSUME HandlerInv, NEW w \in Worker, NEW j \in Job, NEW q \in Row, NEW r \in Run,
           NEW label,
           row' = [row EXCEPT ![j] = q], run' = [run EXCEPT ![w] = r],
           pc' = [pc EXCEPT ![w] = label],
           q.status # "absent",
           r = NoRun <=> label = "idle",
           r # NoRun => r.job = j /\ q.status = "running" /\ q.owner = w,
           final' \in [Worker -> BOOLEAN], lapses' \in 0..MaxLapses, crashes' = crashes,
           lapses' = 0 => lapses = 0 /\ \A v \in Worker \ {w} : Idle(v) \/ run[v].job # j
    PROVE  HandlerInv'
  <1>1. \A v \in Worker : /\ pc'[v] = IF v = w THEN label ELSE pc[v]
                          /\ run'[v] = IF v = w THEN r ELSE run[v]
    BY DEF HandlerInv
  <1>2. \A i \in Job : row'[i] = IF i = j THEN q ELSE row[i]
    BY DEF HandlerInv
  <1>3. /\ pc' = [v \in Worker |-> pc'[v]] /\ run' \in [Worker -> Run]
        /\ row' \in [Job -> Row]
    BY DEF HandlerInv
  <1>4. ASSUME NEW v \in Worker
        PROVE  /\ Idle(v)' <=> pc'[v] = "idle"
               /\ ~Idle(v)' => run'[v].job \in Job /\ row'[run'[v].job].status # "absent"
               /\ lapses' = 0 /\ ~Idle(v)' => Owns(v)'
    <2>1. CASE v = w
      BY <1>1, <1>2, <2>1 DEF Idle, Owns
    <2>2. CASE v # w
      <3>1. Idle(v)' = Idle(v)
        BY <1>1, <2>2 DEF Idle
      <3>2. ~Idle(v) => run[v].job \in Job /\ row'[run[v].job].status # "absent"
        BY <1>2 DEF HandlerInv
      <3>3. lapses' = 0 /\ ~Idle(v) => Owns(v)'
        BY <1>1, <1>2, <2>2, <3>1 DEF HandlerInv, Owns, Idle
      <3> QED
        BY <1>1, <2>2, <3>1, <3>2, <3>3 DEF HandlerInv
    <2> QED
      BY <2>1, <2>2
  <1> QED
    BY <1>3, <1>4 DEF HandlerInv

\* The row of a job changes beside the workers; a worker that has not lost its
\* lease still owns it.
LEMMA RowMoves ==
    ASSUME HandlerInv, NEW j \in Job, NEW q \in Row,
           row' = [row EXCEPT ![j] = q],
           q.status # "absent",
           UNCHANGED <<run, pc, final, crashes>>,
           lapses' \in 0..MaxLapses,
           lapses' = 0 => /\ lapses = 0
                          /\ \A v \in Worker : ~Idle(v) /\ run[v].job = j =>
                               q.status = "running" /\ q.owner = v
    PROVE  HandlerInv'
  <1>1. \A i \in Job : row'[i] = IF i = j THEN q ELSE row[i]
    BY DEF HandlerInv
  <1>2. row' \in [Job -> Row]
    BY DEF HandlerInv
  <1>3. ASSUME NEW v \in Worker
        PROVE  /\ Idle(v)' <=> pc'[v] = "idle"
               /\ ~Idle(v)' => run'[v].job \in Job /\ row'[run'[v].job].status # "absent"
               /\ lapses' = 0 /\ ~Idle(v)' => Owns(v)'
    <2>1. Idle(v)' = Idle(v)
      BY DEF Idle
    <2>2. ~Idle(v) => run[v].job \in Job /\ row'[run[v].job].status # "absent"
      BY <1>1 DEF HandlerInv
    <2>3. lapses' = 0 /\ ~Idle(v) => Owns(v)'
      BY <1>1, <2>1 DEF HandlerInv, Owns, Idle
    <2> QED
      BY <2>1, <2>2, <2>3 DEF HandlerInv
  <1> QED
    BY <1>2, <1>3 DEF HandlerInv

-----------------------------------------------------------------------------
(* The steps of the queue and of the handler.                              *)

\* What an edit of one row changes for the absence and the success of jobs.
LEMMA RowEdited ==
    ASSUME HandlerInv, NEW j \in Job, NEW q, row' = [row EXCEPT ![j] = q]
    PROVE  /\ q.status # "succeeded" => NoSuccess
           /\ q.status # "absent" /\ row[j].status # "absent" => SameRows
           /\ \A i \in Job \ {j} : row'[i] = row[i]
           /\ row'[j] = q
  BY DEF HandlerInv, NoSuccess, SameRows

\* A job is stored.
LEMMA EnqueueKeeps ==
    ASSUME HandlerInv, NEW j \in Job, Enqueue(j), UNCHANGED handlerVars
    PROVE  /\ HandlerInv' /\ NoSuccess
           /\ row[j].status = "absent" /\ row'[j].status # "absent"
           /\ \A i \in Job \ {j} : row'[i] = row[i]
  <1> DEFINE r == row[j]
             q == [r EXCEPT !.status = "queued"]
  <1>1. r \in Row /\ r.status = "absent" /\ row' = [row EXCEPT ![j] = q]
    BY DEF HandlerInv, Enqueue
  <1>2. \A v \in Worker : ~Idle(v) => run[v].job # j
    BY <1>1 DEF HandlerInv
  <1> HIDE DEF r
  <1>3. q \in Row /\ q.status = "queued"
    BY <1>1 DEF Row, Statuses, Open
  <1> HIDE DEF q
  <1>4. UNCHANGED <<run, pc, final, lapses, crashes>>
    BY DEF Enqueue, handlerVars
  <1>5. HandlerInv'
    BY <1>1, <1>2, <1>3, <1>4, RowMoves DEF HandlerInv
  <1> QED
    BY <1>1, <1>3, <1>5, RowEdited DEF r

\* A worker claims a job and enters its handler; unless a lease lapses with it,
\* nobody else has a run of the job.
LEMMA EnterKeeps ==
    ASSUME HandlerInv, NEW w \in Worker, NEW j \in Job, NEW first, first # "idle",
           Enter(w, j, first)
    PROVE  /\ HandlerInv' /\ NoSuccess /\ SameRows
           /\ lapses' = 0 => lapses = 0 /\ \A v \in Worker \ {w} : Idle(v) \/ run[v].job # j
           /\ run' = [run EXCEPT ![w] = run'[w]] /\ run'[w].job = j
           /\ pc' = [pc EXCEPT ![w] = first]
  <1> DEFINE r == row[j]
             q == [r EXCEPT !.status = "running", !.owner = w, !.attempts = @ + 1]
             a == [job |-> j, attempt |-> r.attempts + 1]
  <1>1. /\ r \in Row /\ r.status \in Open
        /\ row' = [row EXCEPT ![j] = q] /\ run' = [run EXCEPT ![w] = a]
        /\ pc' = [pc EXCEPT ![w] = first]
        /\ crashes' = crashes
    BY DEF HandlerInv, Enter, Claim, Goto
  <1>2. final' \in [Worker -> BOOLEAN]
    BY DEF HandlerInv, Enter
  <1>3. /\ lapses' \in 0..MaxLapses
        /\ lapses' = 0 => lapses = 0 /\ \A v \in Worker : Idle(v) \/ run[v].job # j
    BY HandlerBounds DEF HandlerInv, Enter, Lapse
  <1> HIDE DEF r
  <1>4. /\ q \in Row /\ q.status = "running" /\ q.owner = w
        /\ a \in Run /\ a.job = j /\ a # NoRun
    <2> DEFINE n == r.attempts + 1
    <2>1. n \in Nat
      BY <1>1 DEF Row
    <2>2. q \in Row /\ q.status = "running" /\ q.owner = w
      BY <1>1, <2>1 DEF Row, Statuses, Open
    <2>3. a = [job |-> j, attempt |-> n]
      OBVIOUS
    <2> HIDE DEF q, n, a
    <2>4. a \in Run /\ a.job = j
      BY <2>1, <2>3 DEF Run
    <2>5. NoRun.job # j
      BY LifecycleAssumption DEF NoRun
    <2> QED
      BY <2>2, <2>4, <2>5
  <1> HIDE DEF q, a
  <1>5. HandlerInv'
    BY <1>1, <1>2, <1>3, <1>4, WorkerMovesRow
  <1>6. NoSuccess /\ SameRows
    <2>1. row[j].status # "absent"
      BY <1>1 DEF r, Open
    <2> QED
      BY <1>1, <1>4, <2>1, RowEdited
  <1>7. run'[w] = a
    BY <1>1 DEF HandlerInv
  <1> QED
    BY <1>1, <1>3, <1>4, <1>5, <1>6, <1>7

\* claim_next settles a row.
LEMMA SettleRowKeeps ==
    ASSUME HandlerInv, NEW j \in Job, SettleRow(j)
    PROVE  /\ HandlerInv' /\ NoSuccess /\ SameRows
           /\ UNCHANGED <<run, pc>> /\ (lapses' = 0 => lapses = 0)
  <1> DEFINE r == row[j]
  <1>1. r \in Row /\ r.status \in Open /\ UNCHANGED <<run, pc, final, crashes>>
    BY DEF HandlerInv, SettleRow, Settle
  <1>2. PICK status \in {"cancelled", "failed"} :
          row' = [row EXCEPT ![j] = [r EXCEPT !.status = status, !.owner = NoOne]]
    BY DEF SettleRow, Settle
  <1> DEFINE q == [r EXCEPT !.status = status, !.owner = NoOne]
  <1>3. /\ lapses' \in 0..MaxLapses
        /\ lapses' = 0 => lapses = 0 /\ \A v \in Worker : Idle(v) \/ run[v].job # j
    BY HandlerBounds DEF HandlerInv, SettleRow, Lapse
  <1>4. row[j].status # "absent"
    BY <1>1 DEF Open
  <1> HIDE DEF r
  <1>5. q \in Row /\ q.status \in {"cancelled", "failed"}
    BY <1>1, <1>2 DEF Row, Statuses, Terminal
  <1>6. row' = [row EXCEPT ![j] = q]
    BY <1>2
  <1> HIDE DEF q
  <1> QED
    BY <1>1, <1>3, <1>4, <1>5, <1>6, RowMoves, RowEdited

\* The operator cancels a job or retries a failed one.
LEMMA OperatorKeeps ==
    ASSUME HandlerInv, NEW j \in Job, Operator(j)
    PROVE  HandlerInv' /\ NoSuccess /\ SameRows /\ UNCHANGED <<run, pc, lapses>>
  <1> DEFINE r == row[j]
  <1>0. r \in Row /\ UNCHANGED <<run, pc, final, lapses, crashes>> /\ lapses \in 0..MaxLapses
    BY DEF HandlerInv, Operator, handlerVars, RequestCancel, Retry
  <1>1. CASE RequestCancel(j)
    <2> DEFINE t == IF r.status = "queued" THEN "cancelled" ELSE r.status
               q == [r EXCEPT !.cancel = TRUE, !.status = t]
    <2>1. row' = [row EXCEPT ![j] = q] /\ r.status \in Open
      BY <1>1 DEF RequestCancel
    <2>2. \A v \in Worker : lapses = 0 /\ ~Idle(v) /\ run[v].job = j =>
            r.status = "running" /\ r.owner = v
      BY DEF HandlerInv, Owns
    <2>3. t \in {"running", "cancelled"} /\ (r.status = "running" => t = "running")
      BY <2>1 DEF Open
    <2>4. row[j].status # "absent"
      BY <2>1 DEF Open
    <2> HIDE DEF r, t
    <2>5. q \in Row /\ q.status = t /\ q.owner = r.owner
      BY <1>0, <2>3 DEF Row, Statuses, Open, Terminal
    <2> HIDE DEF q
    <2> QED
      BY <1>0, <2>1, <2>2, <2>3, <2>4, <2>5, RowMoves, RowEdited
  <1>2. CASE Retry(j)
    <2> DEFINE n == r.attempts + 1
               q == [r EXCEPT !.status = "queued", !.progress = 0, !.budget = n,
                              !.cancel = FALSE]
    <2>1. row' = [row EXCEPT ![j] = q] /\ r.status = "failed"
      BY <1>2 DEF Retry
    <2>2. \A v \in Worker : ~(lapses = 0 /\ ~Idle(v) /\ run[v].job = j)
      BY <2>1 DEF HandlerInv, Owns
    <2>3. row[j].status # "absent"
      BY <2>1
    <2> HIDE DEF r
    <2>4. n \in Nat
      BY <1>0 DEF Row
    <2> HIDE DEF n
    <2>5. q \in Row /\ q.status = "queued"
      BY <1>0, <2>4 DEF Row, Statuses, Open
    <2> HIDE DEF q
    <2> QED
      BY <1>0, <2>1, <2>2, <2>3, <2>5, RowMoves, RowEdited
  <1> QED
    BY <1>1, <1>2 DEF Operator


\* A report: the row of the own job moves on, or nothing changes but the label.
LEMMA ReportKeeps ==
    ASSUME HandlerInv, NEW w \in Worker, pc[w] # "idle", NEW p \in Nat,
           NEW accepted, NEW lost, NEW back, "idle" \notin {accepted, lost, back},
           Report(w, p, accepted, lost, back)
    PROVE  /\ HandlerInv' /\ NoSuccess /\ SameRows
           /\ UNCHANGED <<run, lapses>>
           /\ \E label \in {accepted, lost, back} : pc' = [pc EXCEPT ![w] = label]
  <1>0. UNCHANGED <<run, final, lapses, crashes>> /\ lapses \in 0..MaxLapses
    BY DEF Report, Heartbeat, HandlerInv, vars
  <1>1. CASE Heartbeat(w, p) /\ Goto(w, accepted)
    <2> DEFINE j == run[w].job
               r == row[j]
               q == [r EXCEPT !.progress = p]
               a == run[w]
    <2>1. /\ j \in Job /\ ~Idle(w) /\ r.status = "running" /\ r.owner = w
          /\ row' = [row EXCEPT ![j] = q]
          /\ pc' = [pc EXCEPT ![w] = accepted]
      BY <1>1 DEF Heartbeat, Owns, HandlerInv, Goto
    <2>2. run' = [run EXCEPT ![w] = a] /\ a \in Run /\ a # NoRun /\ a.job = j
      BY <1>0, <2>1 DEF HandlerInv, Idle
    <2>3. \A v \in Worker \ {w} : lapses = 0 => Idle(v) \/ run[v].job # j
      BY <2>1 DEF HandlerInv, Owns
    <2>4. r \in Row /\ row[j].status # "absent"
      BY <2>1 DEF HandlerInv
    <2> HIDE DEF r
    <2>5. q \in Row /\ q.status = "running" /\ q.owner = w
      BY <2>1, <2>4 DEF Row
    <2> HIDE DEF q, a, j
    <2>6. HandlerInv'
      <3>1. accepted # "idle" /\ q.status # "absent" /\ final' \in [Worker -> BOOLEAN]
        BY <1>0, <2>5 DEF HandlerInv
      <3> QED
        BY <1>0, <2>1, <2>2, <2>3, <2>5, <3>1, WorkerMovesRow
    <2> QED
      BY <1>0, <2>1, <2>4, <2>5, <2>6, RowEdited
  <1>2. CASE UNCHANGED vars /\ (Goto(w, lost) \/ Goto(w, back))
    BY <1>0, <1>2, WorkerGoesOn DEF Goto, vars
  <1> QED
    BY <1>1, <1>2 DEF Report

\* A job succeeds only by a worker that owns it, at the end of its handler.
LEMMA SucceedJobKeeps ==
    ASSUME HandlerInv, NEW w \in Worker, SucceedJob(w)
    PROVE  /\ HandlerInv' /\ SameRows /\ UNCHANGED lapses
           /\ run' = [run EXCEPT ![w] = NoRun] /\ pc' = [pc EXCEPT ![w] = "idle"]
           /\ pc[w] = "succeed" /\ run[w].job \in Job
           /\ \A i \in Job : row'[i].status = "succeeded" =>
                row[i].status = "succeeded" \/ i = run[w].job
  <1>0. /\ UNCHANGED <<final, lapses, crashes>> /\ lapses \in 0..MaxLapses
        /\ run' = [run EXCEPT ![w] = NoRun] /\ pc' = [pc EXCEPT ![w] = "idle"]
        /\ pc[w] = "succeed" /\ run[w].job \in Job
    BY DEF SucceedJob, Succeed, Abandon, Finish, Goto, HandlerInv
  <1>1. CASE Succeed(w)
    <2> DEFINE j == run[w].job
               r == row[j]
               s == [r EXCEPT !.status = "cancelled", !.owner = NoOne]
               t == [r EXCEPT !.status = "succeeded", !.progress = MaxProgress, !.owner = NoOne]
               q == IF r.cancel THEN s ELSE t
    <2>1. /\ ~Idle(w) /\ r.status = "running" /\ r.owner = w
          /\ row' = [row EXCEPT ![j] = q]
      BY <1>1 DEF Succeed, Owns, Leave
    <2>2. \A v \in Worker \ {w} : lapses = 0 => Idle(v) \/ run[v].job # j
      BY <1>0, <2>1 DEF HandlerInv, Owns
    <2>3. r \in Row /\ row[j].status # "absent"
      BY <1>0, <2>1 DEF HandlerInv
    <2> HIDE DEF r
    <2>4. s \in Row /\ s.status = "cancelled"
      BY <2>3 DEF Row, Statuses, Terminal
    <2>5. t \in Row /\ t.status = "succeeded"
      BY <2>3, LifecycleAssumption DEF Row, Statuses, Terminal
    <2> HIDE DEF s, t
    <2>6. q \in Row /\ q.status # "absent"
      BY <2>4, <2>5
    <2> HIDE DEF q, j
    <2>7. HandlerInv'
      <3>1. NoRun \in Run /\ final' \in [Worker -> BOOLEAN] /\ j \in Job
        BY <1>0 DEF NoRun, Run, HandlerInv, j
      <3> QED
        BY <1>0, <2>1, <2>2, <2>6, <3>1, WorkerMovesRow
    <2> QED
      BY <1>0, <2>1, <2>3, <2>6, <2>7, RowEdited DEF j
  <1>2. CASE Abandon(w)
    <2>1. HandlerInv' /\ NoSuccess /\ SameRows
      BY <1>0, <1>2, WorkerLeaves DEF Abandon, HandlerInv
    <2> QED
      BY <1>0, <2>1 DEF NoSuccess
  <1> QED
    BY <1>1, <1>2 DEF SucceedJob

\* A handler that raised gives its job back, or up.
LEMMA FailJobKeeps ==
    ASSUME HandlerInv, NEW w \in Worker, FailJob(w)
    PROVE  /\ HandlerInv' /\ NoSuccess /\ SameRows /\ UNCHANGED lapses
           /\ run' = [run EXCEPT ![w] = NoRun] /\ pc' = [pc EXCEPT ![w] = "idle"]
  <1>0. /\ UNCHANGED <<final, lapses, crashes>> /\ lapses \in 0..MaxLapses
        /\ run' = [run EXCEPT ![w] = NoRun] /\ pc' = [pc EXCEPT ![w] = "idle"]
        /\ run[w].job \in Job
    BY DEF FailJob, Fail, Abandon, Finish, Goto, HandlerInv
  <1>1. CASE Fail(w, pc[w] = "error")
    <2> DEFINE j == run[w].job
               r == row[j]
               s == [r EXCEPT !.status = "cancelled", !.owner = NoOne]
               t == [r EXCEPT !.status = "queued", !.progress = 0, !.owner = NoOne]
               u == [r EXCEPT !.status = "failed", !.progress = r.progress, !.owner = NoOne]
    <2>1. /\ ~Idle(w) /\ r.status = "running" /\ r.owner = w
          /\ \/ row' = [row EXCEPT ![j] = s]
             \/ row' = [row EXCEPT ![j] = t]
             \/ row' = [row EXCEPT ![j] = u]
      BY <1>1 DEF Fail, Owns, Leave
    <2>2. \A v \in Worker \ {w} : lapses = 0 => Idle(v) \/ run[v].job # j
      BY <1>0, <2>1 DEF HandlerInv, Owns
    <2>3. r \in Row /\ row[j].status # "absent"
      BY <1>0, <2>1 DEF HandlerInv
    <2> HIDE DEF r
    <2>4. /\ s \in Row /\ s.status = "cancelled"
          /\ t \in Row /\ t.status = "queued"
      BY <2>3 DEF Row, Statuses, Terminal, Open
    <2>5. u \in Row /\ u.status = "failed"
      BY <2>3 DEF Row, Statuses, Terminal
    <2> HIDE DEF s, t, u
    <2>6. PICK q \in {s, t, u} : row' = [row EXCEPT ![j] = q]
      BY <2>1
    <2>7. q \in Row /\ q.status \notin {"absent", "succeeded"}
      BY <2>4, <2>5, <2>6
    <2> HIDE DEF j
    <2>8. HandlerInv'
      <3>1. NoRun \in Run /\ final' \in [Worker -> BOOLEAN] /\ j \in Job
        BY <1>0 DEF NoRun, Run, HandlerInv, j
      <3> QED
        BY <1>0, <2>1, <2>2, <2>6, <2>7, <3>1, WorkerMovesRow
    <2> QED
      BY <1>0, <2>3, <2>6, <2>7, <2>8, RowEdited DEF j
  <1>2. CASE Abandon(w)
    <2>1. HandlerInv' /\ NoSuccess /\ SameRows
      BY <1>0, <1>2, WorkerLeaves DEF Abandon, HandlerInv
    <2> QED
      BY <1>0, <2>1
  <1> QED
    BY <1>1, <1>2 DEF FailJob

\* A worker stops.
LEMMA CrashKeeps ==
    ASSUME HandlerInv, NEW w \in Worker, Crash(w)
    PROVE  /\ HandlerInv' /\ NoSuccess /\ SameRows /\ UNCHANGED lapses
           /\ run' = [run EXCEPT ![w] = NoRun] /\ pc' = [pc EXCEPT ![w] = "idle"]
  <1>1. crashes' \in 0..MaxCrashes
    BY HandlerBounds DEF HandlerInv, Crash
  <1> QED
    BY <1>1, WorkerLeaves DEF Crash, Abandon, Finish, Goto

-----------------------------------------------------------------------------
(* The attempts that were started.                                         *)

\* No step takes an attempt back.
Counted == \A j \in Job : row'[j].attempts >= row[j].attempts

\* An edited row decides by itself.
LEMMA RowCounted ==
    ASSUME HandlerInv, NEW j \in Job, NEW q, row' = [row EXCEPT ![j] = q],
           q.attempts = row[j].attempts
    PROVE  Counted
  <1>1. \A i \in Job : row'[i].attempts = row[i].attempts /\ row[i].attempts \in Nat
    BY DEF HandlerInv, Row
  <1> QED
    BY <1>1 DEF Counted

\* A step that leaves the rows alone.
LEMMA SameCounted ==
    ASSUME HandlerInv, row' = row
    PROVE  Counted
  BY DEF HandlerInv, Row, Counted

\* The steps beside the workers.
LEMMA BesideCounted ==
    ASSUME HandlerInv, NEW j \in Job, Enqueue(j) \/ SettleRow(j) \/ Operator(j)
    PROVE  Counted
  <1> DEFINE r == row[j]
  <1>1. r \in Row
    BY DEF HandlerInv
  <1>2. CASE Enqueue(j)
    <2> DEFINE q == [r EXCEPT !.status = "queued"]
    <2>1. row' = [row EXCEPT ![j] = q]
      BY <1>2 DEF Enqueue, HandlerInv
    <2>2. q.attempts = r.attempts
      BY <1>1 DEF Row
    <2> QED
      BY <2>1, <2>2, RowCounted
  <1>3. CASE SettleRow(j)
    <2>1. PICK status \in {"cancelled", "failed"} :
            row' = [row EXCEPT ![j] = [r EXCEPT !.status = status, !.owner = NoOne]]
      BY <1>3 DEF SettleRow, Settle
    <2> DEFINE q == [r EXCEPT !.status = status, !.owner = NoOne]
    <2>2. q.attempts = r.attempts
      BY <1>1 DEF Row
    <2> QED
      BY <2>1, <2>2, RowCounted
  <1>4. CASE RequestCancel(j)
    <2> DEFINE t == IF r.status = "queued" THEN "cancelled" ELSE r.status
               q == [r EXCEPT !.cancel = TRUE, !.status = t]
    <2>1. row' = [row EXCEPT ![j] = q]
      BY <1>4 DEF RequestCancel
    <2>2. q.attempts = r.attempts
      <3> HIDE DEF t
      <3> QED
        BY <1>1 DEF Row
    <2> QED
      BY <2>1, <2>2, RowCounted
  <1>5. CASE Retry(j)
    <2> DEFINE n == r.attempts + 1
               q == [r EXCEPT !.status = "queued", !.progress = 0, !.budget = n,
                              !.cancel = FALSE]
    <2>1. row' = [row EXCEPT ![j] = q]
      BY <1>5 DEF Retry
    <2>2. q.attempts = r.attempts
      <3> HIDE DEF n
      <3> QED
        BY <1>1 DEF Row
    <2> QED
      BY <2>1, <2>2, RowCounted
  <1> QED
    BY <1>2, <1>3, <1>4, <1>5 DEF Operator

\* A worker that starts the handler has started one attempt more.
LEMMA EnterCounted ==
    ASSUME HandlerInv, NEW w \in Worker, NEW j \in Job, NEW first, Enter(w, j, first)
    PROVE  Counted /\ row'[j].attempts > row[j].attempts
  <1> DEFINE r == row[j]
             n == r.attempts + 1
             q == [r EXCEPT !.status = "running", !.owner = w, !.attempts = n]
  <1>1. r \in Row /\ r.attempts \in Nat
    BY DEF HandlerInv, Row
  <1>2. row' = [row EXCEPT ![j] = q]
    BY DEF Enter, Claim
  <1>3. n > r.attempts
    BY <1>1
  <1> HIDE DEF n
  <1>4. q.attempts = n
    BY <1>1 DEF Row
  <1> HIDE DEF q
  <1>5. \A i \in Job : row'[i] = (IF i = j THEN q ELSE row[i]) /\ row[i].attempts \in Nat
    BY <1>2 DEF HandlerInv, Row
  <1>6. n \in Nat
    BY <1>1 DEF n
  <1> HIDE DEF r
  <1>7. r = row[j]
    BY DEF r
  <1> QED
    BY <1>1, <1>3, <1>4, <1>5, <1>6, <1>7 DEF Counted

\* A row that leaves its worker.
LEMMA LeaveCounted ==
    ASSUME HandlerInv, NEW w \in Worker, Owns(w), NEW status, NEW p,
           Leave(run[w].job, status, p)
    PROVE  Counted
  <1> DEFINE j == run[w].job
             r == row[j]
             q == [r EXCEPT !.status = status, !.progress = p, !.owner = NoOne]
  <1>1. j \in Job /\ r \in Row
    BY DEF HandlerInv, Owns
  <1>2. row' = [row EXCEPT ![j] = q]
    BY <1>1 DEF Leave, HandlerInv
  <1>3. q.attempts = r.attempts
    BY <1>1 DEF Row
  <1> QED
    BY <1>1, <1>2, <1>3, RowCounted

\* Reports, and the ways out of the handler.
LEMMA HandlerCounted ==
    ASSUME HandlerInv, NEW w \in Worker,
           \/ \E p, accepted, lost : ReportClamped(w, p, accepted, lost)
           \/ \E p, accepted, lost, back : Report(w, p, accepted, lost, back)
           \/ Around(w)
    PROVE  Counted
  <1> DEFINE j == run[w].job
             r == row[j]
  <1>1. CASE row' = row
    BY <1>1, SameCounted
  <1>2. CASE Owns(w) /\ \E p : row' = [row EXCEPT ![j] = [r EXCEPT !.progress = p]]
    <2>1. j \in Job /\ r \in Row
      BY <1>2 DEF HandlerInv, Owns
    <2>2. PICK p : row' = [row EXCEPT ![j] = [r EXCEPT !.progress = p]]
      BY <1>2
    <2> DEFINE q == [r EXCEPT !.progress = p]
    <2>3. q.attempts = r.attempts
      BY <2>1 DEF Row
    <2> QED
      BY <2>1, <2>2, <2>3, RowCounted
  <1>3. CASE /\ Owns(w)
             /\ \E status : row' = [row EXCEPT ![j] = [r EXCEPT !.status = status,
                                                                !.owner = NoOne]]
    <2>1. j \in Job /\ r \in Row
      BY <1>3 DEF HandlerInv, Owns
    <2>2. PICK status : row' = [row EXCEPT ![j] = [r EXCEPT !.status = status,
                                                            !.owner = NoOne]]
      BY <1>3
    <2> DEFINE q == [r EXCEPT !.status = status, !.owner = NoOne]
    <2>3. q.attempts = r.attempts
      BY <2>1 DEF Row
    <2> QED
      BY <2>1, <2>2, <2>3, RowCounted
  <1>5. CASE \E p, accepted, lost : ReportClamped(w, p, accepted, lost)
    BY <1>1, <1>2, <1>5 DEF ReportClamped, Report, Heartbeat, vars
  <1>4. CASE \E p, accepted, lost, back : Report(w, p, accepted, lost, back)
    BY <1>1, <1>2, <1>4 DEF Report, Heartbeat, vars
  <1>6. CASE Raised(w) \/ Crash(w)
    BY <1>1, <1>6 DEF Raised, Crash, Abandon
  <1>7. CASE SucceedJob(w)
    <2>1. CASE Succeed(w)
      <3>1. CASE r.cancel
        BY <1>3, <2>1, <3>1 DEF Succeed
      <3>2. CASE ~r.cancel
        <4>1. Leave(j, "succeeded", MaxProgress)
          BY <2>1, <3>2 DEF Succeed
        <4> QED
          BY <2>1, <4>1, LeaveCounted DEF Succeed
      <3> QED
        BY <3>1, <3>2
    <2> QED
      BY <1>1, <1>7, <2>1 DEF SucceedJob, Abandon
  <1>8. CASE FailJob(w)
    <2>1. CASE Fail(w, pc[w] = "error")
      <3>1. CASE row' = [row EXCEPT ![j] = [r EXCEPT !.status = "cancelled", !.owner = NoOne]]
        BY <1>3, <2>1, <3>1 DEF Fail
      <3>2. CASE Leave(j, "queued", 0) \/ Leave(j, "failed", r.progress)
        BY <2>1, <3>2, LeaveCounted DEF Fail
      <3> QED
        BY <2>1, <3>1, <3>2 DEF Fail
    <2> QED
      BY <1>1, <1>8, <2>1 DEF FailJob, Abandon
  <1> QED
    BY <1>4, <1>5, <1>6, <1>7, <1>8 DEF Around

-----------------------------------------------------------------------------
(* The record.  A runner stores its whole copy, so what matters is what    *)
(* the copy can be at each label: the sets `working' and `done' are the    *)
(* labels of a runner that work on a running record and those that come    *)
(* after its success.                                                      *)

\* Labels at which a runner has the record it read or stored last.
Loaded(working, done) == working \cup done \cup {"start", "returned", "save_fail_active"}

\* The status of the copy at a label.
Fitting(working, done, label, status) ==
    /\ label = "start" => status = "queued"
    /\ label \in working => status = "running"
    /\ label \in done => status = "succeeded"
    /\ label = "returned" => status \in Ended
    /\ label = "save_fail_active" => status \in {"queued", "running"}

CopyInv(working, done, w) ==
    /\ Fitting(working, done, pc[w], copy[w].status)
    /\ lapses = 0 /\ pc[w] \in Loaded(working, done) => copy[w] = exec[run[w].job]

RecordInv(working, done) ==
    /\ HandlerInv
    /\ exec \in [Job -> Execution] /\ copy \in [Worker -> Execution]
    /\ \A j \in Job : row[j].status = "absent" <=> exec[j].status = "absent"
    /\ \A w \in Worker : CopyInv(working, done, w)
    /\ lapses = 0 => \A j \in Job : row[j].status = "succeeded" => exec[j].status = "succeeded"

\* While no lease has lapsed, a record that ended stays, and work is not lost.
Kept ==
    lapses = 0 => \A j \in Job : /\ exec[j].status \in Ended => exec'[j] = exec[j]
                                 /\ exec'[j].done >= exec[j].done

\* No record exists yet.
LEMMA RecordInvInit ==
    ASSUME NEW working, NEW done, "idle" \notin Loaded(working, done), RecordInit
    PROVE  RecordInv(working, done)
  <1>1. NoExecution \in Execution
    BY DEF NoExecution, Execution
  <1>2. HandlerInv
    BY HandlerInvInit DEF RecordInit
  <1>3. /\ exec = [j \in Job |-> NoExecution] /\ copy = [w \in Worker |-> NoExecution]
        /\ \A w \in Worker : pc[w] = "idle"
        /\ \A j \in Job : row[j].status = "absent"
    BY DEF RecordInit, HandlerInit, Init, Absent
  <1>4. NoExecution.status = "absent"
    BY DEF NoExecution
  <1>5. \A w \in Worker : CopyInv(working, done, w)
    BY <1>3 DEF CopyInv, Fitting, Loaded
  <1> QED
    BY <1>1, <1>2, <1>3, <1>4, <1>5 DEF RecordInv

\* Steps beside the record: worker w goes to a label that fits its copy, or leaves,
\* and the others stay where they are.
LEMMA BesideRecord ==
    ASSUME NEW working, NEW done, RecordInv(working, done),
           HandlerInv', SameRows, NEW w \in Worker,
           \A v \in Worker \ {w} : pc'[v] = pc[v] /\ run'[v] = run[v],
           lapses' = 0 => lapses = 0,
           Fitting(working, done, pc'[w], copy[w].status),
           pc'[w] \in Loaded(working, done) =>
             pc[w] \in Loaded(working, done) /\ run'[w] = run[w],
           lapses' = 0 => \A j \in Job : row'[j].status = "succeeded" =>
             row[j].status = "succeeded" \/ exec[j].status = "succeeded",
           UNCHANGED recordVars
    PROVE  RecordInv(working, done)' /\ Kept
  <1>1. \A v \in Worker : CopyInv(working, done, v)'
    BY DEF RecordInv, CopyInv, recordVars
  <1>2. \A j \in Job : exec[j].done \in Nat
    BY DEF RecordInv, Execution
  <1>3. Kept
    BY <1>2 DEF Kept, recordVars
  <1> QED
    BY <1>1, <1>3 DEF RecordInv, SameRows, recordVars

\* A runner reads the record of its job, or takes the one its session has.
LEMMA ReadRecord ==
    ASSUME NEW working, NEW done, RecordInv(working, done),
           NEW w \in Worker, NEW label, label # "idle", pc[w] # "idle",
           pc' = [pc EXCEPT ![w] = label], Local,
           NEW e \in Execution, lapses = 0 => e = exec[run[w].job],
           copy' = [copy EXCEPT ![w] = e], exec' = exec,
           Fitting(working, done, label, e.status)
    PROVE  RecordInv(working, done)' /\ Kept
  <1>1. HandlerInv' /\ NoSuccess /\ SameRows
    BY WorkerGoesOn DEF RecordInv, Local
  <1>3. /\ copy' \in [Worker -> Execution]
        /\ copy'[w] = e /\ pc'[w] = label
        /\ \A v \in Worker \ {w} : copy'[v] = copy[v] /\ pc'[v] = pc[v]
    BY DEF RecordInv, HandlerInv
  <1>4. UNCHANGED <<row, run, lapses, exec>>
    BY DEF Local
  <1>5. \A v \in Worker : CopyInv(working, done, v)'
    BY <1>3, <1>4 DEF RecordInv, CopyInv
  <1>6. \A j \in Job : exec[j].done \in Nat
    BY DEF RecordInv, Execution
  <1>7. Kept
    BY <1>4, <1>6 DEF Kept
  <1> QED
    BY <1>1, <1>3, <1>4, <1>5, <1>7 DEF RecordInv

\* A runner stores its copy, changed: nobody else works on the record, unless a
\* lease has lapsed.
LEMMA SaveRecord ==
    ASSUME NEW working, NEW done, RecordInv(working, done),
           NEW w \in Worker, NEW e \in Execution, NEW label, label # "idle",
           pc[w] \in Loaded(working, done), pc[w] # "idle",
           pc' = [pc EXCEPT ![w] = label], Local, Save(w, e),
           e.status # "absent",
           copy[w].status \notin Ended, e.done >= copy[w].done,
           Fitting(working, done, label, e.status)
    PROVE  RecordInv(working, done)' /\ Kept
  <1>1. HandlerInv' /\ NoSuccess /\ SameRows
    BY WorkerGoesOn DEF RecordInv, Local
  <1>2. /\ run[w].job \in Job /\ row[run[w].job].status # "absent" /\ ~Idle(w)
        /\ lapses = 0 => Owns(w)
    BY DEF RecordInv, HandlerInv
  <1>3. /\ copy' \in [Worker -> Execution]
        /\ copy'[w] = e /\ pc'[w] = label
        /\ \A v \in Worker \ {w} : copy'[v] = copy[v] /\ pc'[v] = pc[v]
    BY DEF RecordInv, HandlerInv, Save
  <1>4. /\ exec' \in [Job -> Execution]
        /\ exec'[run[w].job] = e
        /\ \A j \in Job \ {run[w].job} : exec'[j] = exec[j]
    BY <1>2 DEF RecordInv, Save
  <1>5. UNCHANGED <<row, run, lapses>>
    BY DEF Local
  <1>6. \A v \in Worker \ {w} : lapses = 0 /\ ~Idle(v) =>
          run[v].job \in Job /\ run[v].job # run[w].job
    BY <1>2 DEF RecordInv, HandlerInv, Owns
  <1>7. ASSUME NEW v \in Worker
        PROVE  CopyInv(working, done, v)'
    <2>1. CASE v = w
      BY <1>3, <1>4, <1>5, <2>1 DEF CopyInv
    <2>2. CASE v # w
      <3>1. lapses' = 0 /\ pc'[v] \in Loaded(working, done) /\ ~Idle(v) =>
              copy'[v] = exec'[run'[v].job]
        BY <1>3, <1>4, <1>5, <1>6, <2>2 DEF RecordInv, CopyInv
      <3>2. lapses' = 0 /\ pc'[v] \in Loaded(working, done) /\ Idle(v) =>
              copy'[v] = exec'[run'[v].job]
        <4>1. Idle(v) => run[v].job \notin Job
          BY LifecycleAssumption DEF Idle, NoRun
        <4>2. ASSUME Idle(v)
              PROVE  exec'[run[v].job] = exec[run[v].job]
          BY <1>2, <4>1, <4>2 DEF RecordInv, Save
        <4> QED
          BY <1>3, <1>5, <2>2, <4>2 DEF RecordInv, CopyInv
      <3> QED
        BY <1>3, <2>2, <3>1, <3>2 DEF RecordInv, CopyInv
    <2> QED
      BY <2>1, <2>2
  <1>8. /\ lapses = 0 => row[run[w].job].status = "running" /\ copy[w] = exec[run[w].job]
        /\ \A j \in Job : exec[j].done \in Nat
    BY <1>2 DEF RecordInv, CopyInv, Owns, Execution
  <1>9. Kept
    BY <1>4, <1>8 DEF Kept
  <1>10. lapses' = 0 => \A j \in Job : row'[j].status = "succeeded" => exec'[j].status = "succeeded"
    BY <1>4, <1>5, <1>8 DEF RecordInv
  <1>11. \A j \in Job : row'[j].status = "absent" <=> exec'[j].status = "absent"
    BY <1>2, <1>4, <1>5 DEF RecordInv
  <1> QED
    BY <1>1, <1>3, <1>4, <1>7, <1>9, <1>10, <1>11 DEF RecordInv

-----------------------------------------------------------------------------
(* The steps the runners share.                                            *)

\* What the labels of a runner must be like: a failed execution is stored from a
\* running one, and a job only succeeds after its execution.
Labels(working, done) ==
    /\ {"idle", "load", "raised", "error", "fatal", "fail_active"}
         \cap Loaded(working, done) = {}
    /\ {"start", "returned", "save_fail_active"} \cap (working \cup done) = {}
    /\ working \cap done = {}
    /\ "save_failed" \in working /\ "succeed" \in done

\* The records that are made of one.
LEMMA NextRecords ==
    ASSUME NEW e \in Execution, NEW n \in Nat
    PROVE  /\ Running(e, n) \in Execution
           /\ Running(e, n).status = "running" /\ Running(e, n).done = n
           /\ Succeeded(e, n) \in Execution
           /\ Succeeded(e, n).status = "succeeded" /\ Succeeded(e, n).done = n
           /\ Failed(e) \in Execution
           /\ Failed(e).status = "failed" /\ Failed(e).done = e.done
  BY DEF Running, Succeeded, Failed, Execution

\* A step within the handler that leaves the record alone.
LEMMA StayKeeps ==
    ASSUME NEW working, NEW done, RecordInv(working, done),
           NEW w \in Worker, NEW label, label # "idle", pc[w] # "idle",
           pc' = [pc EXCEPT ![w] = label], Local, UNCHANGED recordVars,
           Fitting(working, done, label, copy[w].status),
           label \in Loaded(working, done) => pc[w] \in Loaded(working, done)
    PROVE  RecordInv(working, done)' /\ Kept
  <1>1. HandlerInv' /\ NoSuccess /\ SameRows
    BY WorkerGoesOn DEF RecordInv, Local
  <1>2. /\ pc'[w] = label
        /\ \A v \in Worker \ {w} : pc'[v] = pc[v] /\ run'[v] = run[v]
        /\ run'[w] = run[w] /\ lapses' = lapses
    BY DEF RecordInv, HandlerInv, Local
  <1> QED
    BY <1>1, <1>2, BesideRecord DEF NoSuccess

\* The same with a report.
LEMMA StayAtReport ==
    ASSUME NEW working, NEW done, RecordInv(working, done),
           NEW w \in Worker, pc[w] # "idle", NEW p \in Nat,
           NEW accepted, NEW lost, NEW back, "idle" \notin {accepted, lost, back},
           Report(w, p, accepted, lost, back), UNCHANGED recordVars,
           \A label \in {accepted, lost, back} :
             /\ Fitting(working, done, label, copy[w].status)
             /\ label \in Loaded(working, done) => pc[w] \in Loaded(working, done)
    PROVE  /\ RecordInv(working, done)' /\ Kept /\ NoSuccess /\ run' = run
           /\ \E label \in {accepted, lost, back} : pc' = [pc EXCEPT ![w] = label]
  <1>1. /\ HandlerInv' /\ NoSuccess /\ SameRows
        /\ UNCHANGED <<run, lapses>>
    BY ReportKeeps DEF RecordInv
  <1>2. PICK label \in {accepted, lost, back} : pc' = [pc EXCEPT ![w] = label]
    BY ReportKeeps DEF RecordInv
  <1>3. /\ pc'[w] = label
        /\ \A v \in Worker \ {w} : pc'[v] = pc[v] /\ run'[v] = run[v]
        /\ run'[w] = run[w] /\ lapses' = lapses
    BY <1>1, <1>2 DEF RecordInv, HandlerInv
  <1>4. RecordInv(working, done)' /\ Kept
    BY <1>1, <1>2, <1>3, BesideRecord DEF NoSuccess
  <1> QED
    BY <1>1, <1>2, <1>4

\* The same with a report that is raised to what the job shows.
LEMMA StayReporting ==
    ASSUME NEW working, NEW done, RecordInv(working, done),
           NEW w \in Worker, pc[w] # "idle", NEW p \in Nat,
           NEW accepted, NEW lost, "idle" \notin {accepted, lost},
           ReportClamped(w, p, accepted, lost), UNCHANGED recordVars,
           \A label \in {accepted, lost} :
             /\ Fitting(working, done, label, copy[w].status)
             /\ label \in Loaded(working, done) => pc[w] \in Loaded(working, done)
    PROVE  /\ RecordInv(working, done)' /\ Kept /\ NoSuccess
           /\ run' = run /\ \E label \in {accepted, lost} : pc' = [pc EXCEPT ![w] = label]
  <1> DEFINE known == row[run[w].job].progress
             q == IF p >= known THEN p ELSE known
  <1>1. run[w].job \in Job /\ known \in Nat
    BY DEF RecordInv, HandlerInv, Row
  <1>2. q \in Nat /\ Report(w, q, accepted, lost, lost)
    BY <1>1 DEF ReportClamped
  <1> HIDE DEF q
  <1>3. {accepted, lost, lost} = {accepted, lost}
    OBVIOUS
  <1> QED
    BY <1>2, <1>3, StayAtReport

\* A job and its record are stored together.
LEMMA SubmitKeeps ==
    ASSUME NEW working, NEW done, RecordInv(working, done), NEW j \in Job, Submit(j)
    PROVE  RecordInv(working, done)' /\ Kept
  <1>1. /\ HandlerInv' /\ NoSuccess
        /\ row[j].status = "absent" /\ row'[j].status # "absent"
        /\ \A i \in Job \ {j} : row'[i] = row[i]
        /\ UNCHANGED <<run, pc, lapses, copy>>
    BY EnqueueKeeps DEF RecordInv, Submit, Enqueue, handlerVars
  <1> DEFINE e == [exec[j] EXCEPT !.status = "queued"]
  <1>2. exec[j] \in Execution /\ exec[j].status = "absent"
    BY <1>1 DEF RecordInv
  <1>3. e \in Execution /\ e.status = "queued" /\ e.done = exec[j].done
    BY <1>2 DEF Execution
  <1>4. exec' = [exec EXCEPT ![j] = e]
    BY DEF Submit
  <1> HIDE DEF e
  <1>5. /\ exec' \in [Job -> Execution] /\ exec'[j] = e
        /\ \A i \in Job \ {j} : exec'[i] = exec[i]
    BY <1>3, <1>4 DEF RecordInv
  <1>6. ASSUME NEW v \in Worker
        PROVE  CopyInv(working, done, v)'
    <2>1. run[v].job # j
      BY <1>1, LifecycleAssumption DEF RecordInv, HandlerInv, Idle, NoRun
    <2>2. exec'[run[v].job] = exec[run[v].job]
      BY <1>4, <2>1 DEF RecordInv
    <2> QED
      BY <1>1, <2>2 DEF RecordInv, CopyInv
  <1>7. Kept
    <2>1. \A i \in Job : exec[i].done \in Nat
      BY DEF RecordInv, Execution
    <2> QED
      BY <1>2, <1>3, <1>5, <2>1 DEF Kept, Ended
  <1>8. \A i \in Job : row'[i].status = "absent" <=> exec'[i].status = "absent"
    BY <1>1, <1>3, <1>5 DEF RecordInv
  <1>9. lapses' = 0 => \A i \in Job : row'[i].status = "succeeded" => exec'[i].status = "succeeded"
    BY <1>1, <1>5 DEF RecordInv, NoSuccess
  <1> QED
    BY <1>1, <1>5, <1>6, <1>7, <1>8, <1>9 DEF RecordInv

\* A worker starts the handler of a job, without a copy of the record.
LEMMA StartJobKeeps ==
    ASSUME NEW working, NEW done, RecordInv(working, done),
           NEW w \in Worker, NEW j \in Job, NEW first, first # "idle",
           first \notin Loaded(working, done),
           StartJob(w, j, first)
    PROVE  RecordInv(working, done)' /\ Kept
  <1>1. /\ HandlerInv' /\ NoSuccess /\ SameRows
        /\ lapses' = 0 => lapses = 0
        /\ run' = [run EXCEPT ![w] = run'[w]]
        /\ pc' = [pc EXCEPT ![w] = first]
    BY EnterKeeps DEF RecordInv, StartJob
  <1>2. /\ copy' = [copy EXCEPT ![w] = NoExecution] /\ exec' = exec
        /\ NoExecution \in Execution
    BY DEF StartJob, NoExecution, Execution
  <1>3. /\ copy' \in [Worker -> Execution] /\ pc'[w] = first
        /\ \A v \in Worker \ {w} : copy'[v] = copy[v] /\ pc'[v] = pc[v] /\ run'[v] = run[v]
    BY <1>1, <1>2 DEF RecordInv, HandlerInv
  <1>4. \A v \in Worker : CopyInv(working, done, v)'
    BY <1>1, <1>2, <1>3 DEF RecordInv, CopyInv, Fitting, Loaded
  <1>5. \A i \in Job : exec[i].done \in Nat
    BY DEF RecordInv, Execution
  <1> QED
    BY <1>1, <1>2, <1>3, <1>4, <1>5 DEF RecordInv, Kept, NoSuccess, SameRows

\* run reads the record.
LEMMA LoadKeeps ==
    ASSUME NEW working, NEW done, Labels(working, done), RecordInv(working, done),
           NEW w \in Worker, NEW resume \in working, Load(w, resume)
    PROVE  RecordInv(working, done)' /\ Kept
  <1> DEFINE e == exec[run[w].job]
             label == IF e.status \in Ended THEN "returned"
                      ELSE IF e.status = "queued" THEN "start" ELSE resume
  <1>1. pc[w] = "load" /\ pc' = [pc EXCEPT ![w] = label] /\ Local
        /\ copy' = [copy EXCEPT ![w] = e] /\ exec' = exec
    BY DEF Load, Goto
  <1>2. e \in Execution /\ e.status # "absent"
    BY <1>1 DEF RecordInv, HandlerInv
  <1>3. label # "idle" /\ Fitting(working, done, label, e.status)
    BY <1>2 DEF Labels, Loaded, Fitting, Ended, Execution
  <1>4. pc[w] # "idle" /\ (lapses = 0 => e = exec[run[w].job])
    BY <1>1
  <1> HIDE DEF label, e
  <1> QED
    BY <1>1, <1>2, <1>3, <1>4, ReadRecord

\* A queued record is started.
LEMMA StartKeeps ==
    ASSUME NEW working, NEW done, Labels(working, done), RecordInv(working, done),
           NEW w \in Worker, NEW started \in Nat, NEW next \in working,
           Start(w, started, next), started >= copy[w].done
    PROVE  RecordInv(working, done)' /\ Kept
  <1> DEFINE e == Running(copy[w], started)
  <1>1. pc[w] = "start" /\ pc' = [pc EXCEPT ![w] = next] /\ Local /\ Save(w, e)
    BY DEF Start, Goto
  <1>2. copy[w] \in Execution /\ copy[w].status = "queued"
    BY <1>1 DEF RecordInv, CopyInv, Fitting
  <1>3. e \in Execution /\ e.status = "running" /\ e.done = started
    BY <1>2, NextRecords
  <1> HIDE DEF e
  <1>4. next # "idle" /\ Fitting(working, done, next, e.status) /\ "start" \in Loaded(working, done)
    BY <1>3 DEF Labels, Loaded, Fitting
  <1> QED
    BY <1>1, <1>2, <1>3, <1>4, SaveRecord DEF Ended

\* A running record is advanced, or ends.
LEMMA AdvanceKeeps ==
    ASSUME NEW working, NEW done, Labels(working, done), RecordInv(working, done),
           NEW w \in Worker, pc[w] \in working, NEW e \in Execution, NEW label,
           pc' = [pc EXCEPT ![w] = label], Local, Save(w, e),
           e.done >= copy[w].done,
           \/ e.status = "running" /\ label \in working
           \/ e.status = "succeeded" /\ label \in done \cup {"returned"}
           \/ e.status = "failed" /\ label = "returned"
    PROVE  RecordInv(working, done)' /\ Kept
  <1>1. pc[w] # "idle" /\ pc[w] \in Loaded(working, done) /\ label # "idle"
    BY DEF Labels, Loaded
  <1>2. copy[w].status = "running"
    BY DEF RecordInv, CopyInv, Fitting
  <1>3. Fitting(working, done, label, e.status)
    BY DEF Labels, Fitting, Loaded, Ended
  <1> QED
    BY <1>1, <1>2, <1>3, SaveRecord DEF Ended

\* An error of the domain ends the record.
LEMMA SaveFailedKeeps ==
    ASSUME NEW working, NEW done, Labels(working, done), RecordInv(working, done),
           NEW w \in Worker, SaveFailed(w)
    PROVE  RecordInv(working, done)' /\ Kept
  <1> DEFINE e == Failed(copy[w])
  <1>1. copy[w] \in Execution
    BY DEF RecordInv
  <1>2. e \in Execution /\ e.status = "failed" /\ e.done = copy[w].done
    BY <1>1, NextRecords
  <1>3. /\ pc[w] \in working /\ pc' = [pc EXCEPT ![w] = "returned"] /\ Local /\ Save(w, e)
        /\ e.done >= copy[w].done
    BY <1>1, <1>2 DEF SaveFailed, Goto, Labels, Execution
  <1> HIDE DEF e
  <1> QED
    BY <1>2, <1>3, AdvanceKeeps

\* fail_active takes a record and then ends it, unless it has ended.
LEMMA FailActiveTakes ==
    ASSUME NEW working, NEW done, Labels(working, done), RecordInv(working, done),
           NEW w \in Worker, NEW e \in Execution, e.status # "absent",
           lapses = 0 => e = exec[run[w].job],
           FailActive(w, e)
    PROVE  RecordInv(working, done)' /\ Kept
  <1> DEFINE label == IF e.status \in Ended THEN "fatal" ELSE "save_fail_active"
  <1>1. pc[w] = "fail_active" /\ pc' = [pc EXCEPT ![w] = label] /\ Local
        /\ copy' = [copy EXCEPT ![w] = e] /\ exec' = exec
    BY DEF FailActive, Goto
  <1>2. label # "idle" /\ Fitting(working, done, label, e.status)
    BY DEF Labels, Loaded, Fitting, Ended, Execution
  <1> HIDE DEF label
  <1> QED
    BY <1>1, <1>2, ReadRecord

\* The same with the stored record.
LEMMA FailActiveKeeps ==
    ASSUME NEW working, NEW done, Labels(working, done), RecordInv(working, done),
           NEW w \in Worker, FailActive(w, exec[run[w].job])
    PROVE  RecordInv(working, done)' /\ Kept
  <1> DEFINE e == exec[run[w].job]
  <1>1. e \in Execution /\ e.status # "absent"
    BY DEF FailActive, RecordInv, HandlerInv
  <1>2. FailActive(w, e) /\ (lapses = 0 => e = exec[run[w].job])
    OBVIOUS
  <1> HIDE DEF e
  <1> QED
    BY <1>1, <1>2, FailActiveTakes

\* A queued record is started before it fails.
LEMMA SaveFailActiveKeeps ==
    ASSUME NEW working, NEW done, Labels(working, done), RecordInv(working, done),
           NEW w \in Worker, NEW started \in Nat, SaveFailActive(w, started),
           copy[w].status = "queued" => started >= copy[w].done
    PROVE  RecordInv(working, done)' /\ Kept
  <1>1. /\ pc[w] = "save_fail_active" /\ Local /\ copy[w] \in Execution
        /\ copy[w].status \in {"queued", "running"} /\ copy[w].done \in Nat
    BY DEF SaveFailActive, RecordInv, CopyInv, Fitting, Execution
  <1>2. pc[w] \in Loaded(working, done)
    BY <1>1 DEF Loaded
  <1>3. CASE copy[w].status = "queued"
    <2> DEFINE e == Running(copy[w], started)
    <2>1. e \in Execution /\ e.status = "running" /\ e.done = started
      BY <1>1, NextRecords
    <2>2. Save(w, e) /\ pc' = pc
      BY <1>3 DEF SaveFailActive
    <2>3. pc' = [pc EXCEPT ![w] = "save_fail_active"]
      BY <1>1, <2>2 DEF RecordInv, HandlerInv
    <2> HIDE DEF e
    <2>4. Fitting(working, done, "save_fail_active", e.status)
      BY <2>1 DEF Fitting, Labels
    <2> QED
      BY <1>1, <1>2, <1>3, <2>1, <2>2, <2>3, <2>4, SaveRecord DEF Ended
  <1>4. CASE copy[w].status = "running"
    <2> DEFINE e == Failed(copy[w])
    <2>1. e \in Execution /\ e.status = "failed" /\ e.done = copy[w].done
      BY <1>1, NextRecords
    <2>2. Save(w, e) /\ pc' = [pc EXCEPT ![w] = "fatal"] /\ e.done >= copy[w].done
      BY <1>1, <1>4, <2>1 DEF SaveFailActive, Goto
    <2> HIDE DEF e
    <2>3. Fitting(working, done, "fatal", e.status)
      BY DEF Fitting, Labels, Loaded
    <2> QED
      BY <1>1, <1>2, <1>4, <2>1, <2>2, <2>3, SaveRecord DEF Ended
  <1> QED
    BY <1>1, <1>3, <1>4

\* An infrastructure error.
LEMMA BrokenKeeps ==
    ASSUME NEW working, NEW done, Labels(working, done), RecordInv(working, done),
           NEW w \in Worker, NEW inRunner, "idle" \notin inRunner, Broken(w, inRunner)
    PROVE  RecordInv(working, done)' /\ Kept
  <1>1. PICK label \in {"raised", "error"} : pc' = [pc EXCEPT ![w] = label]
    BY DEF Broken, Goto
  <1>2. pc[w] # "idle" /\ Local /\ UNCHANGED recordVars
    BY DEF Broken
  <1>3. label # "idle" /\ label \notin Loaded(working, done)
    BY DEF Labels
  <1>4. Fitting(working, done, label, copy[w].status)
    BY <1>3 DEF Fitting, Loaded
  <1> QED
    BY <1>1, <1>2, <1>3, <1>4, StayKeeps

\* The queue, the operator and crashes around a handler.
LEMMA AroundKeeps ==
    ASSUME NEW working, NEW done, Labels(working, done), RecordInv(working, done),
           NEW w \in Worker, Around(w)
    PROVE  RecordInv(working, done)' /\ Kept
  <1>0. UNCHANGED recordVars
    BY DEF Around
  <1>1. CASE Raised(w)
    <2>1. PICK label \in {"fail_active", "error"} : pc' = [pc EXCEPT ![w] = label]
      BY <1>1 DEF Raised, Goto
    <2>2. pc[w] # "idle" /\ Local
      BY <1>1 DEF Raised, Local
    <2>3. label # "idle" /\ label \notin Loaded(working, done)
      BY DEF Labels
    <2>4. Fitting(working, done, label, copy[w].status)
      BY <2>3 DEF Fitting, Loaded
    <2> QED
      BY <1>0, <2>1, <2>2, <2>3, <2>4, StayKeeps
  <1>2. CASE SucceedJob(w) \/ FailJob(w) \/ Crash(w)
    <2>1. /\ HandlerInv' /\ SameRows /\ lapses' = lapses
          /\ run' = [run EXCEPT ![w] = NoRun] /\ pc' = [pc EXCEPT ![w] = "idle"]
      BY <1>2, SucceedJobKeeps, FailJobKeeps, CrashKeeps DEF RecordInv
    <2>2. \A v \in Worker \ {w} : pc'[v] = pc[v] /\ run'[v] = run[v]
      BY <2>1 DEF RecordInv, HandlerInv
    <2>3. pc'[w] = "idle" /\ "idle" \notin Loaded(working, done)
      BY <2>1 DEF RecordInv, HandlerInv, Labels
    <2>4. lapses' = 0 => \A j \in Job : row'[j].status = "succeeded" =>
            row[j].status = "succeeded" \/ exec[j].status = "succeeded"
      <3>1. CASE SucceedJob(w)
        <4>1. /\ pc[w] = "succeed" /\ run[w].job \in Job
              /\ \A i \in Job : row'[i].status = "succeeded" =>
                   row[i].status = "succeeded" \/ i = run[w].job
          BY <3>1, SucceedJobKeeps DEF RecordInv
        <4>2. lapses = 0 => exec[run[w].job].status = "succeeded"
          BY <4>1 DEF RecordInv, CopyInv, Fitting, Labels, Loaded
        <4> QED
          BY <2>1, <4>1, <4>2
      <3>2. CASE FailJob(w) \/ Crash(w)
        BY <3>2, FailJobKeeps, CrashKeeps DEF RecordInv, NoSuccess
      <3> QED
        BY <1>2, <3>1, <3>2
    <2>5. Fitting(working, done, pc'[w], copy[w].status)
      BY <2>3 DEF Fitting, Loaded
    <2> QED
      BY <1>0, <2>1, <2>2, <2>3, <2>4, <2>5, BesideRecord
  <1> QED
    BY <1>1, <1>2 DEF Around

\* The queue and the operator, beside all handlers.
LEMMA AroundJobKeeps ==
    ASSUME NEW working, NEW done, RecordInv(working, done), NEW j \in Job, AroundJob(j)
    PROVE  RecordInv(working, done)' /\ Kept
  <1>1. /\ HandlerInv' /\ NoSuccess /\ SameRows
        /\ UNCHANGED <<run, pc>> /\ (lapses' = 0 => lapses = 0)
    BY SettleRowKeeps, OperatorKeeps DEF RecordInv, AroundJob
  <1>2. UNCHANGED recordVars
    BY DEF AroundJob
  <1>3. \A v \in Worker : CopyInv(working, done, v)'
    BY <1>1, <1>2 DEF RecordInv, CopyInv, recordVars
  <1>4. \A i \in Job : exec[i].done \in Nat
    BY DEF RecordInv, Execution
  <1> QED
    BY <1>1, <1>2, <1>3, <1>4 DEF RecordInv, Kept, NoSuccess, SameRows, recordVars

=============================================================================
